---------------------------- MODULE FoldTheorems ----------------------------
(***************************************************************************)
(* What sums over finite sets and flattened sequences are, for the proofs   *)
(* of the other modules: the sum MapThenSumSet computes with a fold unfolds  *)
(* at any member, adds up over disjoint sets and does not fall as the set    *)
(* grows; flattening sequences that share nothing keeps all their members,   *)
(* each once.                                                              *)
(*                                                                         *)
(* Both are recursive functions, over the subsets of the set and over the   *)
(* positions in the sequence, and each fact about them is an induction over *)
(* those.  The induction goes through SmallestSubset and LeastNumber: of the *)
(* subsets or positions for which a claim fails, were there any, one would  *)
(* be smallest.                                                            *)
(***************************************************************************)
EXTENDS Integers, SequencesExt, FiniteSetsExt, FiniteSetTheorems, WellFoundedInduction, TLAPS

\* The sum of f over S.
SumOf(f, S) == MapThenSumSet(LAMBDA x : f[x], S)

\* The member a fold takes first.
Pick(s) == CHOOSE x \in s : TRUE

\* h is the function the fold of f over S computes with.
Unfolds(h, f, S) ==
  h = [s \in SUBSET S |-> IF s = {} THEN 0 ELSE f[Pick(s)] + h[s \ {Pick(s)}]]

Fold(f, S) == CHOOSE h : Unfolds(h, f, S)

-----------------------------------------------------------------------------
(* The fold is well defined. *)

LEMMA SumIsFold ==
  ASSUME NEW f, NEW S
  PROVE  SumOf(f, S) = Fold(f, S)[S]
BY DEF SumOf, MapThenSumSet, MapThenFoldSet, Fold, Unfolds, Pick

LEMMA PickIn == ASSUME NEW s, s # {} PROVE Pick(s) \in s
BY DEF Pick

\* A set of subsets of a finite set has a smallest member.
LEMMA SmallestSubset ==
  ASSUME NEW S, IsFiniteSet(S), NEW B \in SUBSET (SUBSET S), B # {}
  PROVE  \E T \in B : \A U \in B : U \subseteq T => U = T
<1>1. IsWellFoundedOn(StrictSubsetOrdering(S), FiniteSubsetsOf(S))
  BY FS_StrictSubsetOrderingWellFounded
<1>2. FiniteSubsetsOf(S) = SUBSET S
  BY FS_FiniteSubsetsOfFinite
<1>3. PICK T \in B : \A U \in B : ~(<<U, T>> \in StrictSubsetOrdering(S))
  BY <1>1, <1>2, WFMin
<1>4. ASSUME NEW U \in B, U \subseteq T, U # T PROVE FALSE
  <2>1. <<U, T>> \in (SUBSET S) \X (SUBSET S)
    OBVIOUS
  <2>2. <<U, T>> \in StrictSubsetOrdering(S)
    BY <2>1, <1>4 DEF StrictSubsetOrdering
  <2> QED  BY <1>3, <2>2
<1> QED  BY <1>4

\* What the fold is at one subset.
LEMMA UnfoldAt ==
  ASSUME NEW f, NEW S, NEW h, Unfolds(h, f, S), NEW s \in SUBSET S
  PROVE  h[s] = IF s = {} THEN 0 ELSE f[Pick(s)] + h[s \ {Pick(s)}]
<1> DEFINE g == [t \in SUBSET S |-> IF t = {} THEN 0 ELSE f[Pick(t)] + h[t \ {Pick(t)}]]
<1>1. h = g
  BY DEF Unfolds
<1>2. g[s] = IF s = {} THEN 0 ELSE f[Pick(s)] + h[s \ {Pick(s)}]
  OBVIOUS
<1> HIDE DEF g
<1> QED  BY <1>1, <1>2

\* There is at most one fold.
LEMMA FoldUnique ==
  ASSUME NEW f, NEW S, IsFiniteSet(S), NEW g, Unfolds(g, f, S), NEW h, Unfolds(h, f, S)
  PROVE  g = h
<1> DEFINE B == {s \in SUBSET S : g[s] # h[s]}
<1>1. CASE B = {}
  <2>1. \A s \in SUBSET S : g[s] = h[s]
    BY <1>1
  <2> DEFINE N(x, s) == IF s = {} THEN 0 ELSE f[Pick(s)] + x[s \ {Pick(s)}]
  <2>2. \A s \in SUBSET S : s # {} => s \ {Pick(s)} \in SUBSET S
    OBVIOUS
  <2>3. g = [s \in SUBSET S |-> N(g, s)] /\ h = [s \in SUBSET S |-> N(h, s)]
    BY DEF Unfolds
  <2>4. \A s \in SUBSET S : N(g, s) = N(h, s)
    BY <2>1, <2>2
  <2> HIDE DEF N
  <2> QED  BY <2>3, <2>4
<1>2. CASE B # {}
  <2>1. PICK s \in B : \A U \in B : U \subseteq s => U = s
    <3>1. B \in SUBSET (SUBSET S)
      OBVIOUS
    <3> HIDE DEF B
    <3> QED  BY <1>2, <3>1, SmallestSubset
  <2>2. s \in SUBSET S /\ g[s] # h[s]
    OBVIOUS
  <2>3. s # {}
    BY <2>2, UnfoldAt
  <2> DEFINE t == s \ {Pick(s)}
  <2>4. t \in SUBSET S /\ t \subseteq s /\ t # s
    BY <2>2, <2>3, PickIn
  <2>5. g[t] = h[t]
    BY <2>1, <2>4
  <2>6. g[s] = f[Pick(s)] + g[t] /\ h[s] = f[Pick(s)] + h[t]
    BY <2>2, <2>3, UnfoldAt
  <2> QED  BY <2>2, <2>5, <2>6
<1> QED  BY <1>1, <1>2

\* A fold over a set is one over each of its subsets.
LEMMA FoldRestricts ==
  ASSUME NEW f, NEW S, NEW h, Unfolds(h, f, S), NEW V \in SUBSET S
  PROVE  Unfolds([s \in SUBSET V |-> h[s]], f, V)
<1> DEFINE g == [s \in SUBSET V |-> h[s]]
           G == [s \in SUBSET V |-> IF s = {} THEN 0 ELSE f[Pick(s)] + g[s \ {Pick(s)}]]
<1>1. \A s \in SUBSET V : g[s] = G[s]
  <2> SUFFICES ASSUME NEW s \in SUBSET V PROVE g[s] = G[s]
    OBVIOUS
  <2>1. g[s] = IF s = {} THEN 0 ELSE f[Pick(s)] + h[s \ {Pick(s)}]
    <3>1. s \in SUBSET S
      OBVIOUS
    <3> QED  BY <3>1, UnfoldAt
  <2>2. g[s \ {Pick(s)}] = h[s \ {Pick(s)}]
    <3>1. s \ {Pick(s)} \in SUBSET V
      OBVIOUS
    <3> QED  BY <3>1
  <2>3. G[s] = IF s = {} THEN 0 ELSE f[Pick(s)] + g[s \ {Pick(s)}]
    OBVIOUS
  <2> HIDE DEF g, G
  <2> QED  BY <2>1, <2>2, <2>3
<1>2. g = G
  <2>1. g = [s \in SUBSET V |-> g[s]] /\ G = [s \in SUBSET V |-> G[s]]
    OBVIOUS
  <2> HIDE DEF g, G
  <2> QED  BY <1>1, <2>1
<1>3. Unfolds(g, f, V) <=> g = G
  BY DEF Unfolds
<1> HIDE DEF g, G
<1> QED  BY <1>2, <1>3 DEF g

\* A finite set has a fold.
LEMMA FoldExists ==
  ASSUME NEW f, NEW S, IsFiniteSet(S)
  PROVE  Unfolds(Fold(f, S), f, S)
<1> DEFINE B == {U \in SUBSET S : ~ \E h : Unfolds(h, f, U)}
<1>1. ASSUME B # {} PROVE FALSE
  <2>1. PICK U \in B : \A V \in B : V \subseteq U => V = U
    <3>1. B \in SUBSET (SUBSET S)
      OBVIOUS
    <3> HIDE DEF B
    <3> QED  BY <1>1, <3>1, SmallestSubset
  <2>2. U \in SUBSET S /\ ~ \E h : Unfolds(h, f, U)
    OBVIOUS
  <2>3. \A V \in SUBSET U : V # U => Unfolds(Fold(f, V), f, V)
    <3> SUFFICES ASSUME NEW V \in SUBSET U, V # U PROVE \E h : Unfolds(h, f, V)
      BY DEF Fold
    <3>1. V \in SUBSET S /\ V \notin B
      BY <2>1, <2>2
    <3> QED  BY <3>1
  <2>4. \A V \in SUBSET U : IsFiniteSet(V)
    BY <2>2, FS_Subset
  <2>5. \A V \in SUBSET U : \A W \in SUBSET V : V # U => Fold(f, V)[W] = Fold(f, W)[W]
    <3> SUFFICES ASSUME NEW V \in SUBSET U, NEW W \in SUBSET V, V # U
                 PROVE  Fold(f, V)[W] = Fold(f, W)[W]
      OBVIOUS
    <3> DEFINE g == [s \in SUBSET W |-> Fold(f, V)[s]]
    <3>1. Unfolds(g, f, W)
      BY <2>3, FoldRestricts
    <3>2. W \in SUBSET U /\ W # U
      OBVIOUS
    <3>3. Unfolds(Fold(f, W), f, W) /\ IsFiniteSet(W)
      BY <2>3, <2>4, <3>2
    <3>4. g[W] = Fold(f, V)[W]
      OBVIOUS
    <3> HIDE DEF g
    <3>5. g = Fold(f, W)
      BY <3>1, <3>3, FoldUnique
    <3> QED  BY <3>4, <3>5
  <2> DEFINE F(w)  == Fold(f, w)[w]
             h     == [s \in SUBSET U |-> IF s = {} THEN 0
                                         ELSE f[Pick(s)] + F(s \ {Pick(s)})]
             H     == [s \in SUBSET U |-> IF s = {} THEN 0
                                         ELSE f[Pick(s)] + h[s \ {Pick(s)}]]
  <2>6. \A s \in SUBSET U : s # {} => s \ {Pick(s)} \in SUBSET U /\ s \ {Pick(s)} # U
    BY PickIn
  <2>7. \A t \in SUBSET U : t # U => h[t] = F(t)
    <3> SUFFICES ASSUME NEW t \in SUBSET U, t # U PROVE h[t] = F(t)
      OBVIOUS
    <3>1. F(t) = IF t = {} THEN 0 ELSE f[Pick(t)] + Fold(f, t)[t \ {Pick(t)}]
      BY <2>3, UnfoldAt
    <3>2. Fold(f, t)[t \ {Pick(t)}] = F(t \ {Pick(t)})
      BY <2>5
    <3> QED  BY <3>1, <3>2
  <2>8. \A s \in SUBSET U : h[s] = H[s]
    <3> SUFFICES ASSUME NEW s \in SUBSET U PROVE h[s] = H[s]
      OBVIOUS
    <3>1. h[s] = IF s = {} THEN 0 ELSE f[Pick(s)] + F(s \ {Pick(s)})
      OBVIOUS
    <3>2. H[s] = IF s = {} THEN 0 ELSE f[Pick(s)] + h[s \ {Pick(s)}]
      OBVIOUS
    <3>3. s # {} => h[s \ {Pick(s)}] = F(s \ {Pick(s)})
      BY <2>6, <2>7
    <3> HIDE DEF h, H, F
    <3> QED  BY <3>1, <3>2, <3>3
  <2>9. h = H
    <3>1. h = [s \in SUBSET U |-> h[s]] /\ H = [s \in SUBSET U |-> H[s]]
      OBVIOUS
    <3> HIDE DEF h, H
    <3> QED  BY <2>8, <3>1
  <2>10. Unfolds(h, f, U) <=> h = H
    BY DEF Unfolds
  <2> HIDE DEF h, H
  <2> QED  BY <2>2, <2>9, <2>10
<1>2. S \notin B
  BY <1>1
<1> QED  BY <1>2 DEF Fold

\* The sum over nothing, and over a set one of whose members is taken out.
LEMMA SumUnfolds ==
  ASSUME NEW f, NEW S, IsFiniteSet(S)
  PROVE  SumOf(f, S) = IF S = {} THEN 0 ELSE f[Pick(S)] + SumOf(f, S \ {Pick(S)})
<1>1. Unfolds(Fold(f, S), f, S)
  BY FoldExists
<1>2. Fold(f, S)[S] = IF S = {} THEN 0 ELSE f[Pick(S)] + Fold(f, S)[S \ {Pick(S)}]
  BY <1>1, UnfoldAt
<1> DEFINE W == S \ {Pick(S)}
           g == [s \in SUBSET W |-> Fold(f, S)[s]]
<1>3. Unfolds(g, f, W)
  BY <1>1, FoldRestricts
<1>4. IsFiniteSet(W) /\ W \in SUBSET S
  BY FS_Subset
<1>5. g[W] = Fold(f, S)[W]
  OBVIOUS
<1>6. Unfolds(Fold(f, W), f, W)
  BY <1>4, FoldExists
<1> HIDE DEF W, g
<1>7. g = Fold(f, W)
  BY <1>3, <1>4, <1>6, FoldUnique
<1> QED  BY <1>2, <1>5, <1>7, SumIsFold DEF W

-----------------------------------------------------------------------------
(* Sums of naturals. *)

\* The sum over nothing.
LEMMA SumOfNothing == ASSUME NEW f PROVE SumOf(f, {}) = 0
BY SumUnfolds, FS_EmptySet

\* A sum of naturals is a natural.
LEMMA SumType ==
  ASSUME NEW f, NEW S, IsFiniteSet(S), \A x \in S : f[x] \in Nat
  PROVE  SumOf(f, S) \in Nat
<1> DEFINE B == {U \in SUBSET S : SumOf(f, U) \notin Nat}
<1>1. ASSUME B # {} PROVE FALSE
  <2>1. PICK U \in B : \A V \in B : V \subseteq U => V = U
    <3>1. B \in SUBSET (SUBSET S)
      OBVIOUS
    <3> HIDE DEF B
    <3> QED  BY <1>1, <3>1, SmallestSubset
  <2>2. U \in SUBSET S /\ SumOf(f, U) \notin Nat /\ IsFiniteSet(U)
    BY FS_Subset
  <2>3. U # {} /\ SumOf(f, U) = f[Pick(U)] + SumOf(f, U \ {Pick(U)})
    BY <2>2, SumUnfolds
  <2> DEFINE V == U \ {Pick(U)}
  <2>4. Pick(U) \in S /\ V \in SUBSET S /\ V \subseteq U /\ V # U
    BY <2>2, <2>3, PickIn
  <2>5. SumOf(f, V) \in Nat
    BY <2>1, <2>4
  <2> HIDE DEF V
  <2>6. f[Pick(U)] \in Nat
    BY <2>4
  <2> QED  BY <2>2, <2>3, <2>5, <2>6 DEF V
<1> QED  BY <1>1

\* Any member may be taken out of a sum first.
LEMMA SumRemoves ==
  ASSUME NEW f, NEW S, IsFiniteSet(S), \A x \in S : f[x] \in Nat, NEW a \in S
  PROVE  SumOf(f, S) = f[a] + SumOf(f, S \ {a})
<1> DEFINE B == {U \in SUBSET S : \E x \in U : SumOf(f, U) # f[x] + SumOf(f, U \ {x})}
<1>1. ASSUME B # {} PROVE FALSE
  <2>1. PICK U \in B : \A V \in B : V \subseteq U => V = U
    <3>1. B \in SUBSET (SUBSET S)
      OBVIOUS
    <3> HIDE DEF B
    <3> QED  BY <1>1, <3>1, SmallestSubset
  <2>2. PICK x \in U : SumOf(f, U) # f[x] + SumOf(f, U \ {x})
    OBVIOUS
  <2> DEFINE p == Pick(U)
             V == U \ {p}
             W == U \ {x}
             X == (U \ {p}) \ {x}
  <2>3. U \in SUBSET S /\ U # {} /\ p \in U
    BY PickIn
  <2>4. IsFiniteSet(U) /\ IsFiniteSet(V) /\ IsFiniteSet(W) /\ IsFiniteSet(X)
    BY <2>3, FS_Subset
  <2>5. SumOf(f, U) = f[p] + SumOf(f, V)
    BY <2>3, <2>4, SumUnfolds
  <2>6. p # x
    BY <2>2, <2>5
  <2>7. V \in SUBSET S /\ V \subseteq U /\ V # U /\ W \in SUBSET S /\ W \subseteq U /\ W # U
    BY <2>2, <2>3
  <2>8. x \in V /\ p \in W /\ V \ {x} = X /\ W \ {p} = X
    BY <2>3, <2>6
  <2>9. V \notin B /\ W \notin B
    <3> HIDE DEF B, V, W, p
    <3> QED  BY <2>1, <2>7
  <2>10. SumOf(f, V) = f[x] + SumOf(f, X) /\ SumOf(f, W) = f[p] + SumOf(f, X)
    <3>1. \A y \in V : SumOf(f, V) = f[y] + SumOf(f, V \ {y})
      BY <2>7, <2>9
    <3>2. \A y \in W : SumOf(f, W) = f[y] + SumOf(f, W \ {y})
      BY <2>7, <2>9
    <3> HIDE DEF V, W, X, p
    <3> QED  BY <2>8, <3>1, <3>2
  <2>11. f[x] \in Nat /\ f[p] \in Nat /\ SumOf(f, X) \in Nat
    <3>1. \A y \in X : f[y] \in Nat
      BY <2>3
    <3>2. SumOf(f, X) \in Nat
      BY <2>4, <3>1, SumType
    <3> QED  BY <2>3, <3>2
  <2>12. SumOf(f, U) = f[x] + SumOf(f, W)
    <3> HIDE DEF V, W, X, p
    <3> QED  BY <2>5, <2>10, <2>11
  <2> QED  BY <2>2, <2>12
<1> QED  BY <1>1

\* A new member adds its own value.
LEMMA SumAdds ==
  ASSUME NEW f, NEW S, IsFiniteSet(S), \A x \in S : f[x] \in Nat, NEW a, a \notin S,
         f[a] \in Nat
  PROVE  SumOf(f, S \cup {a}) = SumOf(f, S) + f[a]
<1> DEFINE T == S \cup {a}
<1>1. IsFiniteSet(T)
  BY FS_AddElement
<1>2. a \in T /\ T \ {a} = S /\ \A x \in T : f[x] \in Nat
  OBVIOUS
<1>3. SumOf(f, S) \in Nat
  BY SumType
<1> HIDE DEF T
<1>4. SumOf(f, T) = f[a] + SumOf(f, S)
  BY <1>1, <1>2, SumRemoves
<1> QED  BY <1>3, <1>4 DEF T

\* The sum over two sets that have nothing in common.
LEMMA SumOfUnion ==
  ASSUME NEW f, NEW S, IsFiniteSet(S), NEW T, IsFiniteSet(T), S \cap T = {},
         \A x \in S \cup T : f[x] \in Nat
  PROVE  SumOf(f, S \cup T) = SumOf(f, S) + SumOf(f, T)
<1> DEFINE B == {U \in SUBSET T : SumOf(f, S \cup U) # SumOf(f, S) + SumOf(f, U)}
<1>1. ASSUME B # {} PROVE FALSE
  <2>1. PICK U \in B : \A V \in B : V \subseteq U => V = U
    <3>1. B \in SUBSET (SUBSET T)
      OBVIOUS
    <3> HIDE DEF B
    <3> QED  BY <1>1, <3>1, SmallestSubset
  <2>2. U \in SUBSET T /\ SumOf(f, S \cup U) # SumOf(f, S) + SumOf(f, U)
    OBVIOUS
  <2> HIDE DEF B
  <2>3. IsFiniteSet(U) /\ IsFiniteSet(S \cup U)
    BY <2>2, FS_Subset, FS_Union
  <2>4. \A x \in S : f[x] \in Nat
    OBVIOUS
  <2>5. SumOf(f, S) \in Nat
    BY <2>4, SumType
  <2>6. U # {}
    <3>1. SumOf(f, {}) = 0
      BY SumUnfolds, FS_EmptySet
    <3> SUFFICES ASSUME U = {} PROVE FALSE
      OBVIOUS
    <3>2. S \cup U = S
      OBVIOUS
    <3> QED  BY <2>2, <2>5, <3>1, <3>2
  <2>7. PICK a \in U : TRUE
    BY <2>6
  <2> DEFINE V == U \ {a}
             W == S \cup V
  <2>8. V \in SUBSET T /\ V \subseteq U /\ V # U
    BY <2>2, <2>7
  <2>9. SumOf(f, S \cup V) = SumOf(f, S) + SumOf(f, V)
    <3>1. V \notin B
      <4> HIDE DEF V
      <4> QED  BY <2>1, <2>8
    <3>2. \A Y \in SUBSET T : Y \notin B => SumOf(f, S \cup Y) = SumOf(f, S) + SumOf(f, Y)
      BY DEF B
    <3> HIDE DEF V
    <3> QED  BY <2>8, <3>1, <3>2
  <2>10. /\ \A x \in U : f[x] \in Nat
         /\ \A x \in V : f[x] \in Nat
         /\ \A x \in S \cup U : f[x] \in Nat
    BY <2>2
  <2>11. IsFiniteSet(V)
    BY <2>3, FS_Subset
  <2>12. SumOf(f, V) \in Nat
    BY <2>10, <2>11, SumType
  <2>13. SumOf(f, U) = f[a] + SumOf(f, V)
    BY <2>3, <2>7, <2>10, SumRemoves
  <2>14. a \in S \cup U /\ (S \cup U) \ {a} = W
    BY <2>2, <2>7
  <2>15. SumOf(f, S \cup U) = f[a] + SumOf(f, W)
    BY <2>3, <2>10, <2>14, SumRemoves
  <2>16. f[a] \in Nat
    BY <2>7, <2>10
  <2>17. SumOf(f, W) = SumOf(f, S) + SumOf(f, V)
    BY <2>9
  <2> HIDE DEF V, W
  <2> QED  BY <2>2, <2>5, <2>12, <2>13, <2>15, <2>16, <2>17
<1>2. T \notin B
  BY <1>1
<1> QED  BY <1>2

\* A larger set has no smaller sum.
LEMMA SumGrows ==
  ASSUME NEW f, NEW S, IsFiniteSet(S), \A x \in S : f[x] \in Nat, NEW T \in SUBSET S
  PROVE  SumOf(f, T) \in Nat /\ SumOf(f, S) \in Nat /\ SumOf(f, T) <= SumOf(f, S)
<1> DEFINE U == S \ T
<1>1. IsFiniteSet(T) /\ IsFiniteSet(U)
  BY FS_Subset
<1>2. T \cap U = {} /\ T \cup U = S
  OBVIOUS
<1>3. \A x \in T \cup U : f[x] \in Nat
  OBVIOUS
<1>4. (\A x \in T : f[x] \in Nat) /\ (\A x \in U : f[x] \in Nat)
  OBVIOUS
<1>5. SumOf(f, T) \in Nat /\ SumOf(f, U) \in Nat
  BY <1>1, <1>4, SumType
<1> HIDE DEF U
<1>6. SumOf(f, S) = SumOf(f, T) + SumOf(f, U)
  BY <1>1, <1>2, <1>3, SumOfUnion
<1> QED  BY <1>5, <1>6

-----------------------------------------------------------------------------
(* Numbers, and sequences without repetitions. *)

\* Two sets that have nothing in common.
LEMMA DisjointUnion ==
  ASSUME NEW S, NEW T, IsFiniteSet(S), IsFiniteSet(T), S \cap T = {}
  PROVE  /\ IsFiniteSet(S \cup T)
         /\ Cardinality(S) \in Nat /\ Cardinality(T) \in Nat
         /\ Cardinality(S \cup T) = Cardinality(S) + Cardinality(T)
<1>1. Cardinality(S) \in Nat /\ Cardinality(T) \in Nat
  BY FS_CardinalityType
<1>2. /\ IsFiniteSet(S \cup T)
      /\ Cardinality(S \cup T) = Cardinality(S) + Cardinality(T) - Cardinality(S \cap T)
  BY FS_Union
<1>3. Cardinality(S \cap T) = 0
  BY FS_EmptySet
<1> QED  BY <1>1, <1>2, <1>3

\* A set of naturals has a least member.
LEMMA LeastNumber ==
  ASSUME NEW B \in SUBSET Nat, B # {}
  PROVE  \E m \in B : \A k \in B : m <= k
<1> DEFINE less == {p \in Nat \X Nat : p[1] < p[2]}
<1>0. IsWellFoundedOn(less, Nat)
  BY NatLessThanWellFounded DEF OpToRel
<1> HIDE DEF less
<1>1. PICK m \in B : \A k \in B : ~ (<<k, m>> \in less)
  BY <1>0, WFMin
<1>2. ASSUME NEW k \in B, k < m PROVE FALSE
  <2>1. <<k, m>> \in Nat \X Nat
    OBVIOUS
  <2>2. <<k, m>> \in less
    BY <1>2, <2>1 DEF less
  <2> QED  BY <1>1, <2>2
<1> QED  BY <1>1, <1>2

\* A set of naturals below a bound has a greatest member.
LEMMA GreatestNumber ==
  ASSUME NEW n \in Nat, NEW B \in SUBSET (0 .. n), B # {}
  PROVE  Max(B) \in B /\ \A k \in B : k <= Max(B)
<1> DEFINE C == {n - k : k \in B}
<1>1. C \in SUBSET Nat /\ C # {}
  <2>1. \A k \in B : n - k \in Nat
    OBVIOUS
  <2>2. PICK k \in B : TRUE
    OBVIOUS
  <2>3. n - k \in C
    OBVIOUS
  <2> QED  BY <2>1, <2>3
<1>2. PICK c \in C : \A d \in C : c <= d
  <2> HIDE DEF C
  <2> QED  BY <1>1, LeastNumber
<1>3. PICK m \in B : c = n - m
  OBVIOUS
<1>4. \A k \in B : m >= k
  <2> SUFFICES ASSUME NEW k \in B PROVE m >= k
    OBVIOUS
  <2>1. n - k \in C
    OBVIOUS
  <2>2. c <= n - k
    BY <1>2, <2>1
  <2> QED  BY <1>3, <2>2
<1>5. Max(B) \in B /\ \A k \in B : Max(B) >= k
  BY <1>3, <1>4 DEF Max
<1> QED  BY <1>5

\* The least of a set of naturals is one of them.
LEMMA LeastOf ==
  ASSUME NEW B \in SUBSET Nat, B # {}
  PROVE  Min(B) \in B
BY LeastNumber DEF Min

\* A sequence without repetitions is as long as the set of its members.
LEMMA InjectiveLen ==
  ASSUME NEW T, NEW s \in Seq(T), IsInjective(s)
  PROVE  IsFiniteSet(ToSet(s)) /\ Cardinality(ToSet(s)) = Len(s)
<1> DEFINE n == Len(s)
           D == 1 .. n
<1>1. DOMAIN s = D /\ n \in Nat
  OBVIOUS
<1>2. IsFiniteSet(D) /\ Cardinality(D) = IF 1 > n THEN 0 ELSE n - 1 + 1
  <2>1. 1 \in Int /\ n \in Int
    BY <1>1
  <2> HIDE DEF n
  <2> QED  BY <2>1, FS_Interval
<1> HIDE DEF n, D
<1>3. Cardinality(D) = n
  BY <1>1, <1>2
<1>4. s \in Bijection(D, ToSet(s))
  <2>1. s \in [D -> ToSet(s)]
    BY <1>1 DEF ToSet
  <2>2. s \in Injection(D, ToSet(s))
    BY <1>1, <2>1 DEF Injection, IsInjective
  <2>3. s \in Surjection(D, ToSet(s))
    BY <1>1, <2>1 DEF Surjection, ToSet
  <2> QED  BY <2>2, <2>3 DEF Bijection
<1>5. ExistsBijection(D, ToSet(s))
  BY <1>4 DEF ExistsBijection
<1>6. IsFiniteSet(ToSet(s)) /\ Cardinality(ToSet(s)) = Cardinality(D)
  BY <1>2, <1>5, FS_Bijection
<1> QED  BY <1>3, <1>6 DEF n

\* Two sequences in a row.
LEMMA ConcatFacts ==
  ASSUME NEW T, NEW a \in Seq(T), NEW b \in Seq(T), IsInjective(a), IsInjective(b),
         ToSet(a) \cap ToSet(b) = {}
  PROVE  /\ a \o b \in Seq(T) /\ IsInjective(a \o b)
         /\ ToSet(a \o b) = ToSet(a) \cup ToSet(b)
<1> DEFINE c == a \o b
<1>1. /\ Len(a) \in Nat /\ DOMAIN a = 1 .. Len(a)
      /\ Len(b) \in Nat /\ DOMAIN b = 1 .. Len(b)
      /\ c \in Seq(T) /\ DOMAIN c = 1 .. Len(a) + Len(b)
      /\ \A i \in 1 .. Len(a) + Len(b) : c[i] = IF i <= Len(a) THEN a[i] ELSE b[i - Len(a)]
  OBVIOUS
<1> HIDE DEF c
<1>2. ToSet(c) \subseteq ToSet(a) \cup ToSet(b)
  <2> SUFFICES ASSUME NEW i \in 1 .. Len(a) + Len(b) PROVE c[i] \in ToSet(a) \cup ToSet(b)
    BY <1>1 DEF ToSet
  <2>1. CASE i <= Len(a)
    <3>1. i \in 1 .. Len(a) /\ c[i] = a[i]
      BY <1>1, <2>1
    <3> QED  BY <1>1, <3>1 DEF ToSet
  <2>2. CASE i > Len(a)
    <3>1. i - Len(a) \in 1 .. Len(b) /\ c[i] = b[i - Len(a)]
      BY <1>1, <2>2
    <3> QED  BY <1>1, <3>1 DEF ToSet
  <2> QED  BY <1>1, <2>1, <2>2
<1>3. ToSet(a) \subseteq ToSet(c)
  <2> SUFFICES ASSUME NEW i \in 1 .. Len(a) PROVE a[i] \in ToSet(c)
    BY <1>1 DEF ToSet
  <2>1. i \in 1 .. Len(a) + Len(b) /\ c[i] = a[i]
    BY <1>1
  <2> QED  BY <1>1, <2>1 DEF ToSet
<1>4. ToSet(b) \subseteq ToSet(c)
  <2> SUFFICES ASSUME NEW i \in 1 .. Len(b) PROVE b[i] \in ToSet(c)
    BY <1>1 DEF ToSet
  <2>1. PICK j : j = Len(a) + i
    OBVIOUS
  <2>2. j \in 1 .. Len(a) + Len(b) /\ ~ (j <= Len(a)) /\ j - Len(a) = i
    BY <1>1, <2>1
  <2>3. c[j] = b[i]
    BY <1>1, <2>2
  <2> QED  BY <1>1, <2>2, <2>3 DEF ToSet
<1>5. IsInjective(c)
  <2>1. \A i, j \in 1 .. Len(a) : a[i] = a[j] => i = j
    BY <1>1 DEF IsInjective
  <2>2. \A i, j \in 1 .. Len(b) : b[i] = b[j] => i = j
    BY <1>1 DEF IsInjective
  <2>3. \A i \in 1 .. Len(a) : \A j \in 1 .. Len(b) : a[i] # b[j]
    BY <1>1 DEF ToSet
  <2> SUFFICES ASSUME NEW i \in 1 .. Len(a) + Len(b), NEW j \in 1 .. Len(a) + Len(b), c[i] = c[j]
               PROVE  i = j
    BY <1>1 DEF IsInjective
  <2>4. CASE i <= Len(a) /\ j <= Len(a)
    BY <1>1, <2>1, <2>4
  <2>5. CASE i > Len(a) /\ j > Len(a)
    <3>1. i - Len(a) \in 1 .. Len(b) /\ j - Len(a) \in 1 .. Len(b)
      BY <1>1, <2>5
    <3>2. b[i - Len(a)] = b[j - Len(a)]
      BY <1>1, <2>5
    <3>3. i - Len(a) = j - Len(a)
      BY <2>2, <3>1, <3>2
    <3> QED  BY <1>1, <3>3
  <2>6. CASE i <= Len(a) /\ j > Len(a)
    <3>1. i \in 1 .. Len(a) /\ j - Len(a) \in 1 .. Len(b)
      BY <1>1, <2>6
    <3> QED  BY <1>1, <2>3, <2>6, <3>1
  <2>7. CASE i > Len(a) /\ j <= Len(a)
    <3>1. j \in 1 .. Len(a) /\ i - Len(a) \in 1 .. Len(b)
      BY <1>1, <2>7
    <3> QED  BY <1>1, <2>3, <2>7, <3>1
  <2> QED  BY <1>1, <2>4, <2>5, <2>6, <2>7
<1> QED  BY <1>1, <1>2, <1>3, <1>4, <1>5 DEF c

\* One more member.
LEMMA AppendFacts ==
  ASSUME NEW T, NEW s \in Seq(T), IsInjective(s), NEW x \in T, x \notin ToSet(s)
  PROVE  /\ Append(s, x) \in Seq(T) /\ IsInjective(Append(s, x))
         /\ Len(Append(s, x)) = Len(s) + 1 /\ ToSet(Append(s, x)) = ToSet(s) \cup {x}
<1> DEFINE b == <<x>>
           c == s \o b
<1>1. b \in Seq(T) /\ IsInjective(b) /\ ToSet(b) = {x}
  BY DEF IsInjective, ToSet
<1>2. Append(s, x) = c /\ Len(Append(s, x)) = Len(s) + 1
  OBVIOUS
<1> HIDE DEF b
<1>3. c \in Seq(T) /\ IsInjective(c) /\ ToSet(c) = ToSet(s) \cup ToSet(b)
  <2>1. ToSet(s) \cap ToSet(b) = {}
    BY <1>1
  <2> QED  BY <1>1, <2>1, ConcatFacts
<1> HIDE DEF c
<1> QED  BY <1>1, <1>2, <1>3

\* a is the first n members of s, and b the others.
Cut(a, b, s, n, T) ==
  /\ a \in Seq(T) /\ IsInjective(a) /\ Len(a) = n
  /\ b \in Seq(T) /\ IsInjective(b) /\ Len(b) = Len(s) - n
  /\ ToSet(s) = ToSet(a) \cup ToSet(b) /\ ToSet(a) \cap ToSet(b) = {}

LEMMA CutFacts ==
  ASSUME NEW T, NEW s \in Seq(T), IsInjective(s), NEW n \in 0 .. Len(s)
  PROVE  Cut(SubSeq(s, 1, n), SubSeq(s, n + 1, Len(s)), s, n, T)
<1> DEFINE a == SubSeq(s, 1, n)
           b == SubSeq(s, n + 1, Len(s))
<1>1. /\ Len(s) \in Nat /\ DOMAIN s = 1 .. Len(s) /\ n \in Nat /\ n <= Len(s)
      /\ \A i \in 1 .. Len(s) : s[i] \in T
  OBVIOUS
<1>2. a \in Seq(T) /\ Len(a) = n /\ \A i \in 1 .. n : a[i] = s[i]
  OBVIOUS
<1>3. b \in Seq(T) /\ Len(b) = Len(s) - n /\ \A i \in 1 .. Len(s) - n : b[i] = s[n + i]
  <2>1. b \in Seq(T)
    OBVIOUS
  <2>2. Len(b) = Len(s) - n
    OBVIOUS
  <2>3. ASSUME NEW i \in 1 .. Len(s) - n PROVE b[i] = s[n + i]
    <3>1. b[i] = s[n + 1 + i - 1]
      OBVIOUS
    <3> QED  BY <3>1
  <2> QED  BY <2>1, <2>2, <2>3
<1> HIDE DEF a, b
<1>4. DOMAIN a = 1 .. n /\ DOMAIN b = 1 .. Len(s) - n
  BY <1>1, <1>2, <1>3
<1>5. \A i, j \in 1 .. Len(s) : s[i] = s[j] => i = j
  BY <1>1 DEF IsInjective
<1>6. IsInjective(a)
  BY <1>1, <1>2, <1>4, <1>5 DEF IsInjective
<1>7. IsInjective(b)
  <2> SUFFICES ASSUME NEW i \in 1 .. Len(s) - n, NEW j \in 1 .. Len(s) - n, b[i] = b[j]
               PROVE  i = j
    BY <1>4 DEF IsInjective
  <2>1. n + i \in 1 .. Len(s) /\ n + j \in 1 .. Len(s) /\ s[n + i] = s[n + j]
    BY <1>1, <1>3
  <2>2. n + i = n + j
    BY <1>5, <2>1
  <2> QED  BY <1>1, <2>2
<1>8. ToSet(a) \subseteq ToSet(s)
  BY <1>1, <1>2, <1>4 DEF ToSet
<1>9. ToSet(b) \subseteq ToSet(s)
  <2> SUFFICES ASSUME NEW i \in 1 .. Len(s) - n PROVE b[i] \in ToSet(s)
    BY <1>4 DEF ToSet
  <2>1. n + i \in 1 .. Len(s) /\ b[i] = s[n + i]
    BY <1>1, <1>3
  <2> QED  BY <1>1, <2>1 DEF ToSet
<1>10. ToSet(s) \subseteq ToSet(a) \cup ToSet(b)
  <2> SUFFICES ASSUME NEW i \in 1 .. Len(s) PROVE s[i] \in ToSet(a) \cup ToSet(b)
    BY <1>1 DEF ToSet
  <2>1. CASE i <= n
    <3>1. i \in 1 .. n /\ s[i] = a[i]
      BY <1>1, <1>2, <2>1
    <3> QED  BY <1>4, <3>1 DEF ToSet
  <2>2. CASE i > n
    <3>1. PICK j : j = i - n
      OBVIOUS
    <3>2. j \in 1 .. Len(s) - n /\ n + j = i
      BY <1>1, <2>2, <3>1
    <3>3. b[j] = s[i]
      BY <1>3, <3>2
    <3> QED  BY <1>4, <3>2, <3>3 DEF ToSet
  <2> QED  BY <1>1, <2>1, <2>2
<1>11. ToSet(a) \cap ToSet(b) = {}
  <2> SUFFICES ASSUME NEW i \in 1 .. n, NEW j \in 1 .. Len(s) - n, a[i] = b[j] PROVE FALSE
    BY <1>4 DEF ToSet
  <2>1. i \in 1 .. Len(s) /\ n + j \in 1 .. Len(s) /\ s[i] = s[n + j] /\ i # n + j
    BY <1>1, <1>2, <1>3
  <2> QED  BY <1>5, <2>1
<1>12. Cut(a, b, s, n, T)
  BY <1>2, <1>3, <1>6, <1>7, <1>8, <1>9, <1>10, <1>11 DEF Cut
<1> QED  BY <1>12 DEF a, b

\* The first member and the others.
LEMMA TailFacts ==
  ASSUME NEW T, NEW s \in Seq(T), IsInjective(s), s # <<>>
  PROVE  /\ Tail(s) \in Seq(T) /\ IsInjective(Tail(s)) /\ Len(Tail(s)) = Len(s) - 1
         /\ Head(s) \in T /\ Head(s) \notin ToSet(Tail(s))
         /\ ToSet(s) = {Head(s)} \cup ToSet(Tail(s))
<1> DEFINE n == 1
           a == SubSeq(s, 1, n)
           b == SubSeq(s, n + 1, Len(s))
<1>1. n = 1 /\ n \in 0 .. Len(s) /\ Head(s) \in T /\ Len(s) \in Nat
  OBVIOUS
<1>2. ToSet(a) = {Head(s)}
  <2>1. Len(a) = 1 /\ DOMAIN a = {1} /\ a[1] = Head(s)
    OBVIOUS
  <2> HIDE DEF a
  <2> QED  BY <2>1 DEF ToSet
<1>3. Cut(a, b, s, n, T)
  <2> HIDE DEF n
  <2> QED  BY <1>1, CutFacts
<1>4. Tail(s) = b
  <2> DEFINE t == Tail(s)
             m == Len(s) - 1
  <2>1. t \in Seq(T) /\ Len(t) = m /\ \A i \in 1 .. m : t[i] = s[i + 1]
    <3>1. t \in Seq(T)
      OBVIOUS
    <3>2. Len(t) = m
      OBVIOUS
    <3>3. ASSUME NEW i \in 1 .. m PROVE t[i] = s[i + 1]
      OBVIOUS
    <3> QED  BY <3>1, <3>2, <3>3
  <2>2. b \in Seq(T) /\ Len(b) = m
    <3> HIDE DEF a, b
    <3> QED  BY <1>1, <1>3 DEF Cut
  <2>3. \A i \in 1 .. m : b[i] = s[i + 1]
    <3> SUFFICES ASSUME NEW i \in 1 .. m PROVE b[i] = s[i + 1]
      OBVIOUS
    <3>1. b[i] = s[1 + 1 + i - 1]
      OBVIOUS
    <3> QED  BY <3>1
  <2> HIDE DEF b, t, m
  <2>4. t = [i \in 1 .. m |-> t[i]] /\ b = [i \in 1 .. m |-> b[i]]
    BY <2>1, <2>2
  <2>5. t = b
    BY <2>1, <2>3, <2>4
  <2> QED  BY <2>5 DEF t
<1> HIDE DEF a, b
<1>5. Tail(s) \in Seq(T) /\ IsInjective(Tail(s)) /\ Len(Tail(s)) = Len(s) - 1
  BY <1>1, <1>3, <1>4 DEF Cut
<1>6. Head(s) \notin ToSet(Tail(s)) /\ ToSet(s) = {Head(s)} \cup ToSet(Tail(s))
  BY <1>2, <1>3, <1>4 DEF Cut
<1> QED  BY <1>1, <1>5, <1>6

-----------------------------------------------------------------------------
(* Sequences put together from others. *)

\* h concatenates the first k sequences of ss.
Joins(h, ss, k) == h = [i \in 1 .. k |-> IF i = 1 THEN ss[i] ELSE h[i - 1] \o ss[i]]

LEMMA JoinsExist ==
  ASSUME NEW ss, NEW n \in Nat \ {0}
  PROVE  \E h : Joins(h, ss, n)
<1> DEFINE B == {k \in Nat \ {0} : ~ \E h : Joins(h, ss, k)}
<1>1. ASSUME B # {} PROVE FALSE
  <2>1. PICK k \in B : \A m \in B : k <= m
    <3>1. B \in SUBSET Nat
      OBVIOUS
    <3> HIDE DEF B
    <3> QED  BY <1>1, <3>1, LeastNumber
  <2>2. k \in Nat \ {0} /\ ~ \E h : Joins(h, ss, k)
    OBVIOUS
  <2>3. k # 1
    <3> DEFINE h == [i \in 1 .. 1 |-> ss[1]]
               H == [i \in 1 .. 1 |-> IF i = 1 THEN ss[i] ELSE h[i - 1] \o ss[i]]
    <3>1. h = H
      OBVIOUS
    <3>2. Joins(h, ss, 1) <=> h = H
      BY DEF Joins
    <3> HIDE DEF h, H
    <3> QED  BY <2>2, <3>1, <3>2
  <2>4. k - 1 \in Nat \ {0} /\ k - 1 \notin B
    <3>1. k - 1 \in Nat \ {0} /\ ~ (k <= k - 1)
      BY <2>2, <2>3
    <3> HIDE DEF B
    <3> QED  BY <2>1, <3>1
  <2>5. PICK g : Joins(g, ss, k - 1)
    BY <2>4
  <2> DEFINE h == [i \in 1 .. k |-> IF i = k THEN g[k - 1] \o ss[k] ELSE g[i]]
             H == [i \in 1 .. k |-> IF i = 1 THEN ss[i] ELSE h[i - 1] \o ss[i]]
  <2>6. \A i \in 1 .. k - 1 : g[i] = IF i = 1 THEN ss[i] ELSE g[i - 1] \o ss[i]
    BY <2>5 DEF Joins
  <2>7. \A i \in 1 .. k : h[i] = H[i]
    <3> SUFFICES ASSUME NEW i \in 1 .. k PROVE h[i] = H[i]
      OBVIOUS
    <3>1. H[i] = IF i = 1 THEN ss[i] ELSE h[i - 1] \o ss[i]
      OBVIOUS
    <3>2. i # 1 => h[i - 1] = g[i - 1]
      BY <2>2
    <3>3. h[i] = IF i = k THEN g[k - 1] \o ss[k] ELSE g[i]
      OBVIOUS
    <3> HIDE DEF h, H
    <3>4. CASE i = k
      BY <2>3, <3>1, <3>2, <3>3, <3>4
    <3>5. CASE i # k
      <4>1. i \in 1 .. k - 1
        BY <2>2, <3>5
      <4> QED  BY <2>6, <3>1, <3>2, <3>3, <3>5, <4>1
    <3> QED  BY <3>4, <3>5
  <2>8. h = H
    <3>1. h = [i \in 1 .. k |-> h[i]] /\ H = [i \in 1 .. k |-> H[i]]
      OBVIOUS
    <3> HIDE DEF h, H
    <3> QED  BY <2>7, <3>1
  <2>9. Joins(h, ss, k) <=> h = H
    BY DEF Joins
  <2> HIDE DEF h, H
  <2> QED  BY <2>2, <2>8, <2>9
<1> QED  BY <1>1

\* Sequences without repetitions that have nothing in common.
Separate(ss) ==
  /\ \A i \in 1 .. Len(ss) : IsInjective(ss[i])
  /\ \A i, j \in 1 .. Len(ss) : i # j => ToSet(ss[i]) \cap ToSet(ss[j]) = {}

\* s has the members of the first n of them, once each.
Joined(s, ss, n, T) ==
  /\ s \in Seq(T) /\ IsInjective(s)
  /\ \A x : x \in ToSet(s) <=> \E i \in 1 .. n : x \in ToSet(ss[i])

\* What is put together of them has no repetitions either, and all their members.
LEMMA JoinFacts ==
  ASSUME NEW T, NEW ss \in Seq(Seq(T)), Separate(ss),
         NEW h, Joins(h, ss, Len(ss)), NEW n \in 1 .. Len(ss)
  PROVE  Joined(h[n], ss, n, T)
<1> DEFINE Good(k) == Joined(h[k], ss, k, T)
           B == {k \in 1 .. Len(ss) : ~ Good(k)}
<1>1. ASSUME B # {} PROVE FALSE
  <2>1. PICK k \in B : \A m \in B : k <= m
    <3>1. B \in SUBSET Nat
      OBVIOUS
    <3> HIDE DEF B
    <3> QED  BY <1>1, <3>1, LeastNumber
  <2>2. k \in 1 .. Len(ss) /\ ~ Good(k) /\ ss[k] \in Seq(T) /\ Len(ss) \in Nat
    OBVIOUS
  <2>3. h[k] = IF k = 1 THEN ss[k] ELSE h[k - 1] \o ss[k]
    BY <2>2 DEF Joins
  <2>4. k # 1
    <3> SUFFICES ASSUME k = 1 PROVE FALSE
      OBVIOUS
    <3>1. h[k] = ss[k] /\ \A i : i \in 1 .. k <=> i = k
      BY <2>3
    <3>2. \A x : x \in ToSet(h[k]) <=> \E i \in 1 .. k : x \in ToSet(ss[i])
      BY <3>1
    <3> QED  BY <2>2, <3>1, <3>2 DEF Separate, Joined
  <2>5. Good(k - 1)
    <3>1. k - 1 \in 1 .. Len(ss) /\ ~ (k <= k - 1)
      BY <2>2, <2>4
    <3>2. k - 1 \notin B
      <4> HIDE DEF B
      <4> QED  BY <2>1, <3>1
    <3> QED  BY <3>1, <3>2
  <2> DEFINE a == h[k - 1]
             b == ss[k]
             c == h[k]
  <2>6. c = a \o b /\ a \in Seq(T) /\ b \in Seq(T)
    BY <2>2, <2>3, <2>4, <2>5 DEF Joined
  <2>7. IsInjective(a) /\ IsInjective(b)
    BY <2>2, <2>5 DEF Separate, Joined
  <2>8. ToSet(a) \cap ToSet(b) = {}
    <3>1. \A i \in 1 .. k - 1 : i \in 1 .. Len(ss) /\ i # k
      BY <2>2
    <3>2. \A x : x \in ToSet(a) <=> \E i \in 1 .. k - 1 : x \in ToSet(ss[i])
      BY <2>5 DEF Joined
    <3>3. \A i \in 1 .. k - 1 : ToSet(ss[i]) \cap ToSet(b) = {}
      BY <2>2, <3>1 DEF Separate
    <3> HIDE DEF a, b, c, B
    <3> QED  BY <3>2, <3>3
  <2>9. \A x : x \in ToSet(a) \cup ToSet(b) <=> \E i \in 1 .. k : x \in ToSet(ss[i])
    <3>1. \A x : x \in ToSet(a) <=> \E i \in 1 .. k - 1 : x \in ToSet(ss[i])
      BY <2>5 DEF Joined
    <3>2. \A i : i \in 1 .. k <=> i \in 1 .. k - 1 \/ i = k
      BY <2>2
    <3> HIDE DEF a, c, B
    <3> QED  BY <3>1, <3>2
  <2> HIDE DEF a, b, c, B
  <2>10. /\ c \in Seq(T) /\ IsInjective(c) /\ ToSet(c) = ToSet(a) \cup ToSet(b)
    BY <2>6, <2>7, <2>8, ConcatFacts
  <2> QED  BY <2>2, <2>9, <2>10 DEF c, Joined
<1> QED  BY <1>1

\* The flattening of such sequences.
LEMMA FlattenFacts ==
  ASSUME NEW T, NEW ss \in Seq(Seq(T)), Separate(ss)
  PROVE  Joined(FlattenSeq(ss), ss, Len(ss), T)
<1>1. CASE Len(ss) = 0
  <2>1. FlattenSeq(ss) = <<>>
    BY <1>1 DEF FlattenSeq
  <2>2. IsInjective(<<>>) /\ ToSet(<<>>) = {}
    BY DEF IsInjective, ToSet
  <2>3. 1 .. Len(ss) = {}
    BY <1>1
  <2>4. <<>> \in Seq(T)
    OBVIOUS
  <2> QED  BY <2>1, <2>2, <2>3, <2>4 DEF Joined
<1>2. CASE Len(ss) # 0
  <2> DEFINE h == CHOOSE g : Joins(g, ss, Len(ss))
  <2>1. FlattenSeq(ss) = h[Len(ss)]
    BY <1>2 DEF FlattenSeq, Joins
  <2>2. Len(ss) \in Nat \ {0} /\ Len(ss) \in 1 .. Len(ss)
    BY <1>2
  <2>3. \E g : Joins(g, ss, Len(ss))
    BY <2>2, JoinsExist
  <2>4. Joins(h, ss, Len(ss))
    BY <2>3
  <2> HIDE DEF h
  <2>5. \A n \in 1 .. Len(ss) : Joined(h[n], ss, n, T)
    BY <2>4, JoinFacts
  <2> QED  BY <2>1, <2>2, <2>5
<1> QED  BY <1>1, <1>2
=============================================================================
