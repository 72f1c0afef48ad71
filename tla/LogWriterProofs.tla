--------------------------- MODULE LogWriterProofs ----------------------------
(***************************************************************************)
(* Proofs about LogWriter, for any requests, owners, sizes and budgets.     *)
(*                                                                         *)
(* Six invariants, each kept by every step on top of the first:            *)
(*   RowInv     every draft is in one place and was recorded, a row that    *)
(*              waits has no cost yet, and an attempt goes the way of its    *)
(*              log row;                                                    *)
(*   Balance    the rows that wait, were written or were dropped are as     *)
(*              many as those recorded;                                    *)
(*   StoredInv  only bodies of the owner's current epoch are stored;        *)
(*   BodyInv    the bytes held are those of the requests that carry bodies, *)
(*              and every body waits, is on its way, was saved or is in one  *)
(*              count of its owner;                                         *)
(*   Owed       no count is negative, and what was given up is what the     *)
(*              calls that are out there would still add;                   *)
(*   Bounded    the bounds of what the others leave unbounded.              *)
(* Sequences are related to the sets of their members by the lemmas of the  *)
(* first sections: what a group, its references, a chunk and an eviction    *)
(* take and leave.                                                         *)
(***************************************************************************)
EXTENDS LogWriter, FoldTheorems
-----------------------------------------------------------------------------
(* The operators of the model. *)

\* h[n] are those of the first n members of s that are in S.
FiltersUpTo(h, s, S, k) ==
  h = [n \in 0 .. k |->
         IF n = 0 THEN <<>>
         ELSE IF s[n] \in S THEN Append(h[n - 1], s[n]) ELSE h[n - 1]]

\* The recursive function of Only exists.
LEMMA FilterExists ==
  ASSUME NEW s, NEW S, NEW n \in Nat
  PROVE  \E h : FiltersUpTo(h, s, S, n)
<1> DEFINE B == {k \in Nat : ~ \E h : FiltersUpTo(h, s, S, k)}
<1>1. ASSUME B # {} PROVE FALSE
  <2>1. PICK k \in B : \A m \in B : k <= m
    <3>1. B \in SUBSET Nat
      OBVIOUS
    <3> HIDE DEF B
    <3> QED  BY <1>1, <3>1, LeastNumber
  <2>2. k \in Nat /\ ~ \E h : FiltersUpTo(h, s, S, k)
    OBVIOUS
  <2>3. k # 0
    <3> DEFINE h == [i \in 0 .. 0 |-> <<>>]
               H == [i \in 0 .. 0 |-> IF i = 0 THEN <<>>
                       ELSE IF s[i] \in S THEN Append(h[i - 1], s[i]) ELSE h[i - 1]]
    <3>1. h = H
      OBVIOUS
    <3>2. FiltersUpTo(h, s, S, 0) <=> h = H
      BY DEF FiltersUpTo
    <3> HIDE DEF h, H
    <3> QED  BY <2>2, <3>1, <3>2
  <2>4. k - 1 \in Nat /\ k - 1 \notin B
    <3>1. k - 1 \in Nat /\ ~ (k <= k - 1)
      BY <2>2, <2>3
    <3> HIDE DEF B
    <3> QED  BY <2>1, <3>1
  <2>5. PICK g : FiltersUpTo(g, s, S, k - 1)
    BY <2>4
  <2> DEFINE last == IF s[k] \in S THEN Append(g[k - 1], s[k]) ELSE g[k - 1]
             h    == [i \in 0 .. k |-> IF i = k THEN last ELSE g[i]]
             H    == [i \in 0 .. k |-> IF i = 0 THEN <<>>
                        ELSE IF s[i] \in S THEN Append(h[i - 1], s[i]) ELSE h[i - 1]]
  <2>6. \A i \in 0 .. k - 1 :
           g[i] = IF i = 0 THEN <<>>
                  ELSE IF s[i] \in S THEN Append(g[i - 1], s[i]) ELSE g[i - 1]
    BY <2>5 DEF FiltersUpTo
  <2>7. \A i \in 0 .. k : h[i] = H[i]
    <3> SUFFICES ASSUME NEW i \in 0 .. k PROVE h[i] = H[i]
      OBVIOUS
    <3>1. H[i] = IF i = 0 THEN <<>>
                 ELSE IF s[i] \in S THEN Append(h[i - 1], s[i]) ELSE h[i - 1]
      OBVIOUS
    <3>2. i # 0 => h[i - 1] = g[i - 1]
      BY <2>2
    <3>3. h[i] = IF i = k THEN last ELSE g[i]
      OBVIOUS
    <3> HIDE DEF h, H
    <3>4. CASE i = k
      BY <2>3, <3>1, <3>2, <3>3, <3>4
    <3>5. CASE i # k
      <4>1. i \in 0 .. k - 1
        BY <2>2, <3>5
      <4> QED  BY <2>6, <3>1, <3>2, <3>3, <3>5, <4>1
    <3> QED  BY <3>4, <3>5
  <2>8. h = H
    <3>1. h = [i \in 0 .. k |-> h[i]] /\ H = [i \in 0 .. k |-> H[i]]
      OBVIOUS
    <3> HIDE DEF h, H
    <3> QED  BY <2>7, <3>1
  <2>9. FiltersUpTo(h, s, S, k) <=> h = H
    BY DEF FiltersUpTo
  <2> HIDE DEF h, H
  <2> QED  BY <2>2, <2>8, <2>9
<1> QED  BY <1>1

\* t has the members of s that are in S, once each if s has, and is no stranger to T.
Filtered(t, s, n, S, T) ==
  /\ t \in Seq(T) /\ IsInjective(t)
  /\ \A x : x \in ToSet(t) <=> x \in S /\ \E i \in 1 .. n : s[i] = x

\* The recursive function of Only, at each position.
LEMMA FilterFacts ==
  ASSUME NEW T, NEW s \in Seq(T), IsInjective(s), NEW S,
         NEW h, FiltersUpTo(h, s, S, Len(s)), NEW n \in 0 .. Len(s)
  PROVE  Filtered(h[n], s, n, S, T)
<1> DEFINE Good(k) == Filtered(h[k], s, k, S, T)
           B == {k \in 0 .. Len(s) : ~ Good(k)}
<1>1. ASSUME B # {} PROVE FALSE
  <2>1. PICK k \in B : \A m \in B : k <= m
    <3>1. B \in SUBSET Nat
      OBVIOUS
    <3> HIDE DEF B
    <3> QED  BY <1>1, <3>1, LeastNumber
  <2>2. k \in 0 .. Len(s) /\ ~ Good(k) /\ Len(s) \in Nat
    OBVIOUS
  <2>3. h[k] = IF k = 0 THEN <<>>
               ELSE IF s[k] \in S THEN Append(h[k - 1], s[k]) ELSE h[k - 1]
    BY <2>2 DEF FiltersUpTo
  <2>4. k # 0
    <3> SUFFICES ASSUME k = 0 PROVE FALSE
      OBVIOUS
    <3>1. h[k] = <<>> /\ 1 .. k = {}
      BY <2>3
    <3>2. <<>> \in Seq(T) /\ IsInjective(<<>>) /\ ToSet(<<>>) = {}
      BY DEF IsInjective, ToSet
    <3> QED  BY <2>2, <3>1, <3>2 DEF Filtered
  <2>5. Good(k - 1)
    <3>1. k - 1 \in 0 .. Len(s) /\ ~ (k <= k - 1)
      BY <2>2, <2>4
    <3>2. k - 1 \notin B
      <4> HIDE DEF B
      <4> QED  BY <2>1, <3>1
    <3> QED  BY <3>1, <3>2
  <2>6. \A i : i \in 1 .. k <=> i \in 1 .. k - 1 \/ i = k
    BY <2>2, <2>4
  <2>7. CASE s[k] \notin S
    <3>1. h[k] = h[k - 1]
      BY <2>3, <2>4, <2>7
    <3>2. \A x \in S : (\E i \in 1 .. k : s[i] = x) <=> (\E i \in 1 .. k - 1 : s[i] = x)
      BY <2>6, <2>7
    <3> QED  BY <2>2, <2>5, <3>1, <3>2 DEF Filtered
  <2>8. CASE s[k] \in S
    <3> DEFINE a == h[k - 1]
               b == <<s[k]>>
    <3>1. a \in Seq(T) /\ IsInjective(a)
      BY <2>5 DEF Filtered
    <3>2. s[k] \in T /\ b \in Seq(T) /\ IsInjective(b) /\ ToSet(b) = {s[k]}
      <4>1. s[k] \in T
        BY <2>2, <2>4
      <4> QED  BY <4>1 DEF IsInjective, ToSet
    <3>3. h[k] = a \o b
      <4>1. h[k] = Append(a, s[k])
        BY <2>3, <2>4, <2>8
      <4> HIDE DEF a
      <4> QED  BY <3>1, <3>2, <4>1
    <3>4. s[k] \notin ToSet(a)
      <4>1. \A i \in 1 .. k - 1 : s[i] # s[k]
        BY <2>2 DEF IsInjective
      <4> QED  BY <2>5, <4>1 DEF Filtered
    <3>5. \A x : x \in ToSet(a) <=> x \in S /\ \E i \in 1 .. k - 1 : s[i] = x
      BY <2>5 DEF Filtered
    <3>6. \A x : x \in ToSet(a) \cup {s[k]} <=> x \in S /\ \E i \in 1 .. k : s[i] = x
      <4> HIDE DEF a, b, B, Good
      <4> QED  BY <2>6, <2>8, <3>5
    <3> HIDE DEF a, b, B
    <3>7. a \o b \in Seq(T) /\ IsInjective(a \o b) /\ ToSet(a \o b) = ToSet(a) \cup {s[k]}
      BY <3>1, <3>2, <3>4, ConcatFacts
    <3> QED  BY <2>2, <3>3, <3>6, <3>7 DEF Filtered
  <2> QED  BY <2>7, <2>8
<1> QED  BY <1>1

\* Only(s, S) is the members of s that are in S.
LEMMA OnlyFacts ==
  ASSUME NEW T, NEW s \in Seq(T), IsInjective(s), NEW S
  PROVE  /\ Only(s, S) \in Seq(T) /\ IsInjective(Only(s, S))
         /\ ToSet(Only(s, S)) = ToSet(s) \cap S
<1> DEFINE h == CHOOSE g : FiltersUpTo(g, s, S, Len(s))
<1>1. Only(s, S) = h[Len(s)]
  BY DEF Only, FiltersUpTo
<1>2. Len(s) \in Nat /\ Len(s) \in 0 .. Len(s) /\ DOMAIN s = 1 .. Len(s)
  OBVIOUS
<1>3. FiltersUpTo(h, s, S, Len(s))
  BY <1>2, FilterExists
<1> HIDE DEF h
<1>4. \A n \in 0 .. Len(s) : Filtered(h[n], s, n, S, T)
  BY <1>3, FilterFacts
<1>5. Filtered(h[Len(s)], s, Len(s), S, T)
  BY <1>2, <1>4
<1>6. \A x : x \in ToSet(s) <=> \E i \in 1 .. Len(s) : s[i] = x
  BY <1>2 DEF ToSet
<1> QED  BY <1>1, <1>5, <1>6 DEF Filtered

\* What Only takes and what it leaves are as long as the sequence together.
LEMMA OnlySplits ==
  ASSUME NEW T, NEW s \in Seq(T), IsInjective(s), NEW S, NEW U,
         ToSet(s) \subseteq S \cup U, S \cap U = {}
  PROVE  Len(Only(s, S)) + Len(Only(s, U)) = Len(s)
<1> DEFINE a == Only(s, S)
           b == Only(s, U)
<1>1. /\ a \in Seq(T) /\ IsInjective(a) /\ ToSet(a) = ToSet(s) \cap S
      /\ b \in Seq(T) /\ IsInjective(b) /\ ToSet(b) = ToSet(s) \cap U
  BY OnlyFacts
<1> HIDE DEF a, b
<1>2. /\ IsFiniteSet(ToSet(s)) /\ Cardinality(ToSet(s)) = Len(s)
      /\ IsFiniteSet(ToSet(a)) /\ Cardinality(ToSet(a)) = Len(a)
      /\ IsFiniteSet(ToSet(b)) /\ Cardinality(ToSet(b)) = Len(b)
  BY <1>1, InjectiveLen
<1>3. ToSet(s) = ToSet(a) \cup ToSet(b) /\ ToSet(a) \cap ToSet(b) = {}
  BY <1>1
<1>4. Cardinality(ToSet(a) \cup ToSet(b)) = Cardinality(ToSet(a)) + Cardinality(ToSet(b))
  BY <1>2, <1>3, DisjointUnion
<1>5. Len(a) + Len(b) = Len(s)
  BY <1>2, <1>3, <1>4
<1> QED  BY <1>5 DEF a, b

\* The bytes of a request's bodies.
LEMMA BodyBytesType == \A l \in Logs : BodyBytes[l] \in Nat
<1> SUFFICES ASSUME NEW l \in Logs PROVE BodyBytes[l] \in Nat
  OBVIOUS
<1> DEFINE f == Sizes[l]
           D == DOMAIN f
<1>1. f \in Seq(Nat \ {0})
  BY LogWriterAssumption
<1>2. D = 1 .. Len(f) /\ Len(f) \in Nat /\ \A i \in D : f[i] \in Nat
  BY <1>1
<1>3. BodyBytes[l] = SumOf(f, D)
  BY DEF BodyBytes, FoldSeq, FoldFunction, FoldFunctionOnSet, SumOf, MapThenSumSet
<1> HIDE DEF f
<1>4. IsFiniteSet(D)
  BY <1>2, FS_Interval
<1> HIDE DEF D
<1> QED  BY <1>2, <1>3, <1>4, SumType

\* The bytes of a set of requests.
LEMMA BytesType == ASSUME NEW S \in SUBSET Logs PROVE IsFiniteSet(S) /\ BytesOf(S) \in Nat
<1>1. IsFiniteSet(S) /\ \A l \in S : BodyBytes[l] \in Nat
  BY LogWriterAssumption, FS_Subset, BodyBytesType
<1>2. SumOf(BodyBytes, S) \in Nat
  BY <1>1, SumType
<1> QED  BY <1>1, <1>2 DEF SumOf, BytesOf

\* The bytes of two sets of requests that share none.
LEMMA BytesAdd ==
  ASSUME NEW S \in SUBSET Logs, NEW U \in SUBSET Logs, S \cap U = {}
  PROVE  /\ BytesOf(S) \in Nat /\ BytesOf(U) \in Nat
         /\ BytesOf(S \cup U) = BytesOf(S) + BytesOf(U)
<1>1. IsFiniteSet(S) /\ IsFiniteSet(U) /\ BytesOf(S) \in Nat /\ BytesOf(U) \in Nat
  BY BytesType
<1>2. \A l \in S \cup U : BodyBytes[l] \in Nat
  BY BodyBytesType
<1>3. SumOf(BodyBytes, S \cup U) = SumOf(BodyBytes, S) + SumOf(BodyBytes, U)
  BY <1>1, <1>2, SumOfUnion
<1> QED  BY <1>1, <1>3 DEF SumOf, BytesOf

\* What letting go of the bodies of U leaves.
LEMMA BytesLeft ==
  ASSUME NEW S \in SUBSET Logs, NEW U \in SUBSET S
  PROVE  /\ BytesOf(S) \in Nat /\ BytesOf(U) \in Nat /\ BytesOf(S \ U) \in Nat
         /\ BytesOf(S \ U) = BytesOf(S) - BytesOf(U)
<1> DEFINE V == S \ U
<1>1. V \in SUBSET Logs /\ U \in SUBSET Logs /\ V \cap U = {} /\ V \cup U = S
  OBVIOUS
<1> HIDE DEF V
<1>2. BytesOf(V \cup U) = BytesOf(V) + BytesOf(U) /\ BytesOf(V) \in Nat /\ BytesOf(U) \in Nat
  BY <1>1, BytesAdd
<1>3. BytesOf(S) = BytesOf(V) + BytesOf(U)
  BY <1>1, <1>2
<1>4. BytesOf(S) \in Nat /\ BytesOf(V) = BytesOf(S) - BytesOf(U)
  BY <1>2, <1>3
<1> QED  BY <1>2, <1>4 DEF V

-----------------------------------------------------------------------------
(* Bodies and their counts. *)

\* The bodies of the requests in S that are o's.
Owned(S, o) == {b \in UNION {BodiesOf(l) : l \in S} : OwnerOf[b[1]] = o}

\* A body is one of a request.
LEMMA BodyOf ==
  ASSUME NEW b
  PROVE  b \in Bodies <=> \E l \in Logs : \E i \in DOMAIN Sizes[l] : b = <<l, i>>
BY DEF Bodies, BodiesOf

\* Finitely many requests have finitely many bodies.
LEMMA BodiesFinite == IsFiniteSet(Bodies)
<1>1. \A l \in Logs : IsFiniteSet(BodiesOf(l))
  <2> SUFFICES ASSUME NEW l \in Logs PROVE IsFiniteSet(BodiesOf(l))
    OBVIOUS
  <2> DEFINE D == DOMAIN Sizes[l]
             f == [i \in D |-> <<l, i>>]
  <2>1. IsFiniteSet(D)
    <3>1. D = 1 .. Len(Sizes[l]) /\ Len(Sizes[l]) \in Nat
      BY LogWriterAssumption
    <3> HIDE DEF D
    <3> QED  BY <3>1, FS_Interval
  <2>2. f \in Surjection(D, BodiesOf(l))
    BY DEF Surjection, BodiesOf
  <2> HIDE DEF D, f
  <2> QED  BY <2>1, <2>2, FS_Surjection
<1> DEFINE R  == {BodiesOf(l) : l \in Logs}
           g  == [l \in Logs |-> BodiesOf(l)]
<1>2. g \in Surjection(Logs, R)
  BY DEF Surjection
<1>3. \A U \in R : IsFiniteSet(U)
  BY <1>1
<1>4. Bodies = UNION R
  BY DEF Bodies
<1> HIDE DEF R, g
<1>5. IsFiniteSet(R)
  BY <1>2, LogWriterAssumption, FS_Surjection
<1> QED  BY <1>3, <1>4, <1>5, FS_UNION

\* The count of bodies counts a finite set.
LEMMA OwnedFacts ==
  ASSUME NEW S \in SUBSET Logs, NEW o
  PROVE  /\ Owned(S, o) \subseteq Bodies /\ IsFiniteSet(Owned(S, o))
         /\ CountOf(S, o) = Cardinality(Owned(S, o)) /\ CountOf(S, o) \in Nat
         /\ \A b : b \in Owned(S, o) <=> b \in Bodies /\ b[1] \in S /\ OwnerOf[b[1]] = o
<1>1. \A b : b \in Owned(S, o) <=> b \in Bodies /\ b[1] \in S /\ OwnerOf[b[1]] = o
  BY DEF Owned, Bodies, BodiesOf
<1>2. Owned(S, o) \subseteq Bodies
  BY <1>1
<1>3. IsFiniteSet(Owned(S, o))
  BY <1>2, BodiesFinite, FS_Subset
<1>4. CountOf(S, o) = Cardinality(Owned(S, o))
  BY DEF CountOf, Owned
<1> QED  BY <1>1, <1>2, <1>3, <1>4, FS_CardinalityType

\* Two sets of requests that share none.
Apart(S, U) == S \in SUBSET Logs /\ U \in SUBSET Logs /\ S \cap U = {}

\* The bodies of two sets of requests that share none.
LEMMA CountAdd ==
  ASSUME NEW S, NEW U, Apart(S, U), NEW o
  PROVE  /\ CountOf(S, o) \in Nat /\ CountOf(U, o) \in Nat
         /\ CountOf(S \cup U, o) = CountOf(S, o) + CountOf(U, o)
<1> DEFINE A == Owned(S, o)
           B == Owned(U, o)
           C == Owned(S \cup U, o)
<1>0. S \in SUBSET Logs /\ U \in SUBSET Logs /\ S \cap U = {}
  BY DEF Apart
<1>1. /\ IsFiniteSet(A) /\ CountOf(S, o) = Cardinality(A)
      /\ \A b : b \in A <=> b \in Bodies /\ b[1] \in S /\ OwnerOf[b[1]] = o
  BY <1>0, OwnedFacts
<1>2. /\ IsFiniteSet(B) /\ CountOf(U, o) = Cardinality(B)
      /\ \A b : b \in B <=> b \in Bodies /\ b[1] \in U /\ OwnerOf[b[1]] = o
  BY <1>0, OwnedFacts
<1>3. /\ CountOf(S \cup U, o) = Cardinality(C)
      /\ \A b : b \in C <=> b \in Bodies /\ b[1] \in S \cup U /\ OwnerOf[b[1]] = o
  <2> DEFINE V == S \cup U
  <2>1. V \in SUBSET Logs
    BY <1>0
  <2> HIDE DEF V
  <2>2. /\ CountOf(V, o) = Cardinality(Owned(V, o))
        /\ \A b : b \in Owned(V, o) <=> b \in Bodies /\ b[1] \in V /\ OwnerOf[b[1]] = o
    BY <2>1, OwnedFacts
  <2> QED  BY <2>2 DEF V
<1> HIDE DEF A, B, C
<1>4. C = A \cup B /\ A \cap B = {}
  BY <1>0, <1>1, <1>2, <1>3
<1>5. /\ Cardinality(A) \in Nat /\ Cardinality(B) \in Nat
      /\ Cardinality(A \cup B) = Cardinality(A) + Cardinality(B)
  BY <1>1, <1>2, <1>4, DisjointUnion
<1> QED  BY <1>1, <1>2, <1>3, <1>4, <1>5

\* The bodies that are left when those of U go.
LEMMA CountLeft ==
  ASSUME NEW S \in SUBSET Logs, NEW U \in SUBSET S, NEW o
  PROVE  /\ CountOf(S, o) \in Nat /\ CountOf(U, o) \in Nat /\ CountOf(S \ U, o) \in Nat
         /\ CountOf(S \ U, o) = CountOf(S, o) - CountOf(U, o)
<1> DEFINE V == S \ U
<1>1. Apart(V, U) /\ V \cup U = S
  BY DEF Apart
<1> HIDE DEF V
<1>2. /\ CountOf(V \cup U, o) = CountOf(V, o) + CountOf(U, o)
      /\ CountOf(V, o) \in Nat /\ CountOf(U, o) \in Nat
  BY <1>1, CountAdd
<1>3. CountOf(S, o) = CountOf(V, o) + CountOf(U, o)
  BY <1>1, <1>2
<1>4. CountOf(S, o) \in Nat /\ CountOf(V, o) = CountOf(S, o) - CountOf(U, o)
  BY <1>2, <1>3
<1> QED  BY <1>2, <1>4 DEF V

\* Nothing has no bytes and no bodies.
LEMMA NothingCounts == BytesOf({}) = 0 /\ \A o : CountOf({}, o) = 0
<1>1. SumOf(BodyBytes, {}) = 0
  BY SumOfNothing
<1>2. BytesOf({}) = 0
  BY <1>1 DEF SumOf, BytesOf
<1>3. ASSUME NEW o PROVE CountOf({}, o) = 0
  <2>1. /\ CountOf({}, o) = Cardinality(Owned({}, o))
        /\ \A b : b \in Owned({}, o) <=> b \in Bodies /\ b[1] \in {} /\ OwnerOf[b[1]] = o
    BY OwnedFacts
  <2>2. Owned({}, o) = {}
    BY <2>1
  <2> QED  BY <2>1, <2>2, FS_EmptySet
<1> QED  BY <1>2, <1>3

-----------------------------------------------------------------------------
(* The invariants. *)

Steps == {"idle", "logs", "bodies", "attempts", "counts", "last"}

FlushType ==
  [step : Steps, todo : Seq(Logs), later : Seq(Logs), written : SUBSET Logs, tries : Nat,
   refs : Seq(Bodies), owners : SUBSET Owners]

Typed ==
  /\ phase \in [Logs -> {"new", "open", "recorded"}] /\ born \in [Logs -> Int]
  /\ queue \in Seq(Logs) /\ attempts \in Seq(Logs) /\ flush \in FlushType
  /\ carried \subseteq Logs
  /\ drops \in [Owners -> Int] /\ shown \in [Owners -> Int] /\ forfeited \in [Owners -> Int]
  /\ epoch \in [Owners -> Int] /\ dropped \in Int /\ costs \in [Rows -> Nat]
  /\ table \subseteq Rows /\ stored \subseteq Bodies /\ saved \subseteq Bodies

\* What the calls that may still land carry.
LateTyped ==
  \A call \in late :
    /\ call[2] = "rows" => call[3] \subseteq Rows
    /\ call[2] = "bodies" => call[3] \subseteq Bodies
    /\ call[2] = "count" => call[3] \subseteq Owners \X Int

\* The log rows of the running flush are still to be written.
WritingLogs == flush.step \in {"logs", "bodies"}

\* Every draft is in one place at a time, and was recorded.
Placed ==
  /\ IsInjective(queue) /\ IsInjective(attempts)
  /\ IsInjective(flush.todo) /\ IsInjective(flush.later) /\ IsInjective(flush.refs)
  /\ ToSet(queue) \subseteq Recorded /\ ToSet(flush.todo) \subseteq Recorded
  /\ ToSet(attempts) \subseteq Recorded \cap Cascaded
  /\ ToSet(flush.later) \subseteq Recorded \cap Cascaded
  /\ flush.step = "attempts" => ToSet(flush.todo) \subseteq Cascaded
  /\ flush.step \in {"idle", "counts", "last"} => flush.todo = <<>>
  /\ ~ WritingLogs => flush.later = <<>>
  /\ flush.step # "bodies" => flush.refs = <<>>
  /\ WritingLogs => ToSet(queue) \cap ToSet(flush.todo) = {}
  /\ ToSet(attempts) \cap ToSet(flush.later) = {}
  /\ ToSet(attempts) \cap ToSet(flush.todo) = {}

\* A row's cost is emitted when it is written, and a row that waits has none.
Costed ==
  /\ \A r \in Rows : costs[r] \in {0, 1} /\ (costs[r] = 1 => r \in table)
  /\ \A l \in WaitingLogs : costs[Log(l)] = 0
  /\ \A l \in WaitingAttempts : costs[Attempt(l)] = 0

\* Only recorded requests have rows, in the database or on their way to it.
RowsRecorded ==
  /\ \A r \in table : r[1] \in Recorded
  /\ \A call \in late : call[2] = "rows" => \A r \in call[3] : r[1] \in Recorded
  /\ \A l \in flush.written : Log(l) \in table

RowInv ==
  Typed /\ LateTyped /\ Placed /\ Costed /\ RowsRecorded /\ AttemptsFollowTheirLog

\* The rows that wait, that were written and that were dropped are those recorded.
Done == {r \in Rows : costs[r] = 1}

LogsTodo == IF WritingLogs THEN Len(flush.todo) ELSE 0
AttemptsTodo == IF flush.step = "attempts" THEN Len(flush.todo) ELSE 0

LogsWaiting == Len(queue) + LogsTodo
AttemptsWaiting == Len(attempts) + Len(flush.later) + AttemptsTodo

Balance ==
  Cardinality(Recorded) + Cardinality(Recorded \cap Cascaded) =
    LogsWaiting + AttemptsWaiting + Cardinality(Done) + dropped

\* Only recorded requests have bodies in the database, of the current epoch.
StoredInv ==
  \A b \in stored :
    b[1] \in Recorded /\ born[b[1]] = epoch[OwnerOf[b[1]]] /\ b[1] \notin tombs

\* The bodies on their way are those of one owner, still held and not yet saved,
\* and their drafts wait no more.
InFlight ==
  /\ \A b \in ToSet(flush.refs) :
       /\ b[1] \in carried \ WaitingLogs /\ b \notin saved
       /\ OwnerOf[b[1]] = OwnerOf[flush.refs[1][1]]
  /\ \A b \in saved : b[1] \in Recorded \ WaitingLogs

\* The bodies of o that wait with their drafts, are on their way, were saved, and
\* were dropped, whatever became of their count.
Waiting(o) == CountOf(WaitingLogs \cap carried, o)
OfOwner(S, o) == {b \in S : OwnerOf[b[1]] = o}
Riding(o) == Cardinality(OfOwner(ToSet(flush.refs), o))
Saved(o) == Cardinality(OfOwner(saved, o))
Tally(o) == drops[o] + shown[o] + forfeited[o]

Ledger ==
  \A o \in Owners : CountOf(Recorded, o) = Waiting(o) + Riding(o) + Saved(o) + Tally(o)

Carried == carried \subseteq Recorded /\ bytes = BytesOf(carried) /\ bytes <= QueueBudget

BodyInv == Carried /\ InFlight /\ Ledger

-----------------------------------------------------------------------------
(* Groups, chunks and evictions. *)

\* The drafts t of one owner and the others, o, are those of s.
Parts(g, o, s) ==
  /\ g \in Seq(Logs) /\ IsInjective(g) /\ o \in Seq(Logs) /\ IsInjective(o)
  /\ ToSet(s) = ToSet(g) \cup ToSet(o) /\ ToSet(g) \cap ToSet(o) = {}
  /\ Len(g) + Len(o) = Len(s)
  /\ \A l \in ToSet(g) : OwnerOf[l] = OwnerOf[Head(s)]

\* The first owner's drafts and the others part the drafts.
LEMMA GroupFacts ==
  ASSUME NEW s \in Seq(Logs), IsInjective(s), s # <<>>
  PROVE  Parts(Group(s), Others(s), s)
<1> DEFINE own == DraftsOf(OwnerOf[Head(s)])
<1>1. own \subseteq Logs /\ \A l \in own : OwnerOf[l] = OwnerOf[Head(s)]
  BY DEF DraftsOf
<1>2. ToSet(s) \subseteq Logs
  <2>1. \A i \in DOMAIN s : s[i] \in Logs
    OBVIOUS
  <2> QED  BY <2>1 DEF ToSet
<1> HIDE DEF own
<1> DEFINE g == Only(s, own)
           o == Only(s, Logs \ own)
<1>3. /\ g \in Seq(Logs) /\ IsInjective(g) /\ ToSet(g) = ToSet(s) \cap own
      /\ o \in Seq(Logs) /\ IsInjective(o) /\ ToSet(o) = ToSet(s) \cap (Logs \ own)
  BY OnlyFacts
<1>4. Len(g) + Len(o) = Len(s)
  BY <1>2, OnlySplits
<1>5. Group(s) = g /\ Others(s) = o
  BY DEF Group, Others, own
<1> HIDE DEF g, o
<1> QED  BY <1>1, <1>2, <1>3, <1>4, <1>5 DEF Parts

\* The references of a group are the bodies its drafts carry, each once.
LEMMA RefsFacts ==
  ASSUME NEW g \in Seq(Logs), IsInjective(g)
  PROVE  /\ RefsOf(g) \in Seq(Bodies) /\ IsInjective(RefsOf(g))
         /\ \A b : b \in ToSet(RefsOf(g)) <=> b \in Bodies /\ b[1] \in ToSet(g) \cap carried
<1> DEFINE bs(l) == [i \in DOMAIN Sizes[l] |-> <<l, i>>]
           ss    == [n \in DOMAIN g |-> IF g[n] \in carried THEN bs(g[n]) ELSE <<>>]
<1>1. /\ Len(g) \in Nat /\ DOMAIN g = 1 .. Len(g) /\ \A n \in DOMAIN g : g[n] \in Logs
      /\ \A n, m \in DOMAIN g : g[n] = g[m] => n = m
  BY DEF IsInjective
<1>2. ASSUME NEW l \in Logs
      PROVE  bs(l) \in Seq(Bodies) /\ IsInjective(bs(l)) /\ ToSet(bs(l)) = BodiesOf(l)
  <2>1. DOMAIN Sizes[l] = 1 .. Len(Sizes[l]) /\ Len(Sizes[l]) \in Nat
    BY LogWriterAssumption
  <2>2. \A i \in DOMAIN Sizes[l] : <<l, i>> \in Bodies
    BY DEF Bodies, BodiesOf
  <2>3. bs(l) \in Seq(Bodies)
    BY <2>1, <2>2
  <2>4. IsInjective(bs(l)) /\ ToSet(bs(l)) = BodiesOf(l)
    BY DEF IsInjective, ToSet, BodiesOf
  <2> QED  BY <2>3, <2>4
<1>3. <<>> \in Seq(Bodies) /\ IsInjective(<<>>) /\ ToSet(<<>>) = {}
  BY DEF IsInjective, ToSet
<1> HIDE DEF bs
<1>4. \A n \in DOMAIN g :
         /\ ss[n] \in Seq(Bodies) /\ IsInjective(ss[n])
         /\ ToSet(ss[n]) = IF g[n] \in carried THEN BodiesOf(g[n]) ELSE {}
  BY <1>1, <1>2, <1>3
<1>5. ss \in Seq(Seq(Bodies)) /\ Len(ss) = Len(g)
  BY <1>1, <1>4
<1>6. RefsOf(g) = FlattenSeq(ss)
  BY DEF RefsOf, bs
<1> HIDE DEF ss
<1>7. Separate(ss)
  <2>1. \A n, m \in 1 .. Len(ss) : n # m => ToSet(ss[n]) \cap ToSet(ss[m]) = {}
    <3> SUFFICES ASSUME NEW n \in 1 .. Len(ss), NEW m \in 1 .. Len(ss), NEW b,
                        b \in ToSet(ss[n]), b \in ToSet(ss[m])
                 PROVE  n = m
      OBVIOUS
    <3>1. b \in BodiesOf(g[n]) /\ b \in BodiesOf(g[m]) /\ n \in DOMAIN g /\ m \in DOMAIN g
      BY <1>1, <1>4, <1>5
    <3>2. b[1] = g[n] /\ b[1] = g[m]
      BY <3>1 DEF BodiesOf
    <3> QED  BY <1>1, <3>1, <3>2
  <2> QED  BY <1>1, <1>4, <1>5, <2>1 DEF Separate
<1>8. Joined(RefsOf(g), ss, Len(ss), Bodies)
  BY <1>5, <1>6, <1>7, FlattenFacts
<1>9. ASSUME NEW b
      PROVE  b \in ToSet(RefsOf(g)) <=> b \in Bodies /\ b[1] \in ToSet(g) \cap carried
  <2>1. b \in ToSet(RefsOf(g)) <=> \E n \in DOMAIN g : b \in ToSet(ss[n])
    BY <1>1, <1>5, <1>8 DEF Joined
  <2>2. \A n \in DOMAIN g : b \in ToSet(ss[n]) <=> g[n] \in carried /\ b \in BodiesOf(g[n])
    BY <1>4
  <2>3. \A l \in Logs : b \in BodiesOf(l) <=> b \in Bodies /\ b[1] = l
    BY DEF Bodies, BodiesOf
  <2>4. b[1] \in ToSet(g) <=> \E n \in DOMAIN g : g[n] = b[1]
    BY DEF ToSet
  <2> QED  BY <1>1, <2>1, <2>2, <2>3, <2>4
<1> QED  BY <1>8, <1>9 DEF Joined

\* A chunk is some first bodies of those that are left, at least one.
LEMMA ChunkFacts ==
  ASSUME NEW s \in Seq(Bodies), IsInjective(s), s # <<>>
  PROVE  /\ Cut(Chunk(s), SubSeq(s, Len(Chunk(s)) + 1, Len(s)), s, Len(Chunk(s)), Bodies)
         /\ Chunk(s)[1] = s[1] /\ s[1] \in ToSet(s) /\ Len(Chunk(s)) \in Nat
<1> DEFINE fits == {k \in 1 .. Len(s) : ToBytes(SubSeq(s, 1, k)) <= BatchBudget}
           B    == fits \cup {1}
           n    == Max(B)
<1>1. Len(s) \in Nat /\ 1 \in 1 .. Len(s) /\ DOMAIN s = 1 .. Len(s)
  OBVIOUS
<1>2. B \in SUBSET (0 .. Len(s)) /\ B # {} /\ 1 \in B /\ \A k \in B : k \in 1 .. Len(s)
  BY <1>1
<1>3. Chunk(s) = SubSeq(s, 1, n)
  BY DEF Chunk
<1> HIDE DEF B
<1>4. n \in B
  BY <1>1, <1>2, GreatestNumber
<1>5. n \in 1 .. Len(s) /\ n \in 0 .. Len(s)
  BY <1>2, <1>4
<1> HIDE DEF n
<1>6. Cut(SubSeq(s, 1, n), SubSeq(s, n + 1, Len(s)), s, n, Bodies)
  BY <1>5, CutFacts
<1>7. Len(SubSeq(s, 1, n)) = n
  BY <1>6 DEF Cut
<1>8. SubSeq(s, 1, n)[1] = s[1]
  BY <1>5
<1>9. s[1] \in ToSet(s)
  BY <1>1 DEF ToSet
<1> QED  BY <1>3, <1>5, <1>6, <1>7, <1>8, <1>9

\* Only queued drafts give their bodies up.
LEMMA EvictableFacts ==
  ASSUME NEW q \in Seq(Logs), NEW held, NEW incoming
  PROVE  Evictable(q, held, incoming) \subseteq ToSet(q)
<1> DEFINE after(k) == held - BytesOf({q[i] : i \in 1 .. k} \cap carried) + incoming
           enough   == {k \in 0 .. Len(q) : after(k) <= QueueBudget}
           n        == IF enough = {} THEN Len(q) ELSE Min(enough)
<1>1. Len(q) \in Nat /\ DOMAIN q = 1 .. Len(q)
  OBVIOUS
<1>2. Evictable(q, held, incoming) = {q[i] : i \in 1 .. n}
  BY DEF Evictable
<1>3. enough \subseteq 0 .. Len(q)
  OBVIOUS
<1> HIDE DEF enough
<1>4. n \in 0 .. Len(q)
  <2>1. CASE enough = {}
    BY <1>1, <2>1
  <2>2. CASE enough # {}
    <3>1. enough \in SUBSET Nat
      BY <1>1, <1>3
    <3>2. Min(enough) \in enough
      BY <2>2, <3>1, LeastOf
    <3> QED  BY <1>3, <2>2, <3>2
  <2> QED  BY <2>1, <2>2
<1> HIDE DEF n
<1>5. \A i \in 1 .. n : i \in DOMAIN q
  BY <1>1, <1>4
<1> QED  BY <1>2, <1>5 DEF ToSet

-----------------------------------------------------------------------------
(* Types. *)

\* The parts of a running flush.
LEMMA FlushFields ==
  ASSUME flush \in FlushType
  PROVE  /\ flush.step \in Steps /\ flush.todo \in Seq(Logs) /\ flush.later \in Seq(Logs)
         /\ flush.written \subseteq Logs /\ flush.tries \in Nat /\ flush.refs \in Seq(Bodies)
         /\ flush.owners \subseteq Owners
BY DEF FlushType

\* No flush is running.
LEMMA IdleType ==
  /\ Idle \in FlushType /\ Idle.step = "idle" /\ Idle.todo = <<>> /\ Idle.later = <<>>
  /\ Idle.written = {} /\ Idle.refs = <<>> /\ Idle.tries = 0
BY DEF Idle, FlushType, Steps

\* The counts of dropped bodies are whole numbers.
LEMMA StrippedType ==
  ASSUME drops \in [Owners -> Int], carried \subseteq Logs, NEW S
  PROVE  Stripped(S) \in [Owners -> Int]
<1>1. S \cap carried \in SUBSET Logs
  OBVIOUS
<1>2. \A o \in Owners : CountOf(S \cap carried, o) \in Nat
  BY <1>1, OwnedFacts
<1>3. \A o \in Owners : drops[o] + CountOf(S \cap carried, o) \in Int
  BY <1>2
<1> HIDE DEF Stripped
<1> QED  BY <1>3 DEF Stripped

\* At the start the variables have their types.
LEMMA TypedInit == Init => Typed /\ LateTyped
<1> SUFFICES ASSUME Init PROVE Typed /\ LateTyped
  OBVIOUS
<1> USE DEF Init
<1>1. phase \in [Logs -> {"new", "open", "recorded"}] /\ born \in [Logs -> Int]
  OBVIOUS
<1>2. /\ queue \in Seq(Logs) /\ attempts \in Seq(Logs)
      /\ flush \in FlushType /\ carried \subseteq Logs
  BY IdleType
<1>3. /\ drops \in [Owners -> Int] /\ shown \in [Owners -> Int]
      /\ forfeited \in [Owners -> Int] /\ epoch \in [Owners -> Int] /\ dropped \in Int
  OBVIOUS
<1>4. costs \in [Rows -> Nat]
  OBVIOUS
<1>5. /\ table \subseteq Rows /\ stored \subseteq Bodies /\ saved \subseteq Bodies
      /\ late = {}
  OBVIOUS
<1> QED  BY <1>1, <1>2, <1>3, <1>4, <1>5 DEF Typed, LateTyped

\* The steps that are not the recorder's enqueue and not the flush's.
Outside ==
  \/ \E l \in Logs : Capture(l) \/ DeleteForRequest(l)
  \/ \E o \in Owners : PurgeAll(o)
  \/ Shutdown

Counts == (\E o \in Owners : AddCount(o) \/ CountFails(o)) \/ EndCounts \/ Drained \/ Exit

\* The owner's steps, captures and the shutdown keep the types.
LEMMA TypedOutside ==
  ASSUME Typed, LateTyped, Outside \/ UNCHANGED vars
  PROVE  Typed' /\ LateTyped'
<1> USE DEF memory, tallies, database
<1>1. ASSUME NEW l \in Logs, Capture(l) PROVE Typed' /\ LateTyped'
  <2>1. OwnerOf[l] \in Owners /\ epoch[OwnerOf[l]] \in Int
    BY LogWriterAssumption DEF Typed
  <2> QED  BY <1>1, <2>1 DEF Capture, Typed, LateTyped
<1>2. ASSUME NEW l \in Logs, DeleteForRequest(l) PROVE Typed' /\ LateTyped'
  BY <1>2 DEF DeleteForRequest, Typed, LateTyped
<1>3. ASSUME NEW o \in Owners, PurgeAll(o) PROVE Typed' /\ LateTyped'
  BY <1>3 DEF PurgeAll, Typed, LateTyped
<1>4. CASE Shutdown
  BY <1>4 DEF Shutdown, Typed, LateTyped
<1>5. CASE UNCHANGED vars
  BY <1>5 DEF vars, Typed, LateTyped
<1> QED  BY <1>1, <1>2, <1>3, <1>4, <1>5 DEF Outside

\* Recording a request keeps the types.
LEMMA TypedRecord ==
  ASSUME Typed, LateTyped, Placed, NEW l \in Logs, Record(l)
  PROVE  Typed' /\ LateTyped'
<1> DEFINE full     == Len(queue) >= MaxQueue
           q        == IF full THEN Tail(queue) ELSE queue
           evicted  == IF full THEN {Head(queue)} ELSE {}
           incoming == BytesOf({l})
           held     == bytes - BytesOf(evicted \cap carried)
           gone     == IF incoming > QueueBudget \/ Sizes[l] = <<>> THEN {}
                       ELSE Evictable(q, held, incoming)
           left     == held - BytesOf(gone \cap carried)
           admitted == Sizes[l] # <<>> /\ Admitted(left, incoming)
           over     == l \in Cascaded /\ Len(attempts) >= MaxQueue
           kept     == IF over THEN Tail(attempts) ELSE attempts
           G        == evicted \cup gone
<1>1. /\ phase' = [phase EXCEPT ![l] = "recorded"]
      /\ queue' = Append(q, l)
      /\ attempts' = IF l \notin Cascaded THEN attempts ELSE Append(kept, l)
      /\ carried' = (carried \ G) \cup (IF admitted THEN {l} ELSE {})
      /\ drops' = [o \in Owners |-> Stripped(G)[o] + (IF admitted THEN 0 ELSE CountOf({l}, o))]
      /\ dropped' = dropped + Cardinality(evicted) + (IF over THEN 1 ELSE 0)
      /\ UNCHANGED <<born, costs, saved, forfeited, table, stored, shown, epoch, tombs, flush,
                     late>>
  BY DEF Record, database
<1> HIDE DEF admitted, gone
<1>2. /\ queue \in Seq(Logs) /\ attempts \in Seq(Logs) /\ drops \in [Owners -> Int]
      /\ carried \subseteq Logs /\ dropped \in Int
      /\ IsInjective(queue) /\ IsInjective(attempts)
  BY DEF Typed, Placed
<1>3. q \in Seq(Logs) /\ kept \in Seq(Logs)
  <2>1. MaxQueue \in Nat \ {0}
    BY LogWriterAssumption
  <2>2. full => queue # <<>>
    BY <2>1
  <2>3. over => attempts # <<>>
    BY <2>1
  <2>4. full => Tail(queue) \in Seq(Logs)
    BY <1>2, <2>2, TailFacts
  <2>5. over => Tail(attempts) \in Seq(Logs)
    BY <1>2, <2>3, TailFacts
  <2> QED  BY <1>2, <2>4, <2>5
<1>4. Cardinality(evicted) \in Nat
  BY FS_EmptySet, FS_Singleton, FS_CardinalityType
<1> HIDE DEF q, kept, over, evicted
<1>5. queue' \in Seq(Logs) /\ attempts' \in Seq(Logs)
  BY <1>1, <1>2, <1>3
<1>6. dropped' \in Int
  BY <1>1, <1>2, <1>4
<1> HIDE DEF G
<1>7. Stripped(G) \in [Owners -> Int]
  BY <1>2, StrippedType
<1>8. \A o \in Owners : CountOf({l}, o) \in Nat
  BY OwnedFacts
<1>9. drops' \in [Owners -> Int]
  <2>1. \A o \in Owners : Stripped(G)[o] + (IF admitted THEN 0 ELSE CountOf({l}, o)) \in Int
    BY <1>7, <1>8
  <2>2. drops' = [o \in Owners |-> Stripped(G)[o] + (IF admitted THEN 0 ELSE CountOf({l}, o))]
    BY <1>1
  <2> QED  BY <2>1, <2>2
<1>10. carried' \subseteq Logs /\ phase' \in [Logs -> {"new", "open", "recorded"}]
  BY <1>1, <1>2 DEF Typed
<1> QED  BY <1>1, <1>5, <1>6, <1>9, <1>10 DEF Typed, LateTyped

\* The rows of a group.
LEMMA RowsOfType ==
  ASSUME NEW g \in Seq(Logs), flush.step = "logs" \/ ToSet(g) \subseteq Cascaded
  PROVE  RowsOf(g) \subseteq Rows
<1>1. ToSet(g) \subseteq Logs
  <2>1. \A i \in DOMAIN g : g[i] \in Logs
    OBVIOUS
  <2> QED  BY <2>1 DEF ToSet
<1> QED  BY <1>1 DEF RowsOf, Rows

\* Every group of a flush can be written.
LEMMA GroupRows ==
  ASSUME Typed, Placed, Writing
  PROVE  /\ Parts(Group(flush.todo), Others(flush.todo), flush.todo)
         /\ RowsOf(Group(flush.todo)) \subseteq Rows
<1>1. /\ flush.todo \in Seq(Logs) /\ IsInjective(flush.todo) /\ flush.todo # <<>>
      /\ flush.step \in {"logs", "attempts"}
      /\ flush.step = "attempts" => ToSet(flush.todo) \subseteq Cascaded
  BY FlushFields DEF Typed, Placed, Writing
<1>2. Parts(Group(flush.todo), Others(flush.todo), flush.todo)
  BY <1>1, GroupFacts
<1> DEFINE g == Group(flush.todo)
<1>3. g \in Seq(Logs) /\ ToSet(g) \subseteq ToSet(flush.todo)
  BY <1>2 DEF Parts
<1> HIDE DEF g
<1>4. RowsOf(g) \subseteq Rows
  BY <1>1, <1>3, RowsOfType
<1> QED  BY <1>2, <1>4 DEF g

\* The steps of a flush that are about rows keep the types.
LEMMA TypedFlush ==
  ASSUME Typed, LateTyped, Placed, Flush \/ Write \/ WriteFails \/ EndLogs \/ EndAttempts
  PROVE  Typed' /\ LateTyped'
<1> USE DEF memory, tallies, database
<1> DEFINE g == Group(flush.todo)
           o == Others(flush.todo)
<1>0. /\ flush \in FlushType /\ flush.step \in Steps
      /\ flush.todo \in Seq(Logs) /\ flush.later \in Seq(Logs)
      /\ flush.written \subseteq Logs /\ flush.tries \in Nat /\ flush.refs \in Seq(Bodies)
      /\ flush.owners \subseteq Owners
  BY FlushFields DEF Typed
<1>1. Writing => /\ g \in Seq(Logs) /\ IsInjective(g) /\ ToSet(g) \subseteq ToSet(flush.todo)
                 /\ o \in Seq(Logs) /\ RowsOf(g) \subseteq Rows
  BY GroupRows DEF Parts
<1> HIDE DEF g, o
<1>2. CASE Flush
  <2>1. Taken \in FlushType /\ Taken.later = attempts
    BY IdleType DEF Taken, Typed, FlushType, Steps
  <2>2. SubSeq(attempts, Len(attempts) + 1, Len(attempts)) = <<>> /\ <<>> \in Seq(Logs)
    BY DEF Typed
  <2>3. flush' = Taken /\ queue' = <<>>
        /\ attempts' = SubSeq(attempts, Len(flush'.later) + 1, Len(attempts))
    BY <1>2 DEF Flush
  <2>4. flush' \in FlushType /\ queue' = <<>> /\ attempts' = <<>>
    BY <2>1, <2>2, <2>3
  <2>5. queue' \in Seq(Logs) /\ attempts' \in Seq(Logs)
    BY <2>2, <2>4
  <2> QED  BY <1>2, <2>4, <2>5 DEF Flush, Typed, LateTyped
<1>3. CASE Write
  <2>1. /\ Writing /\ table' = table \cup RowsOf(g) /\ costs' = Emitted(RowsOf(g))
        /\ flush' = [flush EXCEPT !.todo = o, !.tries = 0,
                       !.step = IF @ = "logs" THEN "bodies" ELSE @,
                       !.refs = IF flush.step = "logs" THEN RefsOf(g) ELSE <<>>,
                       !.written = IF flush.step = "logs" THEN @ \cup ToSet(g) ELSE @]
    BY <1>3 DEF Write, g, o
  <2>2. RefsOf(g) \in Seq(Bodies) /\ <<>> \in Seq(Bodies)
    BY <1>1, <2>1, RefsFacts
  <2>3. ToSet(g) \subseteq Logs
    <3>1. \A i \in DOMAIN g : g[i] \in Logs
      BY <1>1, <2>1
    <3> QED  BY <3>1 DEF ToSet
  <2>4. flush' \in FlushType
    BY <1>0, <1>1, <2>1, <2>2, <2>3 DEF FlushType, Steps
  <2>5. table' \subseteq Rows
    BY <1>1, <2>1 DEF Typed
  <2>6. costs' \in [Rows -> Nat]
    BY <2>1 DEF Emitted, Typed
  <2> QED  BY <1>3, <2>4, <2>5, <2>6 DEF Write, Typed, LateTyped
<1>4. CASE WriteFails
  <2>1. /\ Writing /\ RetryOrGiveUp(g)
        /\ late' = late \/ late' = late \cup {<<faults, "rows", RowsOf(g)>>}
    BY <1>4 DEF WriteFails, Landing, g
  <2>2. LateTyped'
    BY <1>1, <2>1 DEF LateTyped
  <2>3. /\ flush' \in FlushType /\ carried' \subseteq Logs /\ drops' \in [Owners -> Int]
        /\ dropped' \in Int
    <3>1. CASE flush.tries < MaxRetries
      <4>1. flush' = [flush EXCEPT !.tries = @ + 1] /\ UNCHANGED <<carried, drops, dropped>>
        BY <2>1, <3>1 DEF RetryOrGiveUp
      <4>2. flush' \in FlushType
        <5>1. PICK n \in Nat : n = flush.tries + 1
          BY <1>0
        <5>2. flush' = [flush EXCEPT !.tries = n]
          BY <4>1, <5>1
        <5> QED  BY <1>0, <5>2 DEF FlushType
      <4> QED  BY <4>1, <4>2 DEF Typed
    <3>2. CASE ~ (flush.tries < MaxRetries)
      <4> DEFINE gone == IF flush.step = "logs" THEN ToSet(g) \cap carried ELSE {}
      <4>1. /\ flush' = [flush EXCEPT !.todo = o, !.tries = 0]
            /\ carried' = carried \ gone /\ drops' = Stripped(gone)
            /\ dropped' = dropped + Len(g)
        BY <2>1, <3>2 DEF RetryOrGiveUp, o
      <4> HIDE DEF gone
      <4>2. flush' \in FlushType
        BY <1>0, <1>1, <2>1, <4>1 DEF FlushType
      <4>3. drops' \in [Owners -> Int]
        BY <4>1, StrippedType DEF Typed
      <4>4. Len(g) \in Nat
        BY <1>1, <2>1
      <4> QED  BY <4>1, <4>2, <4>3, <4>4 DEF Typed
    <3> QED  BY <3>1, <3>2
  <2> QED  BY <1>4, <2>2, <2>3 DEF WriteFails, Typed
<1>5. CASE EndLogs
  <2> DEFINE kept == WithParent(flush.later)
  <2>1. /\ flush' = [flush EXCEPT !.step = "attempts", !.todo = kept, !.later = <<>>,
                                !.written = {}]
        /\ dropped' = dropped + (Len(flush.later) - Len(kept))
    BY <1>5 DEF EndLogs
  <2>2. kept \in Seq(Logs)
    BY <1>0, OnlyFacts DEF Placed, WithParent
  <2> HIDE DEF kept
  <2>3. Len(kept) \in Nat /\ Len(flush.later) \in Nat /\ <<>> \in Seq(Logs)
    BY <1>0, <2>2
  <2>4. flush' \in FlushType
    BY <1>0, <2>1, <2>2, <2>3 DEF FlushType, Steps
  <2>5. dropped' \in Int
    BY <2>1, <2>3 DEF Typed
  <2> QED  BY <1>5, <2>4, <2>5 DEF EndLogs, Typed, LateTyped
<1>6. CASE EndAttempts
  <2>1. flush' \in FlushType
    BY <1>6, IdleType DEF EndAttempts, FlushType, Steps, Pending
  <2> QED  BY <1>6, <2>1 DEF EndAttempts, Typed, LateTyped
<1> QED  BY <1>2, <1>3, <1>4, <1>5, <1>6

\* The chunk that is next, and the rest of the references.
LEMMA RefsParts ==
  ASSUME Typed, Placed, flush.refs # <<>>
  PROVE  /\ Cut(Chunk(flush.refs),
                SubSeq(flush.refs, Len(Chunk(flush.refs)) + 1, Len(flush.refs)),
                flush.refs, Len(Chunk(flush.refs)), Bodies)
         /\ Chunk(flush.refs)[1] = flush.refs[1] /\ flush.refs[1] \in ToSet(flush.refs)
         /\ Len(Chunk(flush.refs)) \in Nat
         /\ ToSet(flush.refs) \subseteq Bodies
<1>1. flush.refs \in Seq(Bodies) /\ IsInjective(flush.refs)
  BY FlushFields DEF Typed, Placed
<1>2. ToSet(flush.refs) \subseteq Bodies
  <2>1. \A i \in DOMAIN flush.refs : flush.refs[i] \in Bodies
    BY <1>1
  <2> QED  BY <2>1 DEF ToSet
<1> QED  BY <1>1, <1>2, ChunkFacts

\* The request and the owner of a body.
LEMMA BodyOwner == ASSUME NEW b \in Bodies PROVE b[1] \in Logs /\ OwnerOf[b[1]] \in Owners
<1>1. b[1] \in Logs
  BY DEF Bodies, BodiesOf
<1> QED  BY <1>1, LogWriterAssumption

\* The steps of a flush that are about bodies keep the types.
LEMMA TypedBodies ==
  ASSUME Typed, LateTyped, Placed, WriteBodies \/ BodiesFail \/ EndBodies
  PROVE  Typed' /\ LateTyped'
<1> USE DEF memory, tallies, database
<1> DEFINE chunk == Chunk(flush.refs)
           rest  == SubSeq(flush.refs, Len(chunk) + 1, Len(flush.refs))
           owner == OwnerOf[chunk[1][1]]
<1>1. flush \in FlushType /\ flush.refs \in Seq(Bodies)
  BY FlushFields DEF Typed
<1>2. flush.refs # <<>> =>
        /\ chunk \in Seq(Bodies) /\ IsInjective(chunk) /\ rest \in Seq(Bodies)
        /\ ToSet(chunk) \subseteq Bodies /\ owner \in Owners
        /\ chunk[1] = flush.refs[1]
  <2> SUFFICES ASSUME flush.refs # <<>>
               PROVE  /\ chunk \in Seq(Bodies) /\ IsInjective(chunk) /\ rest \in Seq(Bodies)
                      /\ ToSet(chunk) \subseteq Bodies /\ owner \in Owners
                      /\ chunk[1] = flush.refs[1]
    OBVIOUS
  <2>1. /\ Cut(chunk, rest, flush.refs, Len(chunk), Bodies)
        /\ chunk[1] = flush.refs[1] /\ chunk[1] \in Bodies
        /\ ToSet(flush.refs) \subseteq Bodies
    BY RefsParts
  <2>2. owner \in Owners
    BY <2>1, BodyOwner
  <2> HIDE DEF chunk, rest, owner
  <2> QED  BY <2>1, <2>2 DEF Cut
<1>3. CASE WriteBodies
  <2> DEFINE taken == {b \in ToSet(chunk) : Live(b)}
  <2>1. /\ flush.refs # <<>> /\ stored' = stored \cup taken /\ saved' = saved \cup taken
        /\ drops' = [drops EXCEPT ![owner] = @ + Len(chunk) - Cardinality(taken)]
        /\ carried' \subseteq carried /\ flush' = [flush EXCEPT !.refs = rest]
    BY <1>3 DEF WriteBodies
  <2>2. taken \subseteq Bodies
    BY <1>2, <2>1
  <2>3. Len(chunk) \in Nat /\ Cardinality(taken) \in Nat
    <3>1. Len(chunk) \in Nat /\ IsFiniteSet(ToSet(chunk))
      <4> HIDE DEF chunk
      <4> QED  BY <1>2, <2>1, InjectiveLen
    <3> HIDE DEF chunk
    <3>2. IsFiniteSet(taken)
      BY <3>1, FS_Subset
    <3> QED  BY <3>1, <3>2, FS_CardinalityType
  <2> HIDE DEF chunk, rest, owner, taken
  <2>4. drops' \in [Owners -> Int]
    BY <1>2, <2>1, <2>3 DEF Typed
  <2>5. flush' \in FlushType
    BY <1>1, <1>2, <2>1 DEF FlushType
  <2> QED  BY <1>3, <2>1, <2>2, <2>4, <2>5 DEF WriteBodies, Typed, LateTyped
<1>4. CASE BodiesFail
  <2>1. /\ flush.refs # <<>> /\ late' = late \cup {<<faults, "bodies", ToSet(chunk)>>}
        /\ flush' = [flush EXCEPT !.refs = <<>>] /\ carried' \subseteq carried
        /\ drops' = [drops EXCEPT ![OwnerOf[flush.refs[1][1]]] = @ + Len(flush.refs)]
    BY <1>4 DEF BodiesFail, Landing, Unsettled
  <2>2. OwnerOf[flush.refs[1][1]] = owner
    BY <1>2, <2>1
  <2>3. Len(flush.refs) \in Nat /\ <<>> \in Seq(Bodies)
    BY <1>1
  <2> HIDE DEF chunk, rest, owner
  <2>4. drops' \in [Owners -> Int]
    BY <1>2, <2>1, <2>2, <2>3 DEF Typed
  <2>5. flush' \in FlushType
    BY <1>1, <2>1, <2>3 DEF FlushType
  <2>6. LateTyped'
    BY <1>2, <2>1 DEF LateTyped
  <2> QED  BY <1>4, <2>1, <2>4, <2>5, <2>6 DEF BodiesFail, Typed
<1>5. CASE EndBodies
  <2>1. flush' \in FlushType
    BY <1>1, <1>5 DEF EndBodies, FlushType, Steps
  <2> QED  BY <1>5, <2>1 DEF EndBodies, Typed, LateTyped
<1> QED  BY <1>3, <1>4, <1>5

\* The steps that write the counts, and the end of the drain, keep the types.
LEMMA TypedCounts ==
  ASSUME Typed, LateTyped, Counts
  PROVE  Typed' /\ LateTyped'
<1> USE DEF memory, tallies, database
<1>1. flush \in FlushType /\ flush.owners \subseteq Owners
  BY FlushFields DEF Typed
<1>2. ASSUME NEW o \in Owners
      PROVE  drops[o] \in Int /\ shown[o] \in Int /\ forfeited[o] \in Int
  BY DEF Typed
<1>3. ASSUME NEW o \in Owners, AddCount(o) PROVE Typed' /\ LateTyped'
  <2>1. flush' \in FlushType
    BY <1>1, <1>3 DEF AddCount, FlushType
  <2>2. shown' \in [Owners -> Int] /\ drops' \in [Owners -> Int]
    BY <1>2, <1>3 DEF AddCount, Typed
  <2> QED  BY <1>3, <2>1, <2>2 DEF AddCount, Typed, LateTyped
<1>4. ASSUME NEW o \in Owners, CountFails(o) PROVE Typed' /\ LateTyped'
  <2>1. flush' \in FlushType
    BY <1>1, <1>4 DEF CountFails, FlushType
  <2>2. forfeited' \in [Owners -> Int] /\ drops' \in [Owners -> Int]
    BY <1>2, <1>4 DEF CountFails, GivenUp, Typed
  <2>3. LateTyped'
    BY <1>2, <1>4 DEF CountFails, Landing, LateTyped
  <2> QED  BY <1>4, <2>1, <2>2, <2>3 DEF CountFails, GivenUp, Typed
<1>5. CASE EndCounts \/ Exit
  BY <1>5, IdleType DEF EndCounts, Exit, Typed, LateTyped
<1>6. CASE Drained
  <2>1. flush' \in FlushType
    BY <1>6, IdleType DEF Drained, FlushType, Steps, Pending
  <2> QED  BY <1>6, <2>1 DEF Drained, Typed, LateTyped
<1> QED  BY <1>3, <1>4, <1>5, <1>6 DEF Counts

\* A late call keeps the types.
LEMMA TypedLand ==
  ASSUME Typed, LateTyped, NEW call \in late, Land(call)
  PROVE  Typed' /\ LateTyped'
<1> USE DEF memory
<1>1. /\ late' = late \ {call}
      /\ UNCHANGED <<memory, drops, dropped, costs, saved, epoch, flush>>
  BY DEF Land
<1>2. LateTyped'
  BY <1>1 DEF LateTyped
<1>3. CASE call[2] = "rows" /\ LandRows(call[3])
  BY <1>1, <1>2, <1>3 DEF LandRows, Typed, LateTyped
<1>4. CASE call[2] = "bodies" /\ LandBodies(call[3])
  BY <1>1, <1>2, <1>4 DEF LandBodies, Typed, LateTyped
<1>5. CASE call[2] = "count" /\ \E c \in call[3] : LandCount(c[1], c[2])
  <2>1. PICK c \in call[3] : LandCount(c[1], c[2])
    BY <1>5
  <2>2. PICK o \in Owners, n \in Int : o = c[1] /\ n = c[2]
    BY <1>5 DEF LateTyped
  <2>3. /\ shown' = [shown EXCEPT ![o] = @ + n]
        /\ forfeited' = [forfeited EXCEPT ![o] = @ - n]
    BY <2>1, <2>2 DEF LandCount
  <2>4. shown \in [Owners -> Int] /\ forfeited \in [Owners -> Int]
    BY DEF Typed
  <2>5. shown' \in [Owners -> Int] /\ forfeited' \in [Owners -> Int]
    BY <2>3, <2>4
  <2> QED  BY <1>1, <1>2, <2>1, <2>5 DEF LandCount, Typed
<1> QED  BY <1>3, <1>4, <1>5 DEF Land

-----------------------------------------------------------------------------
(* Rows: where each draft is, what is in the database and what was emitted. *)

\* The invariant of the rows holds at the start.
LEMMA RowInit == Init => RowInv
<1> SUFFICES ASSUME Init PROVE RowInv
  OBVIOUS
<1>1. Typed /\ LateTyped
  BY TypedInit
<1>2. IsInjective(<<>>) /\ ToSet(<<>>) = {}
  BY DEF IsInjective, ToSet
<1>3. /\ queue = <<>> /\ attempts = <<>> /\ flush = Idle /\ table = {} /\ late = {}
      /\ costs = [r \in Rows |-> 0]
  BY DEF Init
<1>4. Placed
  BY <1>2, <1>3, IdleType DEF Placed, WritingLogs
<1>5. WaitingLogs = {} /\ WaitingAttempts = {}
  BY <1>2, <1>3, IdleType DEF WaitingLogs, WaitingAttempts
<1>6. Costed
  BY <1>3, <1>5 DEF Costed
<1>7. RowsRecorded
  BY <1>3, IdleType DEF RowsRecorded
<1>8. AttemptsFollowTheirLog
  BY <1>2, <1>3, IdleType DEF AttemptsFollowTheirLog
<1> QED  BY <1>1, <1>4, <1>6, <1>7, <1>8 DEF RowInv

\* The steps that leave the rows and their drafts where they are.
SameRows ==
  /\ UNCHANGED <<queue, attempts, costs, table>> /\ Recorded' = Recorded
  /\ flush'.todo = flush.todo /\ flush'.later = flush.later
  /\ \/ flush'.step = flush.step
     \/ flush.step = "bodies" /\ flush'.step = "logs"
     \/ /\ flush.todo = <<>> /\ flush.later = <<>>
        /\ ~ WritingLogs /\ flush'.step \in {"idle", "counts", "last"}
  /\ flush'.written = flush.written \/ (flush.later = <<>> /\ flush'.written = {})
  /\ IsInjective(flush'.refs) /\ (flush'.step # "bodies" => flush'.refs = <<>>)
  /\ \A call \in late' : call[2] = "rows" => call \in late

\* Such a step keeps the invariant of the rows.
LEMMA RowsStay ==
  ASSUME RowInv, SameRows, Typed', LateTyped'
  PROVE  RowInv'
<1>1. IsInjective(<<>>) /\ ToSet(<<>>) = {}
  BY DEF IsInjective, ToSet
<1>2. /\ WritingLogs' <=> WritingLogs
      /\ flush'.step = "attempts" => flush.step = "attempts"
      /\ flush.step = "attempts" => flush'.step = "attempts" \/ flush.todo = <<>>
      /\ flush'.step \in {"idle", "counts", "last"} => flush.todo = <<>>
  BY DEF SameRows, WritingLogs, RowInv, Placed
<1>3. Placed'
  BY <1>2 DEF SameRows, Placed, RowInv
<1>4. WaitingLogs' = WaitingLogs /\ WaitingAttempts' \subseteq WaitingAttempts
  BY <1>1, <1>2 DEF SameRows, WaitingLogs, WaitingAttempts, WritingLogs
<1>5. Costed'
  BY <1>4 DEF SameRows, Costed, RowInv
<1>6. RowsRecorded'
  BY DEF SameRows, RowsRecorded, RowInv
<1>7. AttemptsFollowTheirLog'
  BY <1>1, <1>2 DEF SameRows, AttemptsFollowTheirLog, RowInv
<1> QED  BY <1>3, <1>5, <1>6, <1>7 DEF RowInv

\* The steps of the recorder, the owner and the server that are not about rows.
LEMMA RowOutside ==
  ASSUME RowInv, Outside \/ UNCHANGED vars
  PROVE  SameRows /\ RowInv'
<1>1. Typed' /\ LateTyped'
  BY TypedOutside DEF RowInv
<1>2. Recorded' = Recorded
  BY DEF Recorded, Outside, Capture, DeleteForRequest, PurgeAll, Shutdown, memory, vars,
         RowInv, Typed
<1>3. /\ UNCHANGED <<queue, attempts, costs, table>> /\ flush' = flush /\ late' = late
  BY DEF Outside, Capture, DeleteForRequest, PurgeAll, Shutdown, memory, database, tallies,
         vars
<1>4. SameRows
  BY <1>2, <1>3 DEF SameRows, RowInv, Placed
<1> QED  BY <1>1, <1>4, RowsStay

\* Inserts of bodies leave the rows where they are.
LEMMA RowBodies ==
  ASSUME RowInv, WriteBodies \/ BodiesFail \/ EndBodies
  PROVE  SameRows /\ RowInv'
<1>1. Typed' /\ LateTyped' /\ flush \in FlushType
  BY TypedBodies DEF RowInv, Typed
<1>2. /\ Recorded' = Recorded /\ UNCHANGED <<queue, attempts, costs, table>>
      /\ flush.step = "bodies"
  BY DEF Recorded, WriteBodies, BodiesFail, EndBodies, memory, database, tallies
<1>3. CASE WriteBodies
  <2> DEFINE rest == SubSeq(flush.refs, Len(Chunk(flush.refs)) + 1, Len(flush.refs))
  <2>1. flush' = [flush EXCEPT !.refs = rest] /\ late' = late /\ flush.refs # <<>>
    BY <1>3 DEF WriteBodies
  <2>2. IsInjective(rest)
    BY <2>1, RefsParts DEF RowInv, Cut
  <2> HIDE DEF rest
  <2>3. /\ flush'.todo = flush.todo /\ flush'.later = flush.later /\ flush'.step = flush.step
        /\ flush'.written = flush.written /\ flush'.refs = rest
    BY <1>1, <2>1 DEF FlushType
  <2>4. SameRows
    BY <1>2, <2>1, <2>2, <2>3 DEF SameRows
  <2> QED  BY <1>1, <2>4, RowsStay
<1>4. CASE BodiesFail
  <2>1. flush' = [flush EXCEPT !.refs = <<>>] /\ late' = late \cup
             {<<faults, "bodies", ToSet(Chunk(flush.refs))>>}
    BY <1>4 DEF BodiesFail, Landing
  <2>2. IsInjective(<<>>)
    BY DEF IsInjective
  <2>3. /\ flush'.todo = flush.todo /\ flush'.later = flush.later /\ flush'.step = flush.step
        /\ flush'.written = flush.written /\ flush'.refs = <<>>
    BY <1>1, <2>1 DEF FlushType
  <2>4. SameRows
    BY <1>2, <2>1, <2>2, <2>3 DEF SameRows
  <2> QED  BY <1>1, <2>4, RowsStay
<1>5. CASE EndBodies
  <2>1. /\ flush' = [flush EXCEPT !.step = "logs"] /\ late' = late /\ flush.refs = <<>>
    BY <1>5 DEF EndBodies
  <2>2. IsInjective(<<>>)
    BY DEF IsInjective
  <2>3. /\ flush'.todo = flush.todo /\ flush'.later = flush.later /\ flush'.step = "logs"
        /\ flush'.written = flush.written /\ flush'.refs = <<>>
    BY <1>1, <2>1 DEF FlushType
  <2>4. SameRows
    BY <1>2, <2>1, <2>2, <2>3 DEF SameRows
  <2> QED  BY <1>1, <2>4, RowsStay
<1> QED  BY <1>3, <1>4, <1>5

\* Writing the counts leaves the rows where they are.
LEMMA RowCounts ==
  ASSUME RowInv, Counts
  PROVE  SameRows /\ RowInv'
<1>1. Typed' /\ LateTyped' /\ flush \in FlushType
  BY TypedCounts DEF RowInv, Typed
<1>2. /\ Recorded' = Recorded /\ UNCHANGED <<queue, attempts, costs, table>>
  BY DEF Recorded, Counts, AddCount, CountFails, EndCounts, Drained, Exit, memory, database,
         tallies
<1>3. \A call \in late' : call[2] = "rows" => call \in late
  BY DEF Counts, AddCount, CountFails, Landing, EndCounts, Drained, Exit
<1>4. /\ flush.step \in {"idle", "counts", "last"} /\ flush.todo = <<>>
      /\ flush.later = <<>> /\ flush.refs = <<>> /\ ~ WritingLogs
  BY DEF Counts, AddCount, CountFails, Counting, EndCounts, Drained, Exit, RowInv, Placed,
         WritingLogs
<1>5. /\ flush'.step \in {"idle", "counts", "last"} /\ flush'.todo = <<>>
      /\ flush'.later = <<>> /\ flush'.refs = <<>>
      /\ flush'.written = flush.written \/ flush'.written = {}
  <2>1. ASSUME NEW o \in Owners, AddCount(o) \/ CountFails(o)
        PROVE  /\ flush'.step \in {"idle", "counts", "last"} /\ flush'.todo = <<>>
               /\ flush'.later = <<>> /\ flush'.refs = <<>>
               /\ flush'.written = flush.written
    BY <1>1, <1>4, <2>1 DEF AddCount, CountFails, Counting, FlushType
  <2>2. CASE EndCounts \/ Exit
    BY <2>2, IdleType DEF EndCounts, Exit
  <2>3. CASE Drained
    BY <2>3, IdleType DEF Drained, FlushType
  <2> QED  BY <2>1, <2>2, <2>3 DEF Counts
<1>6. IsInjective(<<>>)
  BY DEF IsInjective
<1>7. SameRows
  BY <1>2, <1>3, <1>4, <1>5, <1>6 DEF SameRows
<1> QED  BY <1>1, <1>7, RowsStay

\* The end of the ledger rows leaves the rows where they are.
LEMMA RowEndAttempts ==
  ASSUME RowInv, EndAttempts
  PROVE  SameRows /\ RowInv'
<1>1. Typed' /\ LateTyped'
  BY TypedFlush DEF RowInv
<1>2. /\ Recorded' = Recorded /\ UNCHANGED <<queue, attempts, costs, table>> /\ late' = late
      /\ flush.step = "attempts" /\ flush.todo = <<>>
      /\ flush' = [Idle EXCEPT !.step = "counts", !.owners = Pending]
  BY DEF Recorded, EndAttempts, memory, database, tallies
<1>3. flush.later = <<>> /\ ~ WritingLogs
  BY <1>2 DEF RowInv, Placed, WritingLogs
<1>4. /\ flush'.step = "counts" /\ flush'.todo = <<>> /\ flush'.later = <<>>
      /\ flush'.refs = <<>> /\ flush'.written = {}
  BY <1>2, IdleType DEF FlushType
<1>5. IsInjective(<<>>)
  BY DEF IsInjective
<1>6. SameRows
  BY <1>2, <1>3, <1>4, <1>5 DEF SameRows
<1> QED  BY <1>1, <1>6, RowsStay

\* A late call lands.
LEMMA RowLand ==
  ASSUME RowInv, NEW call \in late, Land(call)
  PROVE  RowInv'
<1>1. Typed' /\ LateTyped'
  BY TypedLand DEF RowInv
<1>2. /\ Recorded' = Recorded /\ UNCHANGED <<queue, attempts, costs, flush>>
      /\ late' \subseteq late
  BY DEF Recorded, Land, memory
<1>3. CASE table' = table
  <2>1. SameRows
    BY <1>2, <1>3 DEF SameRows, RowInv, Placed
  <2> QED  BY <1>1, <2>1, RowsStay
<1>4. CASE call[2] = "rows" /\ table' = table \cup call[3]
  <2>1. \A r \in call[3] : r[1] \in Recorded
    BY <1>4 DEF RowInv, RowsRecorded
  <2>2. WaitingLogs' = WaitingLogs /\ WaitingAttempts' = WaitingAttempts
    BY <1>2 DEF WaitingLogs, WaitingAttempts
  <2>3. Placed'
    BY <1>2 DEF Placed, RowInv, WritingLogs
  <2>4. Costed'
    BY <1>2, <1>4, <2>2 DEF Costed, RowInv
  <2>5. RowsRecorded'
    BY <1>2, <1>4, <2>1 DEF RowsRecorded, RowInv
  <2>6. AttemptsFollowTheirLog'
    BY <1>2, <1>4 DEF AttemptsFollowTheirLog, RowInv
  <2> QED  BY <1>1, <2>3, <2>4, <2>5, <2>6 DEF RowInv
<1> QED  BY <1>3, <1>4 DEF Land, LandRows, LandBodies, LandCount

\* A flush takes both queues.
LEMMA RowFlush ==
  ASSUME RowInv, Flush
  PROVE  RowInv'
<1>1. Typed' /\ LateTyped'
  BY TypedFlush DEF RowInv
<1>2. /\ flush.step = "idle" /\ flush' = Taken /\ queue' = <<>>
      /\ attempts' = SubSeq(attempts, Len(flush'.later) + 1, Len(attempts))
      /\ UNCHANGED <<costs, table, late>> /\ Recorded' = Recorded
  BY DEF Flush, tallies, database, Recorded
<1>3. /\ flush'.step = "logs" /\ flush'.todo = queue /\ flush'.later = attempts
      /\ flush'.written = {} /\ flush'.refs = <<>>
  BY <1>2, IdleType DEF Taken, FlushType
<1>4. attempts' = <<>>
  <2>1. attempts' = SubSeq(attempts, Len(attempts) + 1, Len(attempts))
    BY <1>2, <1>3
  <2>2. SubSeq(attempts, Len(attempts) + 1, Len(attempts)) = <<>>
    BY DEF RowInv, Typed
  <2> QED  BY <2>1, <2>2
<1>5. IsInjective(<<>>) /\ ToSet(<<>>) = {}
  BY DEF IsInjective, ToSet
<1>6. Placed'
  BY <1>2, <1>3, <1>4, <1>5 DEF RowInv, Placed, WritingLogs
<1>7. WaitingLogs' = WaitingLogs /\ WaitingAttempts' \subseteq WaitingAttempts
  BY <1>2, <1>3, <1>4, <1>5 DEF WaitingLogs, WaitingAttempts
<1>8. Costed'
  BY <1>2, <1>7 DEF Costed, RowInv
<1>9. RowsRecorded'
  BY <1>2, <1>3 DEF RowsRecorded, RowInv
<1>10. AttemptsFollowTheirLog'
  <2>1. ToSet(attempts') = {} /\ flush'.step # "attempts"
    BY <1>3, <1>4, <1>5
  <2>2. \A l \in ToSet(flush'.later) : costs'[Log(l)] = 0
    BY <1>2, <1>3 DEF AttemptsFollowTheirLog, RowInv
  <2> QED  BY <2>1, <2>2 DEF AttemptsFollowTheirLog
<1> QED  BY <1>1, <1>6, <1>8, <1>9, <1>10 DEF RowInv

\* The log rows are through: the attempts whose log was written come next.
LEMMA RowEndLogs ==
  ASSUME RowInv, EndLogs
  PROVE  RowInv'
<1> DEFINE kept == WithParent(flush.later)
<1>1. Typed' /\ LateTyped' /\ flush \in FlushType
  BY TypedFlush DEF RowInv, Typed
<1>2. /\ flush.step = "logs" /\ flush.todo = <<>>
      /\ flush' = [flush EXCEPT !.step = "attempts", !.todo = kept, !.later = <<>>,
                              !.written = {}]
      /\ UNCHANGED <<queue, attempts, costs, table, late>> /\ Recorded' = Recorded
  BY DEF EndLogs, memory, database, Recorded
<1>3. /\ kept \in Seq(Logs) /\ IsInjective(kept)
      /\ ToSet(kept) = ToSet(flush.later) \cap flush.written
  <2>1. flush.later \in Seq(Logs) /\ IsInjective(flush.later)
    BY <1>1, FlushFields DEF RowInv, Placed
  <2> QED  BY <2>1, OnlyFacts DEF WithParent
<1> HIDE DEF kept
<1>4. /\ flush'.step = "attempts" /\ flush'.todo = kept /\ flush'.later = <<>>
      /\ flush'.written = {} /\ flush'.refs = flush.refs
  BY <1>1, <1>2 DEF FlushType
<1>5. IsInjective(<<>>) /\ ToSet(<<>>) = {}
  BY DEF IsInjective, ToSet
<1>6. Placed'
  BY <1>2, <1>3, <1>4, <1>5 DEF RowInv, Placed, WritingLogs
<1>7. WaitingLogs' \subseteq WaitingLogs /\ WaitingAttempts' \subseteq WaitingAttempts
  BY <1>2, <1>3, <1>4, <1>5 DEF WaitingLogs, WaitingAttempts
<1>8. Costed'
  BY <1>2, <1>7 DEF Costed, RowInv
<1>9. RowsRecorded'
  BY <1>2, <1>4 DEF RowsRecorded, RowInv
<1>10. AttemptsFollowTheirLog'
  BY <1>2, <1>3, <1>4, <1>5 DEF AttemptsFollowTheirLog, RowInv, RowsRecorded
<1> QED  BY <1>1, <1>6, <1>8, <1>9, <1>10 DEF RowInv

\* A group is written: its rows' costs are emitted, and its drafts wait no more.
LEMMA RowWrite ==
  ASSUME RowInv, Write
  PROVE  RowInv'
<1> DEFINE g == Group(flush.todo)
           o == Others(flush.todo)
           R == RowsOf(g)
<1>1. Typed' /\ LateTyped' /\ flush \in FlushType /\ costs \in [Rows -> Nat]
  BY TypedFlush DEF RowInv, Typed
<1>2. /\ Writing /\ Accepts(R) /\ table' = table \cup R /\ costs' = Emitted(R)
      /\ flush' = [flush EXCEPT !.todo = o, !.tries = 0,
                     !.step = IF @ = "logs" THEN "bodies" ELSE @,
                     !.refs = IF flush.step = "logs" THEN RefsOf(g) ELSE <<>>,
                     !.written = IF flush.step = "logs" THEN @ \cup ToSet(g) ELSE @]
      /\ UNCHANGED <<queue, attempts, late>> /\ Recorded' = Recorded
  BY DEF Write, memory, Recorded
<1>3. Parts(g, o, flush.todo) /\ R \subseteq Rows
  BY <1>2, GroupRows DEF RowInv
<1>4. IsInjective(RefsOf(g))
  BY <1>3, RefsFacts DEF Parts
<1>5. IsInjective(<<>>) /\ ToSet(<<>>) = {}
  BY DEF IsInjective, ToSet
<1>6. \A r : r \in R <=> \E l \in ToSet(g) :
                r = IF flush.step = "logs" THEN Log(l) ELSE Attempt(l)
  BY DEF RowsOf
<1>7. costs' = [r \in Rows |-> IF r \in R THEN costs[r] + 1 ELSE costs[r]]
  BY <1>2 DEF Emitted
<1> HIDE DEF g, o, R
<1>8. flush.step \in {"logs", "attempts"}
  BY <1>2 DEF Writing
<1>9. /\ flush'.todo = o /\ flush'.later = flush.later
      /\ flush'.step = IF flush.step = "logs" THEN "bodies" ELSE "attempts"
      /\ flush'.refs = IF flush.step = "logs" THEN RefsOf(g) ELSE <<>>
      /\ flush'.written = IF flush.step = "logs" THEN flush.written \cup ToSet(g)
                          ELSE flush.written
  BY <1>1, <1>2, <1>8 DEF FlushType
<1>10. /\ ToSet(g) \subseteq ToSet(flush.todo) /\ ToSet(o) \subseteq ToSet(flush.todo)
       /\ ToSet(g) \cap ToSet(o) = {} /\ IsInjective(o)
  BY <1>3 DEF Parts
<1>11. Placed'
  BY <1>2, <1>4, <1>5, <1>8, <1>9, <1>10 DEF RowInv, Placed, WritingLogs
<1>12. CASE flush.step = "logs"
  <2>1. \A r \in R : \E l \in ToSet(flush.todo) \cap WaitingLogs : r = Log(l)
    BY <1>6, <1>10, <1>12 DEF WaitingLogs
  <2>2. \A r \in R : costs[r] = 0 /\ r[1] \in Recorded
    BY <2>1 DEF RowInv, Costed, Placed, Log
  <2>3. /\ WaitingLogs' \subseteq WaitingLogs \ ToSet(g)
        /\ WaitingAttempts' = WaitingAttempts
    BY <1>2, <1>9, <1>10, <1>12 DEF WaitingLogs, WaitingAttempts, RowInv, Placed, WritingLogs
  <2>4. \A l : Attempt(l) \notin R /\ (Log(l) \in R <=> l \in ToSet(g))
    BY <1>6, <1>12 DEF Log, Attempt
  <2>5. \A r \in Rows : costs'[r] \in {0, 1} /\ (costs'[r] = 1 => r \in table')
    BY <1>2, <1>7, <2>2 DEF RowInv, Costed
  <2>6. \A l \in WaitingLogs' : costs'[Log(l)] = 0
    <3>1. \A l \in WaitingLogs : Log(l) \in Rows
      BY DEF WaitingLogs, Rows, RowInv, Placed, Recorded
    <3> QED  BY <1>7, <2>3, <2>4, <3>1 DEF RowInv, Costed
  <2>7. \A l \in WaitingAttempts' : costs'[Attempt(l)] = 0
    <3>1. \A l \in WaitingAttempts : Attempt(l) \in Rows
      BY DEF WaitingAttempts, Rows, RowInv, Placed, Recorded
    <3> QED  BY <1>7, <2>3, <2>4, <3>1 DEF RowInv, Costed
  <2>8. Costed'
    BY <2>5, <2>6, <2>7 DEF Costed
  <2>9. RowsRecorded'
    BY <1>2, <1>9, <1>12, <2>2, <2>4 DEF RowsRecorded, RowInv
  <2>10. \A l \in ToSet(attempts) \cup ToSet(flush.later) :
            Log(l) \in Rows /\ costs'[Log(l)] = IF l \in ToSet(g) THEN costs[Log(l)] + 1
                                                ELSE costs[Log(l)]
    BY <1>7, <2>4 DEF RowInv, Placed, Recorded, Rows
  <2>11. \A l \in ToSet(attempts') : costs'[Log(l)] = 0
    BY <1>2, <1>10, <2>10 DEF AttemptsFollowTheirLog, RowInv, Placed
  <2>12. \A l \in ToSet(flush'.later) : costs'[Log(l)] = 1 => l \in flush'.written
    BY <1>9, <1>12, <2>10 DEF AttemptsFollowTheirLog, RowInv
  <2>13. flush'.step # "attempts"
    BY <1>9, <1>12
  <2>14. AttemptsFollowTheirLog'
    BY <2>11, <2>12, <2>13 DEF AttemptsFollowTheirLog
  <2> QED  BY <1>1, <1>11, <2>8, <2>9, <2>14 DEF RowInv
<1>13. CASE flush.step = "attempts"
  <2>1. \A r \in R : \E l \in ToSet(flush.todo) \cap WaitingAttempts : r = Attempt(l)
    BY <1>6, <1>10, <1>13 DEF WaitingAttempts
  <2>2. \A r \in R : costs[r] = 0 /\ r[1] \in Recorded
    BY <2>1 DEF RowInv, Costed, Placed, Attempt
  <2>3. /\ WaitingLogs' = WaitingLogs
        /\ WaitingAttempts' \subseteq WaitingAttempts \ ToSet(g)
    <3>1. flush.later = <<>>
      BY <1>13 DEF RowInv, Placed, WritingLogs
    <3> QED  BY <1>2, <1>5, <1>9, <1>10, <1>13, <3>1
             DEF WaitingLogs, WaitingAttempts, RowInv, Placed
  <2>4. \A l : Log(l) \notin R /\ (Attempt(l) \in R <=> l \in ToSet(g))
    BY <1>6, <1>13 DEF Log, Attempt
  <2>5. \A r \in Rows : costs'[r] \in {0, 1} /\ (costs'[r] = 1 => r \in table')
    BY <1>2, <1>7, <2>2 DEF RowInv, Costed
  <2>6. \A l \in WaitingLogs' : costs'[Log(l)] = 0
    <3>1. \A l \in WaitingLogs : Log(l) \in Rows
      BY DEF WaitingLogs, Rows, RowInv, Placed, Recorded
    <3> QED  BY <1>7, <2>3, <2>4, <3>1 DEF RowInv, Costed
  <2>7. \A l \in WaitingAttempts' : costs'[Attempt(l)] = 0
    <3>1. \A l \in WaitingAttempts : Attempt(l) \in Rows
      BY DEF WaitingAttempts, Rows, RowInv, Placed, Recorded
    <3> QED  BY <1>7, <2>3, <2>4, <3>1 DEF RowInv, Costed
  <2>8. Costed'
    BY <2>5, <2>6, <2>7 DEF Costed
  <2>9. RowsRecorded'
    BY <1>2, <1>9, <1>13, <2>2 DEF RowsRecorded, RowInv
  <2>10. \A l \in ToSet(attempts) \cup ToSet(flush.later) : costs'[Log(l)] = costs[Log(l)]
    BY <1>7, <2>4 DEF RowInv, Placed, Recorded, Rows
  <2>11. AttemptsFollowTheirLog'
    BY <1>2, <1>9, <1>10, <1>13, <2>10 DEF AttemptsFollowTheirLog, RowInv
  <2> QED  BY <1>1, <1>11, <2>8, <2>9, <2>11 DEF RowInv
<1> QED  BY <1>8, <1>12, <1>13

\* A call fails or times out: the group is tried again or given up.
LEMMA RowWriteFails ==
  ASSUME RowInv, WriteFails
  PROVE  RowInv'
<1> DEFINE g == Group(flush.todo)
           o == Others(flush.todo)
           R == RowsOf(g)
<1>1. Typed' /\ LateTyped' /\ flush \in FlushType
  BY TypedFlush DEF RowInv, Typed
<1>2. /\ Writing /\ RetryOrGiveUp(g)
      /\ late' = late \/ late' = late \cup {<<faults, "rows", R>>}
      /\ UNCHANGED <<queue, attempts, costs, table>> /\ Recorded' = Recorded
  BY DEF WriteFails, Landing, database, Recorded
<1>3. Parts(g, o, flush.todo)
  BY <1>2, GroupRows DEF RowInv
<1>4. \A r \in R : r[1] \in ToSet(g)
  BY DEF RowsOf, Log, Attempt
<1>5. \/ flush' = [flush EXCEPT !.tries = @ + 1]
      \/ flush' = [flush EXCEPT !.todo = o, !.tries = 0]
  BY <1>2 DEF RetryOrGiveUp
<1> HIDE DEF g, o, R
<1>6. /\ flush'.later = flush.later /\ flush'.step = flush.step
      /\ flush'.refs = flush.refs /\ flush'.written = flush.written
      /\ flush'.todo = flush.todo \/ flush'.todo = o
  BY <1>1, <1>5 DEF FlushType
<1>7. /\ ToSet(g) \subseteq ToSet(flush.todo) /\ ToSet(flush'.todo) \subseteq ToSet(flush.todo)
      /\ IsInjective(flush'.todo) /\ flush.step \in {"logs", "attempts"}
  BY <1>2, <1>3, <1>6 DEF Parts, RowInv, Placed, Writing
<1>8. Placed'
  BY <1>2, <1>6, <1>7 DEF RowInv, Placed, WritingLogs
<1>9. WaitingLogs' \subseteq WaitingLogs /\ WaitingAttempts' \subseteq WaitingAttempts
  BY <1>2, <1>6, <1>7 DEF WaitingLogs, WaitingAttempts
<1>10. Costed'
  BY <1>2, <1>9 DEF Costed, RowInv
<1>11. \A r \in R : r[1] \in Recorded
  BY <1>4, <1>7 DEF RowInv, Placed
<1>12. RowsRecorded'
  BY <1>2, <1>6, <1>11 DEF RowsRecorded, RowInv
<1>13. AttemptsFollowTheirLog'
  BY <1>2, <1>6, <1>7 DEF AttemptsFollowTheirLog, RowInv
<1> QED  BY <1>1, <1>8, <1>10, <1>12, <1>13 DEF RowInv

\* A request is recorded: its draft is queued, and the oldest may leave the queue.
LEMMA RowRecord ==
  ASSUME RowInv, NEW l \in Logs, Record(l)
  PROVE  RowInv'
<1> DEFINE full == Len(queue) >= MaxQueue
           over == l \in Cascaded /\ Len(attempts) >= MaxQueue
           q    == IF full THEN Tail(queue) ELSE queue
           a    == IF over THEN Tail(attempts) ELSE attempts
<1>1. Typed' /\ LateTyped' /\ l \in Logs
  BY TypedRecord DEF RowInv
<1>2. /\ phase[l] = "open" /\ phase' = [phase EXCEPT ![l] = "recorded"]
      /\ queue' = Append(q, l)
      /\ attempts' = IF l \notin Cascaded THEN attempts ELSE Append(a, l)
      /\ UNCHANGED <<costs, table, flush, late>>
  BY DEF Record, database
<1>3. /\ queue \in Seq(Logs) /\ attempts \in Seq(Logs)
      /\ IsInjective(queue) /\ IsInjective(attempts)
  BY DEF RowInv, Typed, Placed
<1>4. Recorded' = Recorded \cup {l} /\ l \notin Recorded
  BY <1>2 DEF Recorded, RowInv, Typed
<1>5. MaxQueue \in Nat \ {0}
  BY LogWriterAssumption
<1>6. q \in Seq(Logs) /\ IsInjective(q) /\ ToSet(q) \subseteq ToSet(queue)
  <2>1. CASE full
    <3>1. queue # <<>>
      BY <1>5, <2>1
    <3> QED  BY <1>3, <2>1, <3>1, TailFacts
  <2>2. CASE ~ full
    BY <1>3, <2>2
  <2> QED  BY <2>1, <2>2
<1>7. a \in Seq(Logs) /\ IsInjective(a) /\ ToSet(a) \subseteq ToSet(attempts)
  <2>1. CASE over
    <3>1. attempts # <<>>
      BY <1>5, <2>1
    <3> QED  BY <1>3, <2>1, <3>1, TailFacts
  <2>2. CASE ~ over
    BY <1>3, <2>2
  <2> QED  BY <2>1, <2>2
<1>8. l \notin ToSet(q) /\ l \notin ToSet(a)
  BY <1>4, <1>6, <1>7 DEF RowInv, Placed
<1> HIDE DEF q, a, full, over
<1>9. IsInjective(queue') /\ ToSet(queue') = ToSet(q) \cup {l}
  BY <1>1, <1>2, <1>6, <1>8, AppendFacts
<1>10. /\ IsInjective(attempts')
       /\ ToSet(attempts') \subseteq ToSet(attempts) \cup {l}
       /\ l \in ToSet(attempts') => l \in Cascaded
  <2>1. CASE l \in Cascaded
    <3>1. attempts' = Append(a, l)
      BY <1>2, <2>1
    <3>2. IsInjective(Append(a, l)) /\ ToSet(Append(a, l)) = ToSet(a) \cup {l}
      BY <1>1, <1>7, <1>8, AppendFacts
    <3> QED  BY <1>7, <2>1, <3>1, <3>2
  <2>2. CASE l \notin Cascaded
    <3>1. attempts' = attempts
      BY <1>2, <2>2
    <3> QED  BY <1>3, <1>4, <2>2, <3>1 DEF RowInv, Placed
  <2> QED  BY <2>1, <2>2
<1>11. Placed'
  BY <1>2, <1>4, <1>6, <1>9, <1>10 DEF RowInv, Placed, WritingLogs
<1>12. /\ WaitingLogs' \subseteq WaitingLogs \cup {l}
       /\ WaitingAttempts' \subseteq WaitingAttempts \cup {l}
       /\ l \in WaitingAttempts' => l \in Cascaded
  BY <1>2, <1>6, <1>9, <1>10 DEF WaitingLogs, WaitingAttempts, RowInv, Placed
<1>13. \A r \in Rows : r[1] = l => costs[r] = 0
  <2>1. \A r \in Rows : r[1] = l => r \notin table
    BY <1>4 DEF RowInv, RowsRecorded
  <2> QED  BY <2>1 DEF RowInv, Costed
<1>14. costs[Log(l)] = 0 /\ (l \in Cascaded => costs[Attempt(l)] = 0)
  <2>1. Log(l) \in Rows /\ Log(l)[1] = l
    BY DEF Rows, Log
  <2>2. l \in Cascaded => Attempt(l) \in Rows /\ Attempt(l)[1] = l
    BY DEF Rows, Attempt
  <2> QED  BY <1>13, <2>1, <2>2
<1>15. Costed'
  BY <1>2, <1>12, <1>14 DEF RowInv, Costed
<1>16. RowsRecorded'
  BY <1>2, <1>4 DEF RowInv, RowsRecorded
<1>17. AttemptsFollowTheirLog'
  BY <1>2, <1>10, <1>14 DEF RowInv, AttemptsFollowTheirLog
<1> QED  BY <1>1, <1>11, <1>15, <1>16, <1>17 DEF RowInv

\* The kinds of steps.
LEMMA StepKinds ==
  ASSUME [Next]_vars
  PROVE  \/ \E l \in Logs : Record(l)
         \/ \E call \in late : Land(call)
         \/ Outside \/ UNCHANGED vars
         \/ Flush \/ Write \/ WriteFails \/ EndLogs \/ EndAttempts
         \/ WriteBodies \/ BodiesFail \/ EndBodies \/ Counts
BY DEF Next, Work, Outside, Counts

\* Every step keeps the rows in order.
LEMMA RowStep ==
  ASSUME RowInv, [Next]_vars
  PROVE  RowInv'
<1>1. ASSUME NEW l \in Logs, Record(l) PROVE RowInv'
  BY <1>1, RowRecord
<1>2. ASSUME NEW call \in late, Land(call) PROVE RowInv'
  BY <1>2, RowLand
<1>3. Outside \/ UNCHANGED vars => RowInv'
  BY RowOutside
<1>4. Flush \/ Write \/ WriteFails \/ EndLogs \/ EndAttempts => RowInv'
  BY RowFlush, RowWrite, RowWriteFails, RowEndLogs, RowEndAttempts
<1>5. WriteBodies \/ BodiesFail \/ EndBodies \/ Counts => RowInv'
  BY RowBodies, RowCounts
<1> QED  BY <1>1, <1>2, <1>3, <1>4, <1>5, StepKinds

-----------------------------------------------------------------------------
(* Purged bodies. *)

\* A body enters the database only while it is live, and leaves it when it is purged.
LEMMA StoredStep ==
  ASSUME RowInv, StoredInv, [Next]_vars
  PROVE  StoredInv'
<1> USE DEF memory, tallies, database
<1>1. /\ stored \subseteq Bodies /\ phase \in [Logs -> {"new", "open", "recorded"}]
      /\ born \in [Logs -> Int] /\ epoch \in [Owners -> Int]
      /\ \A l : Log(l) \in table => l \in Recorded
  BY DEF RowInv, Typed, RowsRecorded, Log
<1>2. ASSUME NEW l \in Logs, Record(l) PROVE StoredInv'
  <2>1. /\ phase' = [phase EXCEPT ![l] = "recorded"]
        /\ UNCHANGED <<born, stored, epoch, tombs>>
    BY <1>2 DEF Record
  <2>2. Recorded \subseteq Recorded'
    BY <1>1, <2>1 DEF Recorded
  <2> QED  BY <2>1, <2>2 DEF StoredInv
<1>3. ASSUME NEW l \in Logs, Capture(l) PROVE StoredInv'
  <2>1. /\ phase[l] = "new" /\ phase' = [phase EXCEPT ![l] = "open"]
        /\ born' = [born EXCEPT ![l] = epoch[OwnerOf[l]]]
        /\ UNCHANGED <<stored, epoch, tombs>>
    BY <1>3 DEF Capture
  <2>2. Recorded' = Recorded /\ l \notin Recorded
    BY <1>1, <2>1 DEF Recorded
  <2>3. \A k \in Recorded : born'[k] = born[k]
    BY <1>1, <2>1, <2>2 DEF Recorded
  <2> QED  BY <2>1, <2>2, <2>3 DEF StoredInv
<1>4. ASSUME NEW l \in Logs, DeleteForRequest(l) PROVE StoredInv'
  <2>1. /\ tombs' = tombs \cup {l} /\ stored' = stored \ BodiesOf(l)
        /\ UNCHANGED <<phase, born, epoch>>
    BY <1>4 DEF DeleteForRequest
  <2>2. \A b \in stored : b[1] = l => b \in BodiesOf(l)
    BY <1>1 DEF Bodies, BodiesOf
  <2> QED  BY <2>1, <2>2 DEF StoredInv, Recorded
<1>5. ASSUME NEW o \in Owners, PurgeAll(o) PROVE StoredInv'
  <2>1. /\ epoch' = [epoch EXCEPT ![o] = @ + 1] /\ stored' = {b \in stored : OwnerOf[b[1]] # o}
        /\ UNCHANGED <<phase, born, tombs>>
    BY <1>5 DEF PurgeAll
  <2>2. \A b \in stored' : epoch'[OwnerOf[b[1]]] = epoch[OwnerOf[b[1]]]
    BY <1>1, <2>1, BodyOwner
  <2> QED  BY <2>1, <2>2 DEF StoredInv, Recorded
<1>6. CASE WriteBodies
  <2>1. /\ \A b \in stored' : b \in stored \/ Live(b)
        /\ UNCHANGED <<phase, born, epoch, tombs>>
    BY <1>6 DEF WriteBodies
  <2> QED  BY <1>1, <2>1 DEF StoredInv, Recorded, Live
<1>7. ASSUME NEW call \in late, Land(call) PROVE StoredInv'
  <2>1. /\ \A b \in stored' : b \in stored \/ Live(b)
        /\ UNCHANGED <<phase, born, epoch, tombs>>
    BY <1>7 DEF Land, LandRows, LandBodies, LandCount
  <2> QED  BY <1>1, <2>1 DEF StoredInv, Recorded, Live
<1>8. ASSUME UNCHANGED <<phase, born, stored, epoch, tombs>> PROVE StoredInv'
  BY <1>8 DEF StoredInv, Recorded
<1>9. CASE Shutdown \/ Flush \/ UNCHANGED vars
  BY <1>8, <1>9 DEF Shutdown, Flush, vars
<1>10. CASE Work
  <2>1. CASE Write \/ WriteFails \/ EndLogs \/ EndAttempts
    BY <1>8, <2>1 DEF Write, WriteFails, EndLogs, EndAttempts
  <2>2. CASE BodiesFail \/ EndBodies
    BY <1>8, <2>2 DEF BodiesFail, EndBodies
  <2>3. CASE (\E o \in Owners : AddCount(o) \/ CountFails(o)) \/ EndCounts \/ Drained \/ Exit
    BY <1>8, <2>3 DEF AddCount, CountFails, EndCounts, Drained, Exit
  <2> QED  BY <1>6, <1>10, <2>1, <2>2, <2>3 DEF Work
<1> QED  BY <1>2, <1>3, <1>4, <1>5, <1>7, <1>9, <1>10 DEF Next

\* At the start no body is stored.
LEMMA StoredInit == Init => StoredInv
BY DEF Init, StoredInv

-----------------------------------------------------------------------------
(* The rows that wait, that were written and that were dropped. *)

\* Finitely many requests are recorded.
LEMMA RecordedFinite ==
  /\ IsFiniteSet(Recorded) /\ IsFiniteSet(Recorded \cap Cascaded)
  /\ Cardinality(Recorded) \in Nat /\ Cardinality(Recorded \cap Cascaded) \in Nat
<1>1. Recorded \in SUBSET Logs /\ Recorded \cap Cascaded \in SUBSET Logs
  BY DEF Recorded
<1>2. IsFiniteSet(Recorded) /\ IsFiniteSet(Recorded \cap Cascaded)
  BY <1>1, LogWriterAssumption, FS_Subset
<1> QED  BY <1>2, FS_CardinalityType

\* Finitely many rows are written.
LEMMA RowsFinite == IsFiniteSet(Rows) /\ IsFiniteSet(Done) /\ Cardinality(Done) \in Nat
<1> DEFINE kinds == {"log", "attempt"}
<1>1. IsFiniteSet(kinds)
  <2>1. IsFiniteSet({"log"}) /\ IsFiniteSet({"attempt"})
    BY FS_Singleton
  <2>2. kinds = {"log"} \cup {"attempt"}
    OBVIOUS
  <2> HIDE DEF kinds
  <2> QED  BY <2>1, <2>2, FS_Union
<1>2. Rows \in SUBSET (Logs \X kinds)
  BY LogWriterAssumption DEF Rows, Log, Attempt
<1> HIDE DEF kinds
<1>3. IsFiniteSet(Logs \X kinds)
  BY <1>1, LogWriterAssumption, FS_Product
<1>4. IsFiniteSet(Rows)
  BY <1>2, <1>3, FS_Subset
<1>5. Done \in SUBSET Rows
  BY DEF Done
<1>6. IsFiniteSet(Done)
  BY <1>4, <1>5, FS_Subset
<1> QED  BY <1>4, <1>6, FS_CardinalityType

\* At the start nothing was recorded and nothing waits.
LEMMA BalanceInit == Init => Balance
<1> SUFFICES ASSUME Init PROVE Balance
  OBVIOUS
<1>1. Recorded = {} /\ Recorded \cap Cascaded = {}
  BY DEF Init, Recorded
<1>2. Done = {}
  BY DEF Init, Done
<1>3. LogsWaiting = 0 /\ AttemptsWaiting = 0 /\ dropped = 0
  BY IdleType DEF Init, LogsWaiting, AttemptsWaiting, LogsTodo, AttemptsTodo, WritingLogs
<1> QED  BY <1>1, <1>2, <1>3, FS_EmptySet DEF Balance

\* A step that leaves the rows and the dropped ones alone keeps the balance.
LEMMA BalanceStays ==
  ASSUME RowInv, Balance, SameRows, dropped' = dropped
  PROVE  Balance'
<1>1. Recorded' = Recorded /\ Done' = Done
  BY DEF SameRows, Done
<1>2. WritingLogs' <=> WritingLogs
  BY DEF SameRows, WritingLogs
<1>3. LogsWaiting' = LogsWaiting
  BY <1>2 DEF SameRows, LogsWaiting, LogsTodo
<1>4. AttemptsWaiting' = AttemptsWaiting
  <2> DEFINE todo(s) == IF s = "attempts" THEN Len(flush.todo) ELSE 0
  <2>1. /\ AttemptsWaiting = Len(attempts) + Len(flush.later) + todo(flush.step)
        /\ AttemptsWaiting' = Len(attempts) + Len(flush.later) + todo(flush'.step)
    BY DEF SameRows, AttemptsWaiting, AttemptsTodo
  <2>2. Len(flush.todo) = 0 \/ (flush'.step = "attempts" <=> flush.step = "attempts")
    BY DEF SameRows
  <2>3. todo(flush'.step) = todo(flush.step)
    BY <2>2
  <2> HIDE DEF todo
  <2> QED  BY <2>1, <2>3
<1> QED  BY <1>1, <1>3, <1>4 DEF Balance

\* The lengths of the sequences of drafts.
LEMMA Lengths ==
  ASSUME RowInv
  PROVE  /\ Len(queue) \in Nat /\ Len(attempts) \in Nat
         /\ Len(flush.todo) \in Nat /\ Len(flush.later) \in Nat
         /\ LogsTodo \in Nat /\ AttemptsTodo \in Nat
         /\ LogsWaiting \in Nat /\ AttemptsWaiting \in Nat /\ dropped \in Int
<1>1. /\ queue \in Seq(Logs) /\ attempts \in Seq(Logs)
      /\ flush.todo \in Seq(Logs) /\ flush.later \in Seq(Logs) /\ dropped \in Int
  BY FlushFields DEF RowInv, Typed
<1>2. /\ Len(queue) \in Nat /\ Len(attempts) \in Nat
      /\ Len(flush.todo) \in Nat /\ Len(flush.later) \in Nat
  BY <1>1
<1>3. LogsTodo \in Nat /\ AttemptsTodo \in Nat
  BY <1>2 DEF LogsTodo, AttemptsTodo
<1>4. LogsWaiting \in Nat
  BY <1>2, <1>3 DEF LogsWaiting
<1>5. AttemptsWaiting \in Nat
  BY <1>2, <1>3 DEF AttemptsWaiting
<1> QED  BY <1>1, <1>2, <1>3, <1>4, <1>5

\* One more request is recorded; what leaves a queue for it is counted.
LEMMA BalanceRecord ==
  ASSUME RowInv, Balance, NEW l \in Logs, Record(l)
  PROVE  Balance'
<1> DEFINE full    == Len(queue) >= MaxQueue
           over    == l \in Cascaded /\ Len(attempts) >= MaxQueue
           q       == IF full THEN Tail(queue) ELSE queue
           a       == IF over THEN Tail(attempts) ELSE attempts
           evicted == IF full THEN {Head(queue)} ELSE {}
           lost    == IF over THEN 1 ELSE 0
           more    == IF l \in Cascaded THEN 1 ELSE 0
<1>1. /\ phase[l] = "open" /\ phase' = [phase EXCEPT ![l] = "recorded"]
      /\ queue' = Append(q, l)
      /\ attempts' = IF l \notin Cascaded THEN attempts ELSE Append(a, l)
      /\ dropped' = dropped + Cardinality(evicted) + lost
      /\ UNCHANGED <<costs, flush>>
  BY DEF Record
<1>2. /\ queue \in Seq(Logs) /\ attempts \in Seq(Logs)
      /\ IsInjective(queue) /\ IsInjective(attempts) /\ MaxQueue \in Nat \ {0}
  BY LogWriterAssumption DEF RowInv, Typed, Placed
<1>3. Recorded' = Recorded \cup {l} /\ l \notin Recorded
  BY <1>1 DEF Recorded, RowInv, Typed
<1>4. Cardinality(Recorded') = Cardinality(Recorded) + 1
  BY <1>3, RecordedFinite, FS_AddElement
<1>5. Cardinality(Recorded' \cap Cascaded) = Cardinality(Recorded \cap Cascaded) + more
  <2> DEFINE D == Recorded \cap Cascaded
  <2>1. CASE l \in Cascaded
    <3>1. Recorded' \cap Cascaded = D \cup {l} /\ l \notin D
      BY <1>3, <2>1
    <3>2. IsFiniteSet(D)
      BY RecordedFinite
    <3> HIDE DEF D
    <3>3. Cardinality(D \cup {l}) = Cardinality(D) + 1
      BY <3>1, <3>2, FS_AddElement
    <3> QED  BY <2>1, <3>1, <3>3 DEF D
  <2>2. CASE l \notin Cascaded
    <3>1. Recorded' \cap Cascaded = D
      BY <1>3, <2>2
    <3> QED  BY <2>2, <3>1, RecordedFinite
  <2> QED  BY <2>1, <2>2
<1>6. /\ q \in Seq(Logs) /\ Len(q) = Len(queue) - Cardinality(evicted)
      /\ Cardinality(evicted) \in Nat
  <2>1. CASE full
    <3>1. queue # <<>>
      BY <1>2, <2>1
    <3>2. Tail(queue) \in Seq(Logs) /\ Len(Tail(queue)) = Len(queue) - 1
      BY <1>2, <3>1, TailFacts
    <3>3. Cardinality(evicted) = 1
      BY <2>1, FS_Singleton
    <3> QED  BY <2>1, <3>2, <3>3
  <2>2. CASE ~ full
    <3>1. Cardinality(evicted) = 0 /\ q = queue /\ Len(queue) \in Nat
      BY <1>2, <2>2, FS_EmptySet
    <3> HIDE DEF evicted, q
    <3> QED  BY <1>2, <3>1
  <2> QED  BY <2>1, <2>2
<1>7. Len(attempts') = Len(attempts) + more - lost
  <2>1. CASE l \notin Cascaded
    BY <1>1, <1>2, <2>1
  <2>2. CASE over
    <3>1. attempts # <<>>
      BY <1>2, <2>2
    <3>2. a \in Seq(Logs) /\ Len(a) = Len(attempts) - 1
      BY <1>2, <2>2, <3>1, TailFacts
    <3>3. attempts' = Append(a, l) /\ more = 1 /\ lost = 1
      BY <1>1, <2>2
    <3> HIDE DEF a, more, lost
    <3>4. Len(Append(a, l)) = Len(a) + 1
      BY <3>2
    <3>5. Len(attempts) \in Nat
      BY <1>2
    <3> QED  BY <3>2, <3>3, <3>4, <3>5
  <2>3. CASE l \in Cascaded /\ ~ over
    <3>1. attempts' = Append(attempts, l) /\ more = 1 /\ lost = 0
      BY <1>1, <2>3
    <3>2. Len(Append(attempts, l)) = Len(attempts) + 1 /\ Len(attempts) \in Nat
      BY <1>2
    <3> HIDE DEF more, lost
    <3> QED  BY <3>1, <3>2
  <2> QED  BY <2>1, <2>2, <2>3
<1>8. Len(queue') = Len(queue) - Cardinality(evicted) + 1
  <2> HIDE DEF q, evicted
  <2>1. Len(Append(q, l)) = Len(q) + 1
    BY <1>6
  <2> QED  BY <1>1, <1>6, <2>1
<1>9. more \in Nat /\ lost \in Nat
  OBVIOUS
<1> HIDE DEF q, a, evicted, lost, more, full, over
<1>10. LogsTodo' = LogsTodo /\ AttemptsTodo' = AttemptsTodo
  BY <1>1 DEF LogsTodo, AttemptsTodo, WritingLogs
<1>11. /\ LogsTodo \in Nat /\ AttemptsTodo \in Nat /\ LogsWaiting \in Nat
       /\ AttemptsWaiting \in Nat /\ Len(queue) \in Nat /\ Len(attempts) \in Nat
       /\ Len(flush.later) \in Nat /\ dropped \in Int
  BY Lengths
<1>12. LogsWaiting' = LogsWaiting - Cardinality(evicted) + 1
  BY <1>6, <1>8, <1>10, <1>11 DEF LogsWaiting
<1>13. AttemptsWaiting' = AttemptsWaiting + more - lost
  <2> DEFINE x == Len(attempts)
             y == Len(flush.later)
             t == AttemptsTodo
  <2>1. x \in Nat /\ y \in Nat /\ t \in Nat
    BY <1>11
  <2>2. AttemptsWaiting = x + y + t
    BY DEF AttemptsWaiting
  <2>3. AttemptsWaiting' = (x + more - lost) + y + t
    BY <1>1, <1>7, <1>10 DEF AttemptsWaiting
  <2> HIDE DEF x, y, t
  <2> QED  BY <1>9, <2>1, <2>2, <2>3
<1>14. Done' = Done
  BY <1>1 DEF Done
<1> DEFINE C == Cardinality(Recorded)
           D == Cardinality(Recorded \cap Cascaded)
           e == Cardinality(evicted)
           d == Cardinality(Done)
<1>15. C \in Nat /\ D \in Nat /\ d \in Nat /\ e \in Nat
  BY <1>6, RecordedFinite, RowsFinite
<1>16. C + D = LogsWaiting + AttemptsWaiting + d + dropped
  BY DEF Balance
<1>17. /\ Cardinality(Recorded') = C + 1 /\ Cardinality(Recorded' \cap Cascaded) = D + more
       /\ Cardinality(Done') = d /\ dropped' = dropped + e + lost
  BY <1>1, <1>4, <1>5, <1>14
<1>18. LogsWaiting' = LogsWaiting - e + 1
  BY <1>12
<1> HIDE DEF C, D, e, d
<1>19. (C + 1) + (D + more) = LogsWaiting' + AttemptsWaiting' + d + dropped'
  BY <1>9, <1>11, <1>13, <1>15, <1>16, <1>17, <1>18
<1> QED  BY <1>17, <1>19 DEF Balance

\* A flush takes the drafts from the queues.
LEMMA BalanceFlush ==
  ASSUME RowInv, Balance, Flush
  PROVE  Balance'
<1>1. /\ flush.step = "idle" /\ flush' = Taken /\ queue' = <<>>
      /\ attempts' = SubSeq(attempts, Len(flush'.later) + 1, Len(attempts))
      /\ UNCHANGED <<costs, dropped>> /\ Recorded' = Recorded
  BY DEF Flush, tallies, Recorded
<1>2. flush'.step = "logs" /\ flush'.todo = queue /\ flush'.later = attempts
  BY <1>1, IdleType DEF Taken, FlushType
<1>3. Len(attempts') = 0
  <2>1. attempts' = SubSeq(attempts, Len(attempts) + 1, Len(attempts))
    BY <1>1, <1>2
  <2>2. SubSeq(attempts, Len(attempts) + 1, Len(attempts)) = <<>>
    BY DEF RowInv, Typed
  <2> QED  BY <2>1, <2>2
<1>4. flush.todo = <<>> /\ flush.later = <<>>
  BY <1>1 DEF RowInv, Placed, WritingLogs
<1>5. LogsWaiting' = LogsWaiting
  <2>1. LogsWaiting = Len(queue)
    BY <1>1, Lengths DEF LogsWaiting, LogsTodo, WritingLogs
  <2>2. LogsWaiting' = Len(queue)
    BY <1>1, <1>2, Lengths DEF LogsWaiting, LogsTodo, WritingLogs
  <2> QED  BY <2>1, <2>2
<1>6. AttemptsWaiting' = AttemptsWaiting
  <2>1. AttemptsWaiting = Len(attempts)
    BY <1>1, <1>4, Lengths DEF AttemptsWaiting, AttemptsTodo
  <2>2. AttemptsWaiting' = Len(attempts)
    BY <1>2, <1>3, Lengths DEF AttemptsWaiting, AttemptsTodo
  <2> QED  BY <2>1, <2>2
<1> QED  BY <1>1, <1>5, <1>6 DEF Balance, Done

\* Ledger rows without their log row are dropped and counted.
LEMMA BalanceEndLogs ==
  ASSUME RowInv, Balance, EndLogs
  PROVE  Balance'
<1> DEFINE kept == WithParent(flush.later)
<1>1. /\ flush.step = "logs" /\ flush.todo = <<>>
      /\ flush' = [flush EXCEPT !.step = "attempts", !.todo = kept, !.later = <<>>,
                              !.written = {}]
      /\ dropped' = dropped + (Len(flush.later) - Len(kept))
      /\ UNCHANGED <<queue, attempts, costs>> /\ Recorded' = Recorded
  BY DEF EndLogs, memory, Recorded
<1>2. Len(kept) \in Nat
  <2>1. flush.later \in Seq(Logs) /\ IsInjective(flush.later)
    BY FlushFields DEF RowInv, Typed, Placed
  <2>2. kept \in Seq(Logs)
    BY <2>1, OnlyFacts DEF WithParent
  <2> HIDE DEF kept
  <2> QED  BY <2>2
<1> HIDE DEF kept
<1>3. flush'.step = "attempts" /\ flush'.todo = kept /\ flush'.later = <<>>
  BY <1>1 DEF RowInv, Typed, FlushType
<1>4. LogsWaiting = Len(queue) /\ AttemptsWaiting = Len(attempts) + Len(flush.later)
  BY <1>1, Lengths DEF LogsWaiting, LogsTodo, AttemptsWaiting,
     AttemptsTodo, WritingLogs
<1>5. LogsWaiting' = Len(queue) /\ AttemptsWaiting' = Len(attempts) + Len(kept)
  BY <1>1, <1>2, <1>3, Lengths DEF LogsWaiting, LogsTodo, AttemptsWaiting,
     AttemptsTodo, WritingLogs
<1>6. Done' = Done
  BY <1>1 DEF Done
<1> DEFINE x == Len(flush.later)
           y == Len(kept)
           C == Cardinality(Recorded) + Cardinality(Recorded \cap Cascaded)
           d == Cardinality(Done)
           q == Len(queue)
           a == Len(attempts)
<1>7. x \in Nat /\ y \in Nat /\ q \in Nat /\ a \in Nat /\ d \in Nat /\ dropped \in Int
  BY <1>2, Lengths, RowsFinite
<1>8. C = q + (a + x) + d + dropped
  BY <1>4 DEF Balance
<1>9. dropped' = dropped + (x - y) /\ LogsWaiting' = q /\ AttemptsWaiting' = a + y
  BY <1>1, <1>5
<1>10. Cardinality(Recorded') + Cardinality(Recorded' \cap Cascaded) = C
       /\ Cardinality(Done') = d
  BY <1>1, <1>6
<1> HIDE DEF x, y, C, d, q, a
<1>11. C = q + (a + y) + d + (dropped + (x - y))
  BY <1>7, <1>8
<1> QED  BY <1>9, <1>10, <1>11 DEF Balance

\* The rows of a group are as many as its drafts, and were not written before.
LEMMA GroupCounts ==
  ASSUME RowInv, Writing
  PROVE  LET g == Group(flush.todo)
         IN  /\ IsFiniteSet(RowsOf(g)) /\ Cardinality(RowsOf(g)) = Len(g)
             /\ Len(g) \in Nat /\ Len(Others(flush.todo)) = Len(flush.todo) - Len(g)
             /\ RowsOf(g) \cap Done = {}
<1> DEFINE g == Group(flush.todo)
           o == Others(flush.todo)
           R == RowsOf(g)
           f == [l \in ToSet(g) |-> IF flush.step = "logs" THEN Log(l) ELSE Attempt(l)]
<1>1. Parts(g, o, flush.todo) /\ R \subseteq Rows
  BY GroupRows DEF RowInv
<1>2. R = {IF flush.step = "logs" THEN Log(l) ELSE Attempt(l) : l \in ToSet(g)}
  BY DEF RowsOf
<1> HIDE DEF g, o, R
<1>3. Len(g) \in Nat /\ Len(o) \in Nat /\ Len(g) + Len(o) = Len(flush.todo)
  BY <1>1 DEF Parts
<1>4. IsFiniteSet(ToSet(g)) /\ Cardinality(ToSet(g)) = Len(g)
  BY <1>1, InjectiveLen DEF Parts
<1>5. f \in Bijection(ToSet(g), R)
  <2>1. f \in Injection(ToSet(g), R)
    BY <1>2 DEF Injection, IsInjective, Log, Attempt
  <2>2. f \in Surjection(ToSet(g), R)
    BY <1>2 DEF Surjection
  <2> QED  BY <2>1, <2>2 DEF Bijection
<1> HIDE DEF f
<1>6. ExistsBijection(ToSet(g), R)
  BY <1>5 DEF ExistsBijection
<1>7. IsFiniteSet(R) /\ Cardinality(R) = Cardinality(ToSet(g))
  BY <1>4, <1>6, FS_Bijection
<1>8. R \cap Done = {}
  <2>1. ToSet(g) \subseteq ToSet(flush.todo)
    BY <1>1 DEF Parts
  <2>2. \A l \in ToSet(g) :
           costs[IF flush.step = "logs" THEN Log(l) ELSE Attempt(l)] = 0
    BY <2>1 DEF RowInv, Costed, WaitingLogs, WaitingAttempts, Writing
  <2> QED  BY <1>2, <2>2 DEF Done
<1>9. Len(o) = Len(flush.todo) - Len(g)
  BY <1>3
<1> QED  BY <1>3, <1>4, <1>7, <1>8, <1>9 DEF g, o, R

\* A group's rows are written.
LEMMA BalanceWrite ==
  ASSUME RowInv, Balance, Write
  PROVE  Balance'
<1> DEFINE g == Group(flush.todo)
           o == Others(flush.todo)
           R == RowsOf(g)
<1>1. /\ Writing /\ costs' = Emitted(R) /\ flush'.todo = o
      /\ flush'.step = (IF flush.step = "logs" THEN "bodies" ELSE flush.step)
      /\ flush'.later = flush.later
      /\ UNCHANGED <<queue, attempts, dropped>> /\ Recorded' = Recorded
  BY DEF Write, memory, Recorded, RowInv, Typed, FlushType
<1>2. /\ IsFiniteSet(R) /\ Cardinality(R) = Len(g) /\ R \cap Done = {}
      /\ Len(g) \in Nat /\ Len(o) = Len(flush.todo) - Len(g)
  BY <1>1, GroupCounts
<1>3. R \subseteq Rows
  BY <1>1, GroupRows DEF RowInv
<1> HIDE DEF g, o, R
<1>4. Done' = Done \cup R
  <2>1. \A r \in Rows : costs[r] \in {0, 1} /\ costs'[r] = IF r \in R THEN costs[r] + 1
                                                          ELSE costs[r]
    BY <1>1 DEF RowInv, Costed, Emitted
  <2>2. \A r \in R : costs[r] = 0
    BY <1>2, <1>3, <2>1 DEF Done
  <2> QED  BY <1>3, <2>1, <2>2 DEF Done
<1>5. Cardinality(Done') = Cardinality(Done) + Len(g)
  BY <1>2, <1>4, RowsFinite, DisjointUnion
<1> DEFINE x == Len(flush.todo)
           n == Len(g)
           q == Len(queue)
           a == Len(attempts) + Len(flush.later)
           d == Cardinality(Done)
           C == Cardinality(Recorded) + Cardinality(Recorded \cap Cascaded)
<1>6. x \in Nat /\ n \in Nat /\ q \in Nat /\ a \in Nat /\ d \in Nat /\ dropped \in Int
  BY <1>2, Lengths, RowsFinite
<1>7. \/ /\ LogsWaiting = q + x /\ LogsWaiting' = q + (x - n)
         /\ AttemptsWaiting = a + 0 /\ AttemptsWaiting' = a + 0
      \/ /\ LogsWaiting = q + 0 /\ LogsWaiting' = q + 0
         /\ AttemptsWaiting = a + x /\ AttemptsWaiting' = a + (x - n)
  <2>1. CASE flush.step = "logs"
    <3>1. flush'.step = "bodies"
      BY <1>1, <2>1
    <3>2. LogsTodo = x /\ LogsTodo' = x - n /\ AttemptsTodo = 0 /\ AttemptsTodo' = 0
      BY <1>1, <1>2, <2>1, <3>1 DEF LogsTodo, AttemptsTodo, WritingLogs
    <3> QED  BY <1>1, <3>2 DEF LogsWaiting, AttemptsWaiting
  <2>2. CASE flush.step = "attempts"
    <3>1. flush'.step = "attempts"
      BY <1>1, <2>2
    <3>2. LogsTodo = 0 /\ LogsTodo' = 0 /\ AttemptsTodo = x /\ AttemptsTodo' = x - n
      BY <1>1, <1>2, <2>2, <3>1 DEF LogsTodo, AttemptsTodo, WritingLogs
    <3> QED  BY <1>1, <3>2 DEF LogsWaiting, AttemptsWaiting
  <2> QED  BY <1>1, <2>1, <2>2 DEF Writing
<1>8. C = LogsWaiting + AttemptsWaiting + d + dropped
  BY DEF Balance
<1>9. /\ dropped' = dropped /\ Cardinality(Done') = d + n
      /\ Cardinality(Recorded') + Cardinality(Recorded' \cap Cascaded) = C
  BY <1>1, <1>5
<1> HIDE DEF x, n, q, a, d, C
<1>10. C = LogsWaiting' + AttemptsWaiting' + (d + n) + dropped
  BY <1>6, <1>7, <1>8
<1> QED  BY <1>9, <1>10 DEF Balance

\* A group that failed waits, or is dropped and counted.
LEMMA BalanceWriteFails ==
  ASSUME RowInv, Balance, WriteFails
  PROVE  Balance'
<1> DEFINE g == Group(flush.todo)
           o == Others(flush.todo)
<1>1. /\ Writing /\ RetryOrGiveUp(g) /\ UNCHANGED <<queue, attempts, costs>>
      /\ Recorded' = Recorded
  BY DEF WriteFails, Recorded
<1>2. Len(g) \in Nat /\ Len(o) = Len(flush.todo) - Len(g)
  BY <1>1, GroupCounts
<1>3. \/ flush' = [flush EXCEPT !.tries = @ + 1] /\ dropped' = dropped
      \/ flush' = [flush EXCEPT !.todo = o, !.tries = 0] /\ dropped' = dropped + Len(g)
  BY <1>1 DEF RetryOrGiveUp
<1> HIDE DEF g, o
<1>4. /\ flush'.step = flush.step /\ flush'.later = flush.later
      /\ \/ flush'.todo = flush.todo /\ dropped' = dropped
         \/ flush'.todo = o /\ dropped' = dropped + Len(g)
  BY <1>3 DEF RowInv, Typed, FlushType
<1> DEFINE x == Len(flush.todo)
           y == Len(flush'.todo)
           n == Len(g)
           q == Len(queue)
           a == Len(attempts) + Len(flush.later)
           d == Cardinality(Done)
           C == Cardinality(Recorded) + Cardinality(Recorded \cap Cascaded)
<1>5. x \in Nat /\ n \in Nat /\ q \in Nat /\ a \in Nat /\ d \in Nat /\ dropped \in Int
  BY <1>2, Lengths, RowsFinite
<1>6. (y = x /\ dropped' = dropped) \/ (y = x - n /\ dropped' = dropped + n)
  BY <1>2, <1>4
<1>7. \/ /\ LogsWaiting = q + x /\ LogsWaiting' = q + y
         /\ AttemptsWaiting = a + 0 /\ AttemptsWaiting' = a + 0
      \/ /\ LogsWaiting = q + 0 /\ LogsWaiting' = q + 0
         /\ AttemptsWaiting = a + x /\ AttemptsWaiting' = a + y
  <2>1. CASE flush.step = "logs"
    <3>1. LogsTodo = x /\ LogsTodo' = y /\ AttemptsTodo = 0 /\ AttemptsTodo' = 0
      BY <1>4, <2>1 DEF LogsTodo, AttemptsTodo, WritingLogs
    <3> QED  BY <1>1, <1>4, <3>1 DEF LogsWaiting, AttemptsWaiting
  <2>2. CASE flush.step = "attempts"
    <3>1. LogsTodo = 0 /\ LogsTodo' = 0 /\ AttemptsTodo = x /\ AttemptsTodo' = y
      BY <1>4, <2>2 DEF LogsTodo, AttemptsTodo, WritingLogs
    <3> QED  BY <1>1, <1>4, <3>1 DEF LogsWaiting, AttemptsWaiting
  <2> QED  BY <1>1, <2>1, <2>2 DEF Writing
<1>8. C = LogsWaiting + AttemptsWaiting + d + dropped
  BY DEF Balance
<1>9. /\ Cardinality(Done') = d
      /\ Cardinality(Recorded') + Cardinality(Recorded' \cap Cascaded) = C
  BY <1>1 DEF Done
<1> HIDE DEF x, y, n, q, a, d, C
<1>10. C = LogsWaiting' + AttemptsWaiting' + d + dropped'
  BY <1>5, <1>6, <1>7, <1>8
<1> QED  BY <1>9, <1>10 DEF Balance

\* Every step keeps the balance.
LEMMA BalanceStep ==
  ASSUME RowInv, Balance, [Next]_vars
  PROVE  Balance'
<1>1. ASSUME NEW l \in Logs, Record(l) PROVE Balance'
  BY <1>1, BalanceRecord
<1>2. ASSUME NEW call \in late, Land(call) PROVE Balance'
  BY <1>2 DEF Land, memory, Balance, Recorded, LogsWaiting, LogsTodo, AttemptsWaiting,
              AttemptsTodo, WritingLogs, Done
<1>3. CASE Outside \/ UNCHANGED vars
  <2>1. SameRows
    BY <1>3, RowOutside
  <2>2. dropped' = dropped
    BY <1>3 DEF Outside, Capture, DeleteForRequest, PurgeAll, Shutdown, tallies, vars
  <2> QED  BY <2>1, <2>2, BalanceStays
<1>4. Flush \/ Write \/ WriteFails \/ EndLogs => Balance'
  BY BalanceFlush, BalanceWrite, BalanceWriteFails, BalanceEndLogs
<1>5. CASE WriteBodies \/ BodiesFail \/ EndBodies
  <2>1. SameRows
    BY <1>5, RowBodies
  <2>2. dropped' = dropped
    BY <1>5 DEF WriteBodies, BodiesFail, EndBodies, tallies
  <2> QED  BY <2>1, <2>2, BalanceStays
<1>6. CASE Counts
  <2>1. SameRows
    BY <1>6, RowCounts
  <2>2. dropped' = dropped
    BY <1>6 DEF Counts, AddCount, CountFails, EndCounts, Drained, Exit, tallies
  <2> QED  BY <2>1, <2>2, BalanceStays
<1>7. CASE EndAttempts
  <2>1. SameRows
    BY <1>7, RowEndAttempts
  <2>2. dropped' = dropped
    BY <1>7 DEF EndAttempts, tallies
  <2> QED  BY <2>1, <2>2, BalanceStays
<1> QED  BY <1>1, <1>2, <1>3, <1>4, <1>5, <1>6, <1>7, StepKinds

\* Two sequences without repetition and without a common element.
LEMMA TwoSequences ==
  ASSUME NEW s \in Seq(Logs), NEW t \in Seq(Logs), IsInjective(s), IsInjective(t),
         ToSet(s) \cap ToSet(t) = {}
  PROVE  Cardinality(ToSet(s) \cup ToSet(t)) = Len(s) + Len(t)
<1> DEFINE S == ToSet(s)
           T == ToSet(t)
<1>1. /\ IsFiniteSet(S) /\ Cardinality(S) = Len(s)
      /\ IsFiniteSet(T) /\ Cardinality(T) = Len(t)
  BY InjectiveLen
<1>2. S \cap T = {}
  OBVIOUS
<1> HIDE DEF S, T
<1>3. Cardinality(S \cup T) = Cardinality(S) + Cardinality(T)
  BY <1>1, <1>2, DisjointUnion
<1> QED  BY <1>1, <1>3 DEF S, T

\* The drafts that wait are as many as their sequences are long.
LEMMA BalanceCounts ==
  ASSUME RowInv, Balance
  PROVE  NothingIsSilent
<1>1. /\ queue \in Seq(Logs) /\ attempts \in Seq(Logs)
      /\ flush.todo \in Seq(Logs) /\ flush.later \in Seq(Logs)
      /\ IsInjective(queue) /\ IsInjective(attempts)
      /\ IsInjective(flush.todo) /\ IsInjective(flush.later)
  BY FlushFields DEF RowInv, Typed, Placed
<1>2. \A s \in Seq(Logs) : IsInjective(s) => Cardinality(ToSet(s)) = Len(s)
  BY InjectiveLen
<1>3. Cardinality(WaitingLogs) = LogsWaiting
  <2>1. CASE WritingLogs
    <3>1. ToSet(queue) \cap ToSet(flush.todo) = {}
      BY <2>1 DEF RowInv, Placed
    <3>2. Cardinality(ToSet(queue) \cup ToSet(flush.todo)) = Len(queue) + Len(flush.todo)
      BY <1>1, <3>1, TwoSequences
    <3> QED  BY <2>1, <3>2 DEF WaitingLogs, LogsWaiting, LogsTodo, WritingLogs
  <2>2. CASE ~ WritingLogs
    <3>1. WaitingLogs = ToSet(queue)
      BY <2>2 DEF WaitingLogs, WritingLogs
    <3>2. LogsWaiting = Len(queue) + 0
      BY <2>2 DEF LogsWaiting, LogsTodo
    <3>3. Cardinality(ToSet(queue)) = Len(queue)
      BY <1>1, <1>2
    <3>4. Len(queue) \in Nat
      BY Lengths
    <3>5. Len(queue) + 0 = Len(queue)
      BY <3>4
    <3> QED  BY <3>1, <3>2, <3>3, <3>5
  <2> QED  BY <2>1, <2>2
<1>4. Cardinality(WaitingAttempts) = AttemptsWaiting
  <2> DEFINE a == Len(attempts)
             y == Len(flush.later)
             x == Len(flush.todo)
  <2>0. a \in Nat /\ x \in Nat /\ y \in Nat
    BY Lengths
  <2>1. CASE flush.step = "attempts"
    <3>1. flush.later = <<>> /\ ToSet(<<>>) = {} /\ ToSet(attempts) \cap ToSet(flush.todo) = {}
      BY <2>1 DEF RowInv, Placed, WritingLogs, ToSet
    <3>2. WaitingAttempts = ToSet(attempts) \cup ToSet(flush.todo)
      BY <2>1, <3>1 DEF WaitingAttempts
    <3>3. Cardinality(ToSet(attempts) \cup ToSet(flush.todo)) = a + x
      BY <1>1, <3>1, TwoSequences
    <3>4. y = 0
      BY <3>1
    <3>5. AttemptsWaiting = a + y + x
      BY <2>1 DEF AttemptsWaiting, AttemptsTodo
    <3> HIDE DEF a, x, y
    <3>6. a + y + x = a + x
      BY <2>0, <3>4
    <3> QED  BY <3>2, <3>3, <3>5, <3>6
  <2>2. CASE flush.step # "attempts"
    <3>1. ToSet(attempts) \cap ToSet(flush.later) = {}
      BY DEF RowInv, Placed
    <3>2. Cardinality(ToSet(attempts) \cup ToSet(flush.later)) = a + y
      BY <1>1, <3>1, TwoSequences
    <3>3. WaitingAttempts = ToSet(attempts) \cup ToSet(flush.later)
      BY <2>2 DEF WaitingAttempts
    <3>4. AttemptsWaiting = a + y + 0
      BY <2>2 DEF AttemptsWaiting, AttemptsTodo
    <3> HIDE DEF a, x, y
    <3>5. a + y + 0 = a + y
      BY <2>0
    <3> QED  BY <3>2, <3>3, <3>4, <3>5
  <2> QED  BY <2>1, <2>2
<1>5. \A r \in Rows : costs[r] <= 1 /\ (costs[r] = 1 => r \in table)
  BY DEF RowInv, Costed
<1> QED  BY <1>3, <1>4, <1>5 DEF Balance, NothingIsSilent, Done

-----------------------------------------------------------------------------
(* Bodies: those that wait, that are on their way, that were saved or dropped. *)

\* What the ledger of bodies adds up are numbers.
LEMMA BodyTypes ==
  ASSUME RowInv, NEW o \in Owners
  PROVE  /\ Waiting(o) \in Nat /\ Riding(o) \in Nat /\ Saved(o) \in Nat
         /\ drops[o] \in Int /\ shown[o] \in Int /\ forfeited[o] \in Int
         /\ CountOf(Recorded, o) \in Nat
         /\ IsFiniteSet(saved) /\ WaitingLogs \subseteq Recorded
         /\ ToSet(flush.refs) \subseteq Bodies
<1>1. WaitingLogs \subseteq Recorded /\ Recorded \in SUBSET Logs
  BY DEF WaitingLogs, RowInv, Placed, Recorded
<1>2. Waiting(o) \in Nat
  <2> DEFINE U == WaitingLogs \cap carried
  <2>1. U \in SUBSET Logs
    BY <1>1
  <2> HIDE DEF U
  <2>2. CountOf(U, o) \in Nat
    BY <2>1, OwnedFacts
  <2> QED  BY <2>2 DEF Waiting, U
<1>3. ToSet(flush.refs) \subseteq Bodies
  <2>1. flush.refs \in Seq(Bodies)
    BY FlushFields DEF RowInv, Typed
  <2>2. \A i \in DOMAIN flush.refs : flush.refs[i] \in Bodies
    BY <2>1
  <2> QED  BY <2>2 DEF ToSet
<1>4. \A S \in SUBSET Bodies : IsFiniteSet(S) /\ Cardinality(S) \in Nat
  BY BodiesFinite, FS_Subset, FS_CardinalityType
<1>5. saved \in SUBSET Bodies
  BY DEF RowInv, Typed
<1>6. Riding(o) \in Nat /\ Saved(o) \in Nat /\ IsFiniteSet(saved)
  BY <1>3, <1>4, <1>5 DEF Riding, Saved, OfOwner
<1>7. drops[o] \in Int /\ shown[o] \in Int /\ forfeited[o] \in Int
  BY DEF RowInv, Typed
<1>8. CountOf(Recorded, o) \in Nat
  BY <1>1, OwnedFacts
<1> QED  BY <1>1, <1>2, <1>3, <1>6, <1>7, <1>8

\* The steps that leave the bodies where they are.
SameBodies ==
  /\ WaitingLogs' = WaitingLogs /\ Recorded' = Recorded /\ flush'.refs = flush.refs
  /\ UNCHANGED <<carried, bytes, saved>>

\* Such a step keeps the invariant of the bodies, when no drop is forgotten.
LEMMA BodiesStay ==
  ASSUME RowInv, BodyInv, SameBodies, \A o \in Owners : Tally(o)' = Tally(o)
  PROVE  BodyInv'
<1>1. Carried'
  BY DEF SameBodies, Carried, BodyInv
<1>2. InFlight'
  BY DEF SameBodies, InFlight, BodyInv
<1>3. ASSUME NEW o \in Owners
      PROVE  /\ Waiting(o)' = Waiting(o) /\ Riding(o)' = Riding(o) /\ Saved(o)' = Saved(o)
             /\ Tally(o)' = Tally(o) /\ CountOf(Recorded', o) = CountOf(Recorded, o)
  BY DEF SameBodies, Waiting, Riding, Saved
<1>4. Ledger'
  BY <1>3 DEF Ledger, BodyInv
<1> QED  BY <1>1, <1>2, <1>4 DEF BodyInv

\* The steps that are not about bodies.
LEMMA BodyStays ==
  ASSUME RowInv, BodyInv,
         Outside \/ UNCHANGED vars \/ Flush \/ EndLogs \/ EndAttempts \/ EndBodies
  PROVE  BodyInv'
<1> USE DEF memory, tallies, database
<1>1. flush \in FlushType /\ ToSet(<<>>) = {}
  BY DEF RowInv, Typed, ToSet
<1>2. /\ Recorded' = Recorded /\ UNCHANGED <<carried, bytes, saved>>
      /\ UNCHANGED <<drops, shown, forfeited>>
  <2>1. CASE Outside
    BY <2>1 DEF Outside, Capture, DeleteForRequest, PurgeAll, Shutdown, Recorded, RowInv, Typed
  <2>2. CASE UNCHANGED vars \/ Flush \/ EndLogs \/ EndAttempts \/ EndBodies
    BY <2>2 DEF vars, Flush, EndLogs, EndAttempts, EndBodies, Recorded
  <2> QED  BY <2>1, <2>2
<1>3. WaitingLogs' = WaitingLogs /\ flush'.refs = flush.refs
  <2>1. CASE Outside \/ UNCHANGED vars
    <3>1. UNCHANGED <<queue, flush>>
      BY <2>1 DEF Outside, Capture, DeleteForRequest, PurgeAll, Shutdown, vars
    <3> QED  BY <3>1 DEF WaitingLogs
  <2>2. CASE Flush
    <3>1. flush.step = "idle" /\ flush' = Taken /\ queue' = <<>>
      BY <2>2 DEF Flush
    <3>2. flush'.step = "logs" /\ flush'.todo = queue /\ flush'.refs = <<>>
      BY <3>1, IdleType DEF Taken, FlushType
    <3>3. flush.refs = <<>>
      BY <3>1 DEF RowInv, Placed
    <3> QED  BY <1>1, <3>1, <3>2, <3>3 DEF WaitingLogs
  <2>3. CASE EndLogs
    <3>1. flush.step = "logs" /\ flush.todo = <<>> /\ queue' = queue
          /\ flush'.step = "attempts" /\ flush'.refs = flush.refs
      BY <1>1, <2>3 DEF EndLogs, FlushType
    <3> QED  BY <1>1, <3>1 DEF WaitingLogs
  <2>4. CASE EndAttempts
    <3>1. /\ flush.step = "attempts"
          /\ flush' = [Idle EXCEPT !.step = "counts", !.owners = Pending]
          /\ queue' = queue
      BY <2>4 DEF EndAttempts
    <3>2. flush'.step = "counts" /\ flush'.refs = <<>>
      BY <3>1 DEF Idle
    <3>3. flush.refs = <<>>
      BY <3>1 DEF RowInv, Placed
    <3> QED  BY <3>1, <3>2, <3>3 DEF WaitingLogs
  <2>5. CASE EndBodies
    <3>1. flush.step = "bodies" /\ queue' = queue /\ flush'.todo = flush.todo
          /\ flush'.step = "logs" /\ flush'.refs = flush.refs
      BY <1>1, <2>5 DEF EndBodies, FlushType
    <3> QED  BY <3>1 DEF WaitingLogs
  <2> QED  BY <2>1, <2>2, <2>3, <2>4, <2>5
<1>4. \A o \in Owners : Tally(o)' = Tally(o)
  BY <1>2 DEF Tally
<1> QED  BY <1>2, <1>3, <1>4, BodiesStay DEF SameBodies

\* The counts go to the database or to the log.
LEMMA BodyCounts ==
  ASSUME RowInv, BodyInv, Counts
  PROVE  BodyInv'
<1> USE DEF memory, tallies, database
<1>1. flush \in FlushType /\ flush.step \notin {"logs", "bodies"}
  BY DEF RowInv, Typed, Counts, AddCount, CountFails, EndCounts, Drained, Exit, Counting
<1>2. /\ Recorded' = Recorded /\ UNCHANGED <<queue, carried, bytes, saved>>
  BY DEF Counts, AddCount, CountFails, EndCounts, Drained, Exit, Recorded
<1>3. flush'.step \notin {"logs", "bodies"} /\ flush'.refs = <<>> /\ flush.refs = <<>>
  <2>1. flush.refs = <<>>
    BY <1>1 DEF RowInv, Placed
  <2>2. \A own : [flush EXCEPT !.owners = own].step = flush.step
                /\ [flush EXCEPT !.owners = own].refs = flush.refs
    BY <1>1 DEF FlushType
  <2>3. Idle.step = "idle" /\ Idle.refs = <<>>
        /\ [Idle EXCEPT !.step = "last", !.owners = Pending].step = "last"
        /\ [Idle EXCEPT !.step = "last", !.owners = Pending].refs = <<>>
    BY DEF Idle
  <2>4. \/ \E own : flush' = [flush EXCEPT !.owners = own]
        \/ flush' = Idle \/ flush' = [Idle EXCEPT !.step = "last", !.owners = Pending]
    BY DEF Counts, AddCount, CountFails, EndCounts, Drained, Exit
  <2> QED  BY <1>1, <2>1, <2>2, <2>3, <2>4
<1>4. ASSUME NEW o \in Owners PROVE Tally(o)' = Tally(o)
  <2>1. drops \in [Owners -> Int] /\ shown \in [Owners -> Int] /\ forfeited \in [Owners -> Int]
    BY DEF RowInv, Typed
  <2>2. \/ UNCHANGED <<drops, shown, forfeited>>
        \/ \E p \in Owners :
             /\ drops' = [drops EXCEPT ![p] = 0]
             /\ \/ shown' = [shown EXCEPT ![p] = @ + drops[p]] /\ forfeited' = forfeited
                \/ forfeited' = [forfeited EXCEPT ![p] = @ + drops[p]] /\ shown' = shown
    BY DEF Counts, AddCount, CountFails, EndCounts, Drained, Exit, GivenUp
  <2>3. \/ /\ drops'[o] = drops[o] /\ shown'[o] = shown[o] /\ forfeited'[o] = forfeited[o]
        \/ /\ drops'[o] = 0 /\ shown'[o] = shown[o] + drops[o] /\ forfeited'[o] = forfeited[o]
        \/ /\ drops'[o] = 0 /\ shown'[o] = shown[o] /\ forfeited'[o] = forfeited[o] + drops[o]
    BY <2>1, <2>2
  <2> DEFINE d == drops[o]
             s == shown[o]
             f == forfeited[o]
  <2>4. d \in Int /\ s \in Int /\ f \in Int
    BY <2>1
  <2>5. Tally(o)' = drops'[o] + shown'[o] + forfeited'[o] /\ Tally(o) = d + s + f
    BY DEF Tally
  <2>6. \/ drops'[o] = d /\ shown'[o] = s /\ forfeited'[o] = f
        \/ drops'[o] = 0 /\ shown'[o] = s + d /\ forfeited'[o] = f
        \/ drops'[o] = 0 /\ shown'[o] = s /\ forfeited'[o] = f + d
    BY <2>3
  <2> HIDE DEF d, s, f
  <2> QED  BY <2>4, <2>5, <2>6
<1>5. WaitingLogs' = WaitingLogs
  BY <1>1, <1>2, <1>3 DEF WaitingLogs
<1> QED  BY <1>2, <1>3, <1>4, <1>5, BodiesStay DEF SameBodies

\* A late count is shown, and no longer forfeited.
LEMMA BodyLand ==
  ASSUME RowInv, BodyInv, NEW call \in late, Land(call)
  PROVE  BodyInv'
<1>1. SameBodies
  BY DEF Land, memory, SameBodies, WaitingLogs, Recorded
<1>2. ASSUME NEW o \in Owners PROVE Tally(o)' = Tally(o)
  <2>1. drops \in [Owners -> Int] /\ shown \in [Owners -> Int] /\ forfeited \in [Owners -> Int]
    BY DEF RowInv, Typed
  <2>2. drops' = drops /\ (UNCHANGED <<shown, forfeited>>
          \/ \E c \in Owners \X Int : LandCount(c[1], c[2]))
    BY DEF Land, LandRows, LandBodies, RowInv, LateTyped
  <2>3. CASE UNCHANGED <<shown, forfeited>>
    BY <2>2, <2>3 DEF Tally
  <2>4. ASSUME NEW c \in Owners \X Int, LandCount(c[1], c[2]) PROVE Tally(o)' = Tally(o)
    <3> DEFINE d == drops[o]
               s == shown[o]
               f == forfeited[o]
               n == c[2]
    <3>1. n \in Int /\ d \in Int /\ s \in Int /\ f \in Int
      BY <2>1
    <3>2. \/ shown'[o] = s /\ forfeited'[o] = f
          \/ shown'[o] = s + n /\ forfeited'[o] = f - n
      BY <2>1, <2>4 DEF LandCount
    <3>3. Tally(o)' = d + shown'[o] + forfeited'[o] /\ Tally(o) = d + s + f
      BY <2>2 DEF Tally
    <3> HIDE DEF d, s, f, n
    <3> QED  BY <3>1, <3>2, <3>3
  <2> QED  BY <2>2, <2>3, <2>4
<1> QED  BY <1>1, <1>2, BodiesStay

-----------------------------------------------------------------------------
(* Bodies: the steps that move them. *)

\* The bodies in a sequence of one owner's.
LEMMA OneOwner ==
  ASSUME NEW s \in Seq(Bodies), IsInjective(s), NEW w, \A b \in ToSet(s) : OwnerOf[b[1]] = w,
         NEW o
  PROVE  Cardinality(OfOwner(ToSet(s), o)) = IF o = w THEN Len(s) ELSE 0
<1>1. CASE o = w
  <2>1. OfOwner(ToSet(s), o) = ToSet(s)
    BY <1>1 DEF OfOwner
  <2>2. Cardinality(ToSet(s)) = Len(s)
    BY InjectiveLen
  <2> QED  BY <1>1, <2>1, <2>2
<1>2. CASE o # w
  <2>1. OfOwner(ToSet(s), o) = {}
    BY <1>2 DEF OfOwner
  <2> QED  BY <1>2, <2>1, FS_EmptySet
<1> QED  BY <1>1, <1>2

\* No body is on its way when none is to be written.
LEMMA NoneRides == ASSUME flush.refs = <<>>, NEW o PROVE Riding(o) = 0
<1>1. OfOwner(ToSet(<<>>), o) = {}
  BY DEF OfOwner, ToSet
<1> QED  BY <1>1, FS_EmptySet DEF Riding

\* The same of the next state.
LEMMA NoneRidesNext == ASSUME flush'.refs = <<>>, NEW o PROVE Riding(o)' = 0
<1>1. OfOwner(ToSet(<<>>), o) = {}
  BY DEF OfOwner, ToSet
<1> QED  BY <1>1, FS_EmptySet DEF Riding

\* A group of log drafts leaves the drafts that wait.
LEMMA GroupLeaves ==
  ASSUME RowInv, BodyInv, Writing, flush.step = "logs", queue' = queue,
         flush'.step \in {"logs", "bodies"}, flush'.todo = Others(flush.todo)
  PROVE  LET G == ToSet(Group(flush.todo))
         IN  /\ G \subseteq WaitingLogs /\ G \subseteq Logs /\ WaitingLogs' = WaitingLogs \ G
             /\ \A l \in G : OwnerOf[l] = OwnerOf[Head(flush.todo)]
<1>1. Parts(Group(flush.todo), Others(flush.todo), flush.todo)
  BY GroupRows DEF RowInv
<1> DEFINE G == ToSet(Group(flush.todo))
           O == ToSet(Others(flush.todo))
<1>2. /\ ToSet(flush.todo) = G \cup O /\ G \cap O = {}
      /\ \A l \in G : OwnerOf[l] = OwnerOf[Head(flush.todo)]
  BY <1>1 DEF Parts
<1>3. ToSet(queue) \cap ToSet(flush.todo) = {} /\ ToSet(flush.todo) \subseteq Logs
  BY DEF RowInv, Placed, WritingLogs, Recorded
<1>4. WaitingLogs = ToSet(queue) \cup (G \cup O)
  BY <1>2 DEF WaitingLogs
<1>5. WaitingLogs' = ToSet(queue) \cup O
  BY DEF WaitingLogs
<1> HIDE DEF G, O
<1> QED  BY <1>2, <1>3, <1>4, <1>5 DEF G

\* The bodies of a group that was written are on their way.
LEMMA BodyWrite ==
  ASSUME RowInv, BodyInv, Write
  PROVE  BodyInv'
<1> DEFINE group == Group(flush.todo)
           refs  == RefsOf(group)
           G     == ToSet(group)
           w     == OwnerOf[Head(flush.todo)]
<1>1. /\ Writing /\ flush'.todo = Others(flush.todo)
      /\ flush'.step = (IF flush.step = "logs" THEN "bodies" ELSE flush.step)
      /\ flush'.refs = (IF flush.step = "logs" THEN refs ELSE <<>>)
      /\ UNCHANGED <<queue, carried, bytes, drops, shown, forfeited, saved>>
      /\ Recorded' = Recorded
  BY DEF Write, memory, Recorded, RowInv, Typed, FlushType
<1>2. flush.refs = <<>>
  BY <1>1 DEF Writing, RowInv, Placed
<1>3. \A o \in Owners : Tally(o)' = Tally(o)
  BY <1>1 DEF Tally
<1>4. CASE flush.step = "attempts"
  <2>1. WaitingLogs' = WaitingLogs /\ flush'.refs = flush.refs
    BY <1>1, <1>2, <1>4 DEF WaitingLogs
  <2> QED  BY <1>1, <1>3, <2>1, BodiesStay DEF SameBodies
<1>5. CASE flush.step = "logs"
  <2>1. /\ G \subseteq WaitingLogs /\ G \subseteq Logs /\ WaitingLogs' = WaitingLogs \ G
        /\ \A l \in G : OwnerOf[l] = w
    BY <1>1, <1>5, GroupLeaves
  <2>2. /\ refs \in Seq(Bodies) /\ IsInjective(refs)
        /\ \A b : b \in ToSet(refs) <=> b \in Bodies /\ b[1] \in G \cap carried
    <3>1. group \in Seq(Logs) /\ IsInjective(group)
      BY <1>1, GroupRows DEF RowInv, Parts
    <3> HIDE DEF group
    <3> QED  BY <3>1, RefsFacts
  <2>3. flush'.refs = refs /\ Carried'
    BY <1>1, <1>5 DEF Carried, BodyInv
  <2> HIDE DEF group, refs, G, w
  <2>4. \A b \in ToSet(refs) : OwnerOf[b[1]] = w
    BY <2>1, <2>2
  <2>5. InFlight'
    <3>1. \A b \in saved : b[1] \in Recorded \ WaitingLogs
      BY DEF BodyInv, InFlight
    <3>2. \A b \in ToSet(refs) : OwnerOf[b[1]] = OwnerOf[refs[1][1]]
      <4> SUFFICES ASSUME NEW b \in ToSet(refs) PROVE OwnerOf[b[1]] = OwnerOf[refs[1][1]]
        OBVIOUS
      <4>1. DOMAIN refs = 1 .. Len(refs) /\ Len(refs) \in Nat /\ DOMAIN refs # {}
        BY <2>2 DEF ToSet
      <4>2. 1 \in DOMAIN refs
        BY <4>1
      <4>3. refs[1] \in ToSet(refs)
        BY <4>2 DEF ToSet
      <4> QED  BY <2>4, <4>3
    <3> QED  BY <1>1, <2>1, <2>2, <2>3, <3>1, <3>2 DEF InFlight
  <2>6. ASSUME NEW o \in Owners
        PROVE  /\ Waiting(o)' + Riding(o)' = Waiting(o) + Riding(o)
               /\ Waiting(o)' \in Nat /\ Riding(o)' \in Nat
    <3> DEFINE U == WaitingLogs \cap carried
               V == G \cap carried
    <3>1. U \in SUBSET Logs /\ V \in SUBSET U /\ WaitingLogs' \cap carried' = U \ V
      BY <1>1, <2>1 DEF RowInv, Typed
    <3>2. OfOwner(ToSet(refs), o) = Owned(V, o)
      <4>1. V \in SUBSET Logs
        BY <3>1
      <4> HIDE DEF U
      <4>2. \A b : b \in Owned(V, o) <=> b \in Bodies /\ b[1] \in V /\ OwnerOf[b[1]] = o
        BY <4>1, OwnedFacts
      <4> QED  BY <2>2, <4>2 DEF OfOwner
    <3>3. Waiting(o) = CountOf(U, o) /\ Riding(o) = 0
      BY <1>2, NoneRides DEF Waiting
    <3> HIDE DEF U, V
    <3>4. /\ CountOf(U, o) \in Nat /\ CountOf(V, o) \in Nat
          /\ CountOf(U \ V, o) = CountOf(U, o) - CountOf(V, o) /\ CountOf(U \ V, o) \in Nat
      BY <3>1, CountLeft
    <3>5. Riding(o)' = CountOf(V, o)
      <4>1. V \in SUBSET Logs
        BY <3>1
      <4>2. CountOf(V, o) = Cardinality(Owned(V, o))
        BY <4>1, OwnedFacts
      <4> QED  BY <2>3, <3>2, <4>2 DEF Riding
    <3>6. Waiting(o)' = CountOf(U \ V, o)
      BY <3>1 DEF Waiting
    <3> QED  BY <3>3, <3>4, <3>5, <3>6
  <2>7. ASSUME NEW o \in Owners
        PROVE  CountOf(Recorded', o) = Waiting(o)' + Riding(o)' + Saved(o)' + Tally(o)'
    <3>1. Saved(o)' = Saved(o) /\ Tally(o)' = Tally(o) /\ Recorded' = Recorded
      BY <1>1, <1>3 DEF Saved
    <3>2. CountOf(Recorded, o) = Waiting(o) + Riding(o) + Saved(o) + Tally(o)
      BY DEF BodyInv, Ledger
    <3>3. Waiting(o) + Riding(o) + Saved(o) + Tally(o)
            = Waiting(o)' + Riding(o)' + Saved(o) + Tally(o)
      BY <2>6
    <3> QED  BY <3>1, <3>2, <3>3
  <2> QED  BY <2>3, <2>5, <2>7 DEF BodyInv, Ledger
<1> QED  BY <1>1, <1>4, <1>5 DEF Writing

\* The bodies of S leave the requests that carry bodies, and are counted.
LEMMA StrippedCounts ==
  ASSUME RowInv, NEW S, NEW o \in Owners
  PROVE  /\ CountOf(S \cap carried, o) \in Nat
         /\ Stripped(S)[o] = drops[o] + CountOf(S \cap carried, o)
<1> DEFINE V == S \cap carried
<1>1. V \in SUBSET Logs
  BY DEF RowInv, Typed
<1>2. Stripped(S)[o] = drops[o] + CountOf(V, o)
  BY DEF Stripped
<1> HIDE DEF V
<1>3. CountOf(V, o) \in Nat
  BY <1>1, OwnedFacts
<1> QED  BY <1>2, <1>3 DEF V

\* The bodies of a group that is given up are dropped and counted.
LEMMA BodyWriteFails ==
  ASSUME RowInv, BodyInv, WriteFails
  PROVE  BodyInv'
<1> DEFINE group == Group(flush.todo)
           G     == ToSet(group)
           gone  == IF flush.step = "logs" THEN G \cap carried ELSE {}
<1>1. /\ Writing /\ RetryOrGiveUp(group) /\ Recorded' = Recorded
      /\ UNCHANGED <<queue, saved, shown, forfeited>>
  BY DEF WriteFails, Recorded, database
<1>2. flush.refs = <<>> /\ flush \in FlushType
  BY <1>1 DEF Writing, RowInv, Placed, Typed
<1>3. CASE flush' = [flush EXCEPT !.tries = @ + 1] /\ UNCHANGED <<carried, bytes, drops>>
  <2>1. WaitingLogs' = WaitingLogs /\ flush'.refs = flush.refs
    BY <1>1, <1>2, <1>3 DEF WaitingLogs, FlushType
  <2>2. \A o \in Owners : Tally(o)' = Tally(o)
    BY <1>1, <1>3 DEF Tally
  <2> QED  BY <1>1, <1>3, <2>1, <2>2, BodiesStay DEF SameBodies
<1>4. CASE /\ flush' = [flush EXCEPT !.todo = Others(@), !.tries = 0]
           /\ carried' = carried \ gone /\ bytes' = bytes - BytesOf(gone)
           /\ drops' = Stripped(gone)
  <2>1. /\ flush'.todo = Others(flush.todo) /\ flush'.step = flush.step
        /\ flush'.refs = <<>>
    BY <1>2, <1>4 DEF FlushType
  <2>2. /\ gone \subseteq carried /\ gone \subseteq WaitingLogs
        /\ WaitingLogs' \cap (carried \ gone) = (WaitingLogs \cap carried) \ gone
        /\ WaitingLogs' \subseteq WaitingLogs
    <3>1. CASE flush.step = "logs"
      <4>1. G \subseteq WaitingLogs /\ WaitingLogs' = WaitingLogs \ G
        BY <1>1, <2>1, <3>1, GroupLeaves
      <4> HIDE DEF G
      <4> QED  BY <3>1, <4>1
    <3>2. CASE flush.step = "attempts"
      <4>1. WaitingLogs' = WaitingLogs
        BY <1>1, <2>1, <3>2 DEF WaitingLogs
      <4> QED  BY <3>2, <4>1
    <3> QED  BY <1>1, <3>1, <3>2 DEF Writing
  <2> HIDE DEF gone, G, group
  <2>3. Carried'
    <3>1. carried \in SUBSET Logs /\ gone \in SUBSET carried
      BY <2>2 DEF RowInv, Typed
    <3>2. /\ BytesOf(carried \ gone) = BytesOf(carried) - BytesOf(gone)
          /\ BytesOf(gone) \in Nat /\ BytesOf(carried) \in Nat
      BY <3>1, BytesLeft
    <3>3. bytes = BytesOf(carried) /\ bytes <= QueueBudget /\ carried \subseteq Recorded
      BY DEF BodyInv, Carried
    <3>4. bytes - BytesOf(gone) <= QueueBudget
      BY <3>2, <3>3, LogWriterAssumption
    <3> QED  BY <1>1, <1>4, <3>2, <3>3, <3>4 DEF Carried
  <2>4. InFlight'
    <3>1. \A b \in saved : b[1] \in Recorded \ WaitingLogs
      BY DEF BodyInv, InFlight
    <3>2. ToSet(flush'.refs) = {}
      BY <2>1 DEF ToSet
    <3> QED  BY <1>1, <2>2, <3>1, <3>2 DEF InFlight
  <2>5. ASSUME NEW o \in Owners
        PROVE  CountOf(Recorded', o) = Waiting(o)' + Riding(o)' + Saved(o)' + Tally(o)'
    <3> DEFINE U == WaitingLogs \cap carried
               s == shown[o]
               f == forfeited[o]
               d == drops[o]
               v == Saved(o)
    <3>1. U \in SUBSET Logs /\ gone \in SUBSET U
      BY <2>2 DEF RowInv, Typed
    <3>2. Waiting(o)' = CountOf(U \ gone, o) /\ Waiting(o) = CountOf(U, o)
      BY <1>4, <2>2 DEF Waiting
    <3> HIDE DEF U
    <3>3. /\ CountOf(U \ gone, o) = CountOf(U, o) - CountOf(gone, o)
          /\ CountOf(U, o) \in Nat /\ CountOf(gone, o) \in Nat
      BY <3>1, CountLeft
    <3>4. drops'[o] = d + CountOf(gone, o)
      <4>1. gone \cap carried = gone
        BY <2>2
      <4> QED  BY <1>4, <4>1, StrippedCounts
    <3>5. Riding(o) = 0 /\ Riding(o)' = 0
      BY <1>2, <2>1, NoneRides, NoneRidesNext
    <3>6. v \in Nat /\ s \in Int /\ f \in Int /\ d \in Int
      BY BodyTypes
    <3>7. Tally(o) = d + s + f /\ Tally(o)' = drops'[o] + s + f
      BY <1>1 DEF Tally
    <3>8. CountOf(Recorded, o) = Waiting(o) + Riding(o) + v + Tally(o)
      BY DEF BodyInv, Ledger
    <3>9. Recorded' = Recorded /\ Saved(o)' = v
      BY <1>1 DEF Saved
    <3> DEFINE a == CountOf(U, o)
               g == CountOf(gone, o)
    <3>10. a \in Nat /\ g \in Nat /\ Waiting(o)' = a - g /\ Waiting(o) = a /\ drops'[o] = d + g
      BY <3>2, <3>3, <3>4
    <3> HIDE DEF s, f, d, v, a, g
    <3>11. Waiting(o) + Riding(o) + v + Tally(o) = Waiting(o)' + Riding(o)' + v + Tally(o)'
      BY <3>5, <3>6, <3>7, <3>10
    <3> QED  BY <3>8, <3>9, <3>11
  <2> QED  BY <2>3, <2>4, <2>5 DEF BodyInv, Ledger
<1> QED  BY <1>1, <1>3, <1>4 DEF RetryOrGiveUp

\* The requests whose bodies are on their way let go of some of them.
LEMMA RidersLetGo ==
  ASSUME RowInv, BodyInv, WaitingLogs' = WaitingLogs, Recorded' = Recorded,
         NEW S \in SUBSET {b[1] : b \in ToSet(flush.refs)},
         carried' = carried \ S, bytes' = bytes - BytesOf(S)
  PROVE  Carried' /\ \A o \in Owners : Waiting(o)' = Waiting(o)
<1>1. S \subseteq carried \ WaitingLogs
  BY DEF BodyInv, InFlight
<1>2. carried \in SUBSET Logs /\ S \in SUBSET carried
  BY <1>1 DEF RowInv, Typed
<1>3. /\ BytesOf(carried \ S) = BytesOf(carried) - BytesOf(S)
      /\ BytesOf(S) \in Nat /\ BytesOf(carried) \in Nat
  BY <1>2, BytesLeft
<1>4. bytes = BytesOf(carried) /\ bytes <= QueueBudget /\ carried \subseteq Recorded
  BY DEF BodyInv, Carried
<1>5. bytes - BytesOf(S) <= QueueBudget
  BY <1>3, <1>4, LogWriterAssumption
<1>6. Carried'
  BY <1>3, <1>4, <1>5 DEF Carried
<1>7. WaitingLogs' \cap carried' = WaitingLogs \cap carried
  BY <1>1
<1> QED  BY <1>6, <1>7 DEF Waiting

\* A chunk of bodies is saved, or discarded and counted.
LEMMA BodyWriteBodies ==
  ASSUME RowInv, BodyInv, WriteBodies
  PROVE  BodyInv'
<1> DEFINE refs  == flush.refs
           chunk == Chunk(refs)
           rest  == SubSeq(refs, Len(chunk) + 1, Len(refs))
           done  == {b[1] : b \in ToSet(chunk)} \ {b[1] : b \in ToSet(rest)}
           taken == {b \in ToSet(chunk) : Live(b)}
           w     == OwnerOf[chunk[1][1]]
<1>1. /\ refs # <<>> /\ flush.step = "bodies" /\ flush' = [flush EXCEPT !.refs = rest]
      /\ saved' = saved \cup taken
      /\ drops' = [drops EXCEPT ![w] = @ + Len(chunk) - Cardinality(taken)]
      /\ carried' = carried \ done /\ bytes' = bytes - BytesOf(done)
      /\ UNCHANGED <<queue, shown, forfeited>> /\ Recorded' = Recorded
  BY DEF WriteBodies, Recorded
<1>2. /\ refs \in Seq(Bodies) /\ IsInjective(refs) /\ flush \in FlushType
  BY FlushFields DEF RowInv, Typed, Placed
<1>3. /\ Cut(chunk, rest, refs, Len(chunk), Bodies)
      /\ chunk[1] = refs[1] /\ refs[1] \in ToSet(refs) /\ ToSet(refs) \subseteq Bodies
  BY <1>1, RefsParts DEF RowInv
<1>4. flush'.step = "bodies" /\ flush'.todo = flush.todo /\ flush'.refs = rest
  BY <1>1, <1>2 DEF FlushType
<1>5. WaitingLogs' = WaitingLogs
  BY <1>1, <1>4 DEF WaitingLogs
<1>6. /\ \A b \in ToSet(refs) : /\ b[1] \in carried \ WaitingLogs /\ b \notin saved
                                 /\ OwnerOf[b[1]] = w
      /\ \A b \in saved : b[1] \in Recorded \ WaitingLogs
  BY <1>3 DEF BodyInv, InFlight
<1>7. done \in SUBSET {b[1] : b \in ToSet(refs)} /\ taken \subseteq ToSet(chunk)
  BY <1>3 DEF Cut
<1>8. Carried' /\ \A o \in Owners : Waiting(o)' = Waiting(o)
  <2> HIDE DEF done
  <2> QED  BY <1>1, <1>5, <1>7, RidersLetGo
<1>9. w \in Owners
  BY <1>3, BodyOwner
<1>10. \A b \in ToSet(rest) : b[1] \in carried'
  <2>1. \A b \in ToSet(rest) : b[1] \in carried /\ b[1] \notin done
    BY <1>3, <1>6 DEF Cut
  <2> HIDE DEF done
  <2> QED  BY <1>1, <2>1
<1> HIDE DEF w, done, taken, chunk
<1>11. InFlight'
  <2>1. ASSUME NEW b \in ToSet(rest)
        PROVE  /\ b[1] \in carried' \ WaitingLogs /\ b \notin saved'
               /\ OwnerOf[b[1]] = OwnerOf[rest[1][1]]
    <3>1. b \in ToSet(refs) /\ b \notin ToSet(chunk)
      BY <1>3 DEF Cut
    <3>2. rest[1] \in ToSet(rest)
      <4>1. DOMAIN rest = 1 .. Len(rest) /\ Len(rest) \in Nat /\ DOMAIN rest # {}
        BY <1>3, <2>1 DEF Cut, ToSet
      <4>2. 1 \in DOMAIN rest
        BY <4>1
      <4> QED  BY <4>2 DEF ToSet
    <3>3. OwnerOf[b[1]] = w /\ OwnerOf[rest[1][1]] = w
      BY <1>3, <1>6, <3>1, <3>2 DEF Cut
    <3> QED  BY <1>1, <1>6, <1>7, <1>10, <3>1, <3>3
  <2>2. ASSUME NEW b \in saved' PROVE b[1] \in Recorded \ WaitingLogs
    <3>1. CASE b \in saved
      BY <1>6, <3>1
    <3>2. CASE b \in taken
      <4>1. b \in ToSet(refs)
        BY <1>3, <1>7, <3>2 DEF Cut
      <4> QED  BY <1>6, <4>1 DEF BodyInv, Carried
    <3> QED  BY <1>1, <2>2, <3>1, <3>2
  <2> HIDE DEF rest
  <2> QED  BY <1>1, <1>4, <1>5, <2>1, <2>2 DEF InFlight
<1>12. IsFiniteSet(taken) /\ Cardinality(taken) \in Nat
  <2>1. taken \subseteq Bodies
    BY <1>3, <1>7 DEF Cut
  <2> QED  BY <2>1, BodiesFinite, FS_Subset, FS_CardinalityType
<1>13. ASSUME NEW o \in Owners
       PROVE  CountOf(Recorded', o) = Waiting(o)' + Riding(o)' + Saved(o)' + Tally(o)'
  <2> DEFINE t == Cardinality(taken)
             c == Len(chunk)
             r == Len(refs)
             v == Saved(o)
             d == drops[o]
             s == shown[o]
             f == forfeited[o]
             a == Waiting(o)
  <2>1. t \in Nat /\ c \in Nat /\ r \in Nat /\ Len(rest) = r - c
    <3>1. c \in Nat
      BY <1>3 DEF Cut
    <3> QED  BY <1>2, <1>3, <1>12, <3>1 DEF Cut
  <2>2. v \in Nat /\ d \in Int /\ s \in Int /\ f \in Int /\ a \in Nat
    BY BodyTypes
  <2>3. Riding(o) = (IF o = w THEN r ELSE 0) /\ Riding(o)' = (IF o = w THEN r - c ELSE 0)
    <3>1. Riding(o) = IF o = w THEN r ELSE 0
      BY <1>2, <1>6, OneOwner DEF Riding
    <3>2. /\ rest \in Seq(Bodies) /\ IsInjective(rest)
          /\ \A b \in ToSet(rest) : OwnerOf[b[1]] = w
      BY <1>3, <1>6 DEF Cut
    <3> HIDE DEF rest
    <3>3. Cardinality(OfOwner(ToSet(rest), o)) = IF o = w THEN Len(rest) ELSE 0
      BY <3>2, OneOwner
    <3> QED  BY <1>4, <2>1, <3>1, <3>3 DEF Riding
  <2>4. Saved(o)' = v + (IF o = w THEN t ELSE 0)
    <3> DEFINE A == OfOwner(saved, o)
               B == OfOwner(taken, o)
    <3>1. OfOwner(saved', o) = A \cup B
      BY <1>1 DEF OfOwner
    <3>2. A \cap B = {}
      BY <1>3, <1>6, <1>7 DEF Cut, OfOwner
    <3>3. IsFiniteSet(A) /\ IsFiniteSet(B)
      <4>1. IsFiniteSet(saved)
        BY BodyTypes
      <4>2. A \subseteq saved /\ B \subseteq taken
        BY DEF OfOwner
      <4> HIDE DEF A, B
      <4> QED  BY <1>12, <4>1, <4>2, FS_Subset
    <3>4. Cardinality(B) = IF o = w THEN t ELSE 0
      <4>1. \A b \in taken : OwnerOf[b[1]] = w
        BY <1>3, <1>6, <1>7 DEF Cut
      <4>2. CASE o = w
        <5>1. B = taken
          BY <4>1, <4>2 DEF OfOwner
        <5> QED  BY <4>2, <5>1
      <4>3. CASE o # w
        <5>1. B = {}
          BY <4>1, <4>3 DEF OfOwner
        <5> QED  BY <4>3, <5>1, FS_EmptySet
      <4> QED  BY <4>2, <4>3
    <3>5. Saved(o) = Cardinality(A) /\ Saved(o)' = Cardinality(A \cup B)
      BY <3>1 DEF Saved
    <3> HIDE DEF A, B, t
    <3>6. Cardinality(A \cup B) = Cardinality(A) + Cardinality(B)
      BY <3>2, <3>3, DisjointUnion
    <3> QED  BY <3>4, <3>5, <3>6
  <2>5. drops'[o] = IF o = w THEN d + c - t ELSE d
    BY <1>1, <1>9 DEF RowInv, Typed
  <2>6. Tally(o) = d + s + f /\ Tally(o)' = drops'[o] + s + f
    BY <1>1 DEF Tally
  <2>7. CountOf(Recorded, o) = a + Riding(o) + v + Tally(o)
    BY DEF BodyInv, Ledger
  <2>8. Recorded' = Recorded /\ Waiting(o)' = a
    BY <1>1, <1>8
  <2> HIDE DEF t, c, r, v, d, s, f, a, rest, refs
  <2>9. a + Riding(o) + v + Tally(o) = a + Riding(o)' + Saved(o)' + Tally(o)'
    <3>1. CASE o = w
      BY <2>1, <2>2, <2>3, <2>4, <2>5, <2>6, <3>1
    <3>2. CASE o # w
      BY <2>2, <2>3, <2>4, <2>5, <2>6, <3>2
    <3> QED  BY <3>1, <3>2
  <2> QED  BY <2>7, <2>8, <2>9
<1> QED  BY <1>8, <1>11, <1>13 DEF BodyInv, Ledger

\* The bodies that were not settled are dropped and counted.
LEMMA BodyBodiesFail ==
  ASSUME RowInv, BodyInv, BodiesFail
  PROVE  BodyInv'
<1> DEFINE refs == flush.refs
           gone == {b[1] : b \in ToSet(refs)}
           w    == OwnerOf[refs[1][1]]
<1>1. /\ refs # <<>> /\ flush.step = "bodies" /\ flush' = [flush EXCEPT !.refs = <<>>]
      /\ drops' = [drops EXCEPT ![w] = @ + Len(refs)]
      /\ carried' = carried \ gone /\ bytes' = bytes - BytesOf(gone)
      /\ UNCHANGED <<queue, saved, shown, forfeited>> /\ Recorded' = Recorded
  BY DEF BodiesFail, Unsettled, database, Recorded
<1>2. /\ refs \in Seq(Bodies) /\ IsInjective(refs) /\ flush \in FlushType
  BY FlushFields DEF RowInv, Typed, Placed
<1>3. refs[1] \in ToSet(refs) /\ ToSet(refs) \subseteq Bodies
  BY <1>1, RefsParts DEF RowInv
<1>4. flush'.step = "bodies" /\ flush'.todo = flush.todo /\ flush'.refs = <<>>
  BY <1>1, <1>2 DEF FlushType
<1>5. WaitingLogs' = WaitingLogs
  BY <1>1, <1>4 DEF WaitingLogs
<1>6. Carried' /\ \A o \in Owners : Waiting(o)' = Waiting(o)
  <2>1. gone \in SUBSET {b[1] : b \in ToSet(refs)}
    OBVIOUS
  <2> HIDE DEF gone
  <2> QED  BY <1>1, <1>5, <2>1, RidersLetGo
<1>7. InFlight'
  <2>1. ToSet(flush'.refs) = {}
    BY <1>4 DEF ToSet
  <2> QED  BY <1>1, <1>5, <2>1 DEF BodyInv, InFlight
<1>8. w \in Owners /\ \A b \in ToSet(refs) : OwnerOf[b[1]] = w
  BY <1>3, BodyOwner DEF BodyInv, InFlight
<1>9. ASSUME NEW o \in Owners
      PROVE  CountOf(Recorded', o) = Waiting(o)' + Riding(o)' + Saved(o)' + Tally(o)'
  <2> DEFINE r == Len(refs)
             v == Saved(o)
             d == drops[o]
             s == shown[o]
             f == forfeited[o]
             a == Waiting(o)
  <2> HIDE DEF w
  <2>1. v \in Nat /\ d \in Int /\ s \in Int /\ f \in Int /\ a \in Nat /\ r \in Nat
    BY <1>2, BodyTypes
  <2>2. Riding(o) = IF o = w THEN r ELSE 0
    BY <1>2, <1>8, OneOwner DEF Riding
  <2>3. Riding(o)' = 0
    BY <1>4, NoneRidesNext
  <2>4. drops'[o] = IF o = w THEN d + r ELSE d
    BY <1>1, <1>8 DEF RowInv, Typed
  <2>5. Tally(o) = d + s + f /\ Tally(o)' = drops'[o] + s + f
    BY <1>1 DEF Tally
  <2>6. CountOf(Recorded, o) = a + Riding(o) + v + Tally(o)
    BY DEF BodyInv, Ledger
  <2>7. Recorded' = Recorded /\ Waiting(o)' = a /\ Saved(o)' = v
    BY <1>1, <1>6 DEF Saved
  <2> HIDE DEF r, v, d, s, f, a, refs
  <2>8. a + Riding(o) + v + Tally(o) = a + Riding(o)' + v + Tally(o)'
    <3>1. CASE o = w
      BY <2>1, <2>2, <2>3, <2>4, <2>5, <3>1
    <3>2. CASE o # w
      BY <2>1, <2>2, <2>3, <2>4, <2>5, <3>2
    <3> QED  BY <3>1, <3>2
  <2> QED  BY <2>6, <2>7, <2>8
<1> QED  BY <1>6, <1>7, <1>9 DEF BodyInv, Ledger

\* The drafts that stay in the queue when one is recorded, and the one evicted.
Kept == IF Len(queue) >= MaxQueue THEN Tail(queue) ELSE queue
Evicted == IF Len(queue) >= MaxQueue THEN {Head(queue)} ELSE {}

\* The one evicted is the oldest.
LEMMA KeptFacts ==
  ASSUME RowInv
  PROVE  /\ Kept \in Seq(Logs) /\ IsInjective(Kept) /\ ToSet(queue) = Evicted \cup ToSet(Kept)
         /\ Evicted \cap ToSet(Kept) = {}
<1>1. /\ queue \in Seq(Logs) /\ IsInjective(queue) /\ MaxQueue \in Nat \ {0}
  BY LogWriterAssumption DEF RowInv, Typed, Placed
<1>2. CASE Len(queue) >= MaxQueue
  <2>1. queue # <<>>
    BY <1>1, <1>2
  <2>2. /\ Tail(queue) \in Seq(Logs) /\ IsInjective(Tail(queue))
        /\ Head(queue) \notin ToSet(Tail(queue))
        /\ ToSet(queue) = {Head(queue)} \cup ToSet(Tail(queue))
    BY <1>1, <2>1, TailFacts
  <2> QED  BY <1>2, <2>2 DEF Kept, Evicted
<1>3. CASE ~ (Len(queue) >= MaxQueue)
  BY <1>1, <1>3 DEF Kept, Evicted
<1> QED  BY <1>2, <1>3

\* What a new request strips of its bodies is queued.
LEMMA StrippedQueued ==
  ASSUME RowInv, NEW l \in Logs, Record(l), NEW held, NEW incoming,
         NEW gone, gone = {} \/ gone = Evictable(Kept, held, incoming)
  PROVE  /\ Evicted \subseteq WaitingLogs /\ gone \subseteq WaitingLogs
         /\ Evicted \cap gone = {}
         /\ WaitingLogs' = (WaitingLogs \ Evicted) \cup {l}
         /\ Recorded' = Recorded \cup {l} /\ l \in Logs \ Recorded
<1>1. phase[l] = "open" /\ phase' = [phase EXCEPT ![l] = "recorded"] /\ flush' = flush
  BY DEF Record
<1>2. queue' = Append(Kept, l)
  BY DEF Record, Kept
<1>3. Recorded' = Recorded \cup {l} /\ l \in Logs \ Recorded
  BY <1>1 DEF Recorded, RowInv, Typed
<1>4. /\ Kept \in Seq(Logs) /\ IsInjective(Kept) /\ ToSet(queue) = Evicted \cup ToSet(Kept)
      /\ Evicted \cap ToSet(Kept) = {}
  BY KeptFacts
<1>5. l \notin ToSet(Kept) /\ l \in Logs
  BY <1>3, <1>4 DEF RowInv, Placed
<1>6. ToSet(queue') = ToSet(Kept) \cup {l}
  BY <1>2, <1>4, <1>5, AppendFacts
<1>7. gone \subseteq ToSet(Kept)
  BY <1>4, EvictableFacts
<1>8. WritingLogs => ToSet(queue) \cap ToSet(flush.todo) = {}
  BY DEF RowInv, Placed
<1>9. WaitingLogs' = (WaitingLogs \ Evicted) \cup {l}
  BY <1>1, <1>4, <1>6, <1>8 DEF WaitingLogs, WritingLogs
<1> QED  BY <1>3, <1>4, <1>7, <1>9 DEF WaitingLogs

\* A request is recorded: the bodies it strips, and its own if they find no room,
\* are counted.
LEMMA BodyRecord ==
  ASSUME RowInv, BodyInv, NEW l \in Logs, Record(l)
  PROVE  BodyInv'
<1> DEFINE incoming == BytesOf({l})
           held     == bytes - BytesOf(Evicted \cap carried)
           gone     == IF incoming > QueueBudget \/ Sizes[l] = <<>> THEN {}
                       ELSE Evictable(Kept, held, incoming)
           left     == held - BytesOf(gone \cap carried)
           admitted == Sizes[l] # <<>> /\ Admitted(left, incoming)
           strip    == Evicted \cup gone
           new      == IF admitted THEN {l} ELSE {}
<1>1. /\ carried' = (carried \ strip) \cup new
      /\ bytes' = IF admitted THEN left + incoming ELSE left
      /\ drops' = [o \in Owners |-> Stripped(strip)[o]
                                    + (IF admitted THEN 0 ELSE CountOf({l}, o))]
      /\ UNCHANGED <<flush, saved, shown, forfeited>>
  BY DEF Record, database, Kept, Evicted
<1>2. gone = {} \/ gone = Evictable(Kept, held, incoming)
  OBVIOUS
<1>3. admitted => left + incoming <= QueueBudget
  BY DEF Admitted
<1>4. held = bytes - BytesOf(Evicted \cap carried)
      /\ left = held - BytesOf(gone \cap carried) /\ incoming = BytesOf({l})
  OBVIOUS
<1>5. /\ Evicted \subseteq WaitingLogs /\ gone \subseteq WaitingLogs /\ Evicted \cap gone = {}
      /\ WaitingLogs' = (WaitingLogs \ Evicted) \cup {l}
      /\ Recorded' = Recorded \cup {l} /\ l \in Logs \ Recorded
  <2> HIDE DEF held, incoming, gone
  <2> QED  BY <1>2, StrippedQueued
<1> HIDE DEF incoming, held, gone, left, admitted
<1>6. /\ carried \subseteq Recorded /\ carried \in SUBSET Logs /\ l \notin carried
      /\ bytes = BytesOf(carried) /\ bytes <= QueueBudget /\ WaitingLogs \subseteq Recorded
  <2>1. WaitingLogs \subseteq Recorded
    BY DEF RowInv, Placed, WaitingLogs
  <2> QED  BY <1>5, <2>1 DEF BodyInv, Carried, RowInv, Typed
<1>7. Carried'
  <2> DEFINE A == Evicted \cap carried
             B == gone \cap carried
             D == carried \ strip
  <2>1. A \in SUBSET carried /\ B \in SUBSET (carried \ A) /\ D = (carried \ A) \ B
    BY <1>5
  <2>2. D \in SUBSET Logs /\ {l} \in SUBSET Logs /\ D \cap {l} = {} /\ D \subseteq Recorded
    BY <1>6
  <2> HIDE DEF A, B, D
  <2>3. BytesOf(carried \ A) = BytesOf(carried) - BytesOf(A)
        /\ BytesOf(A) \in Nat /\ BytesOf(carried) \in Nat
    BY <1>6, <2>1, BytesLeft
  <2>4. BytesOf(D) = BytesOf(carried \ A) - BytesOf(B) /\ BytesOf(B) \in Nat
    <3>1. carried \ A \in SUBSET Logs
      BY <1>6
    <3> QED  BY <2>1, <3>1, BytesLeft
  <2>5. BytesOf(D \cup {l}) = BytesOf(D) + incoming /\ incoming \in Nat /\ BytesOf(D) \in Nat
    BY <1>4, <2>2, BytesAdd
  <2>6. left = BytesOf(D)
    BY <1>4, <1>6, <2>3, <2>4 DEF A, B
  <2>7. left <= QueueBudget
    BY <1>6, <2>3, <2>4, <2>6, LogWriterAssumption
  <2>8. CASE admitted
    <3>1. carried' = D \cup {l} /\ bytes' = left + incoming
      BY <1>1, <2>8 DEF D
    <3> QED  BY <1>3, <1>5, <2>2, <2>5, <2>6, <2>8, <3>1 DEF Carried
  <2>9. CASE ~ admitted
    <3>1. carried' = D /\ bytes' = left
      BY <1>1, <2>9 DEF D
    <3> QED  BY <1>5, <2>2, <2>6, <2>7, <3>1 DEF Carried
  <2> QED  BY <2>8, <2>9
<1>8. InFlight'
  <2>1. \A b \in ToSet(flush.refs) :
           /\ b[1] \in carried \ WaitingLogs /\ b \notin saved
           /\ OwnerOf[b[1]] = OwnerOf[flush.refs[1][1]]
    BY DEF BodyInv, InFlight
  <2>2. \A b \in saved : b[1] \in Recorded \ WaitingLogs
    BY DEF BodyInv, InFlight
  <2>3. \A b \in ToSet(flush.refs) : b[1] \in carried' \ WaitingLogs'
    BY <1>1, <1>5, <1>6, <2>1
  <2>4. \A b \in saved : b[1] \in Recorded' \ WaitingLogs'
    BY <1>5, <2>2
  <2> QED  BY <1>1, <2>1, <2>3, <2>4 DEF InFlight
<1>9. ASSUME NEW o \in Owners
      PROVE  CountOf(Recorded', o) = Waiting(o)' + Riding(o)' + Saved(o)' + Tally(o)'
  <2> DEFINE U == WaitingLogs \cap carried
             V == strip \cap carried
             W == U \ V
             a == CountOf(U, o)
             g == CountOf(V, o)
             L == {l}
             n == CountOf(L, o)
             c == CountOf(Recorded, o)
             r == Riding(o)
             v == Saved(o)
             d == drops[o]
             s == shown[o]
             f == forfeited[o]
  <2>1. /\ U \in SUBSET Logs /\ V \in SUBSET U /\ W \in SUBSET Logs
        /\ L \in SUBSET Logs /\ W \cap L = {} /\ Recorded \in SUBSET Logs
        /\ Recorded \cap L = {} /\ W = U \ V /\ Recorded' = Recorded \cup L
    BY <1>5, <1>6 DEF Recorded
  <2>2. WaitingLogs' \cap carried' = W \cup new
    BY <1>1, <1>5, <1>6
  <2>3. drops'[o] = d + g + (IF admitted THEN 0 ELSE n)
    <3>1. Stripped(strip)[o] = drops[o] + CountOf(strip \cap carried, o)
      BY StrippedCounts
    <3> QED  BY <1>1, <3>1
  <2>4. Waiting(o) = a
    BY DEF Waiting
  <2>5. r \in Nat /\ v \in Nat /\ d \in Int /\ s \in Int /\ f \in Int
    BY BodyTypes
  <2> HIDE DEF U, V, W, L
  <2>6. a \in Nat /\ g \in Nat /\ CountOf(W, o) = a - g /\ CountOf(W, o) \in Nat
    <3>1. U \in SUBSET Logs /\ V \in SUBSET U /\ W = U \ V
      BY <2>1
    <3>2. /\ CountOf(U, o) \in Nat /\ CountOf(V, o) \in Nat /\ CountOf(U \ V, o) \in Nat
          /\ CountOf(U \ V, o) = CountOf(U, o) - CountOf(V, o)
      BY <3>1, CountLeft
    <3> QED  BY <3>1, <3>2
  <2>7. n \in Nat /\ CountOf(W \cup L, o) = CountOf(W, o) + n
    <3>1. Apart(W, L)
      BY <2>1 DEF Apart
    <3> QED  BY <3>1, CountAdd
  <2>8. c \in Nat /\ CountOf(Recorded', o) = c + n
    <3>1. Apart(Recorded, L)
      BY <2>1 DEF Apart
    <3>2. CountOf(Recorded \cup L, o) = c + n /\ c \in Nat
      BY <3>1, CountAdd
    <3> QED  BY <2>1, <3>2
  <2>9. Waiting(o)' = IF admitted THEN (a - g) + n ELSE a - g
    <3>1. CASE admitted
      <4>1. WaitingLogs' \cap carried' = W \cup L
        BY <2>2, <3>1 DEF L
      <4> QED  BY <2>6, <2>7, <3>1, <4>1 DEF Waiting
    <3>2. CASE ~ admitted
      <4>1. WaitingLogs' \cap carried' = W
        BY <2>2, <3>2
      <4> QED  BY <2>6, <3>2, <4>1 DEF Waiting
    <3> QED  BY <3>1, <3>2
  <2>10. Riding(o)' = r /\ Saved(o)' = v
    BY <1>1 DEF Riding, Saved
  <2>11. Tally(o) = d + s + f /\ Tally(o)' = drops'[o] + s + f
    BY <1>1 DEF Tally
  <2>12. c = a + r + v + Tally(o)
    BY <2>4 DEF BodyInv, Ledger
  <2> HIDE DEF a, g, n, c, r, v, d, s, f
  <2>13. c + n = Waiting(o)' + r + v + Tally(o)'
    <3>1. CASE admitted
      BY <2>3, <2>5, <2>6, <2>7, <2>8, <2>9, <2>11, <2>12, <3>1
    <3>2. CASE ~ admitted
      BY <2>3, <2>5, <2>6, <2>7, <2>8, <2>9, <2>11, <2>12, <3>2
    <3> QED  BY <3>1, <3>2
  <2> QED  BY <2>8, <2>10, <2>13
<1> QED  BY <1>7, <1>8, <1>9 DEF BodyInv, Ledger

\* The invariant of the bodies holds at the start.
LEMMA BodyInit == Init => BodyInv
<1> SUFFICES ASSUME Init PROVE BodyInv
  OBVIOUS
<1>1. ToSet(<<>>) = {}
  BY DEF ToSet
<1>2. /\ Recorded = {} /\ WaitingLogs = {} /\ carried = {} /\ bytes = 0 /\ saved = {}
      /\ flush.refs = <<>>
  BY <1>1, IdleType DEF Init, Recorded, WaitingLogs
<1>3. \A o \in Owners : drops[o] = 0 /\ shown[o] = 0 /\ forfeited[o] = 0
  BY DEF Init
<1>4. Carried
  BY <1>2, NothingCounts, LogWriterAssumption DEF Carried
<1>5. InFlight
  BY <1>1, <1>2 DEF InFlight
<1>6. ASSUME NEW o \in Owners
      PROVE  CountOf(Recorded, o) = Waiting(o) + Riding(o) + Saved(o) + Tally(o)
  <2>1. CountOf(Recorded, o) = 0
    BY <1>2, NothingCounts
  <2>2. Waiting(o) = 0
    <3>1. WaitingLogs \cap carried = {}
      BY <1>2
    <3> QED  BY <3>1, NothingCounts DEF Waiting
  <2>3. Riding(o) = 0
    BY <1>2, NoneRides
  <2>4. Saved(o) = 0
    <3>1. OfOwner(saved, o) = {}
      BY <1>2 DEF OfOwner
    <3> QED  BY <3>1, FS_EmptySet DEF Saved
  <2>5. Tally(o) = 0
    BY <1>3 DEF Tally
  <2> QED  BY <2>1, <2>2, <2>3, <2>4, <2>5
<1> QED  BY <1>4, <1>5, <1>6 DEF BodyInv, Ledger

\* Every step keeps the bodies accounted for.
LEMMA BodyStep ==
  ASSUME RowInv, BodyInv, [Next]_vars
  PROVE  BodyInv'
<1>1. ASSUME NEW l \in Logs, Record(l) PROVE BodyInv'
  BY <1>1, BodyRecord
<1>2. ASSUME NEW call \in late, Land(call) PROVE BodyInv'
  BY <1>2, BodyLand
<1>3. Outside \/ UNCHANGED vars \/ Flush \/ EndLogs \/ EndAttempts \/ EndBodies => BodyInv'
  BY BodyStays
<1>4. Write \/ WriteFails \/ WriteBodies \/ BodiesFail \/ Counts => BodyInv'
  BY BodyWrite, BodyWriteFails, BodyWriteBodies, BodyBodiesFail, BodyCounts
<1> QED  BY <1>1, <1>2, <1>3, <1>4, StepKinds

-----------------------------------------------------------------------------
(* Counts: what was given up is what the calls that may still land would add. *)

\* The calls that add to the visible counts.
CountCalls == {<<k, "count", {<<o, n>>}>> : k \in Nat, o \in Owners, n \in Nat}

\* What a call would add to the count of o.
Adds(o) ==
  [call \in CountCalls |->
    LET c == CHOOSE c \in call[3] : TRUE IN IF c[1] = o THEN c[2] ELSE 0]

LateCounts == {call \in late : call[2] = "count"}

\* No count is negative, and each call that is out there stands for what was
\* given up with it.
Owed ==
  /\ LateCounts \subseteq CountCalls /\ IsFiniteSet(LateCounts)
  /\ faults \in Nat /\ \A call \in LateCounts : call[1] < faults
  /\ \A o \in Owners :
       drops[o] \in Nat /\ shown[o] \in Nat /\ forfeited[o] = SumOf(Adds(o), LateCounts)

\* What one call adds.
LEMMA AddsOne ==
  ASSUME NEW k \in Nat, NEW p \in Owners, NEW n \in Nat, NEW o
  PROVE  /\ <<k, "count", {<<p, n>>}>> \in CountCalls
         /\ Adds(o)[<<k, "count", {<<p, n>>}>>] = IF p = o THEN n ELSE 0
<1> DEFINE call == <<k, "count", {<<p, n>>}>>
<1>1. call \in CountCalls
  BY DEF CountCalls
<1>2. call[3] = {<<p, n>>}
  OBVIOUS
<1>3. (CHOOSE c \in {<<p, n>>} : TRUE) = <<p, n>>
  OBVIOUS
<1> HIDE DEF call
<1>4. Adds(o)[call] = LET c == CHOOSE c \in call[3] : TRUE IN IF c[1] = o THEN c[2] ELSE 0
  BY <1>1 DEF Adds
<1>5. Adds(o)[call] = IF p = o THEN n ELSE 0
  BY <1>2, <1>3, <1>4
<1> QED  BY <1>1, <1>5 DEF call

\* The calls that are out there add natural numbers.
LEMMA AddsType == ASSUME NEW o PROVE \A call \in CountCalls : Adds(o)[call] \in Nat
<1> SUFFICES ASSUME NEW call \in CountCalls PROVE Adds(o)[call] \in Nat
  OBVIOUS
<1>1. PICK k \in Nat, p \in Owners, n \in Nat : call = <<k, "count", {<<p, n>>}>>
  BY DEF CountCalls
<1>2. Adds(o)[<<k, "count", {<<p, n>>}>>] = IF p = o THEN n ELSE 0
  BY AddsOne
<1> QED  BY <1>1, <1>2

\* A step that neither sends nor lands a count gives none up.
LEMMA OwedStays ==
  ASSUME Owed, LateCounts' = LateCounts, faults' \in {faults, faults + 1},
         UNCHANGED forfeited, \A o \in Owners : drops'[o] \in Nat /\ shown'[o] \in Nat
  PROVE  Owed'
<1>1. faults \in Nat /\ \A call \in LateCounts : call[1] < faults /\ call[1] \in Nat
  BY DEF Owed, CountCalls
<1>2. faults' \in Nat /\ \A call \in LateCounts : call[1] < faults'
  BY <1>1
<1>3. \A o \in Owners : Adds(o)' = Adds(o)
  BY DEF Adds, CountCalls
<1>4. CountCalls' = CountCalls
  BY DEF CountCalls
<1> QED  BY <1>2, <1>3, <1>4 DEF Owed

\* The steps that leave the counts alone, or only add to the drops.
LEMMA OwedDrops ==
  ASSUME RowInv, Owed, LateCounts' = LateCounts, faults' \in {faults, faults + 1},
         UNCHANGED <<shown, forfeited>>, \A o \in Owners : drops'[o] - drops[o] \in Nat,
         drops' \in [Owners -> Int]
  PROVE  Owed'
<1>1. ASSUME NEW o \in Owners PROVE drops'[o] \in Nat /\ shown'[o] \in Nat
  <2>1. drops[o] \in Nat /\ drops'[o] \in Int /\ drops'[o] - drops[o] \in Nat
    BY DEF Owed
  <2>2. shown'[o] \in Nat
    BY DEF Owed
  <2> DEFINE d == drops[o]
             e == drops'[o]
  <2>3. d \in Nat /\ e \in Int /\ e - d \in Nat
    BY <2>1
  <2> HIDE DEF d, e
  <2>4. e \in Nat
    BY <2>3
  <2> QED  BY <2>2, <2>4 DEF e
<1> QED  BY <1>1, OwedStays

\* Stripping bodies adds to the drops.
LEMMA StrippedGrows ==
  ASSUME RowInv, NEW S, NEW o \in Owners
  PROVE  Stripped(S)[o] - drops[o] \in Nat
<1> DEFINE n == CountOf(S \cap carried, o)
           d == drops[o]
<1>1. S \cap carried \in SUBSET Logs
  BY DEF RowInv, Typed
<1>2. n \in Nat
  BY <1>1, OwnedFacts
<1>3. d \in Int
  BY DEF RowInv, Typed
<1>4. Stripped(S)[o] = d + n
  BY DEF Stripped
<1> HIDE DEF n, d
<1>5. (d + n) - d \in Nat
  BY <1>2, <1>3
<1> QED  BY <1>4, <1>5 DEF d

\* The steps that leave the counts alone.
LEMMA OwedSame ==
  ASSUME RowInv, Owed,
         \/ Outside \/ UNCHANGED vars \/ Flush \/ EndLogs \/ EndAttempts \/ EndBodies
         \/ Write \/ EndCounts \/ Drained \/ Exit
  PROVE  Owed'
<1> USE DEF memory, tallies, database
<1>1. UNCHANGED <<late, faults, drops, shown, forfeited>>
  <2>1. CASE Outside
    BY <2>1 DEF Outside, Capture, DeleteForRequest, PurgeAll, Shutdown
  <2>2. CASE UNCHANGED vars \/ Flush \/ EndLogs \/ EndAttempts \/ EndBodies
    BY <2>2 DEF vars, Flush, EndLogs, EndAttempts, EndBodies
  <2>3. CASE Write \/ EndCounts \/ Drained \/ Exit
    BY <2>3 DEF Write, EndCounts, Drained, Exit
  <2> QED  BY <2>1, <2>2, <2>3
<1>2. LateCounts' = LateCounts
  BY <1>1 DEF LateCounts
<1>3. \A o \in Owners : drops'[o] \in Nat /\ shown'[o] \in Nat
  BY <1>1 DEF Owed
<1> QED  BY <1>1, <1>2, <1>3, OwedStays

\* Evicted bodies, and those that found no room, are added to the drops.
LEMMA OwedRecord ==
  ASSUME RowInv, Owed, NEW l \in Logs, Record(l)
  PROVE  Owed'
<1>1. \E S, N : /\ N \in SUBSET Logs
                /\ drops' = [o \in Owners |-> Stripped(S)[o] + CountOf(N, o)]
  <2> DEFINE full     == Len(queue) >= MaxQueue
             q        == IF full THEN Tail(queue) ELSE queue
             evicted  == IF full THEN {Head(queue)} ELSE {}
             incoming == BytesOf({l})
             held     == bytes - BytesOf(evicted \cap carried)
             gone     == IF incoming > QueueBudget \/ Sizes[l] = <<>> THEN {}
                         ELSE Evictable(q, held, incoming)
             left     == held - BytesOf(gone \cap carried)
             admitted == Sizes[l] # <<>> /\ Admitted(left, incoming)
             S        == evicted \cup gone
             N        == IF admitted THEN {} ELSE {l}
  <2>1. drops' = [o \in Owners |-> Stripped(S)[o]
                                   + (IF admitted THEN 0 ELSE CountOf({l}, o))]
    BY DEF Record
  <2> HIDE DEF S, admitted
  <2>2. \A o \in Owners : (IF admitted THEN 0 ELSE CountOf({l}, o)) = CountOf(N, o)
    BY NothingCounts
  <2>3. N \in SUBSET Logs
    OBVIOUS
  <2> HIDE DEF N
  <2>4. drops' = [o \in Owners |-> Stripped(S)[o] + CountOf(N, o)]
    BY <2>1, <2>2
  <2> QED  BY <2>3, <2>4
<1> PICK S, N : /\ N \in SUBSET Logs
                /\ drops' = [o \in Owners |-> Stripped(S)[o] + CountOf(N, o)]
  BY <1>1
<1>2. UNCHANGED <<late, faults, shown, forfeited>>
  BY DEF Record, database
<1>3. LateCounts' = LateCounts
  BY <1>2 DEF LateCounts
<1>4. ASSUME NEW o \in Owners PROVE drops'[o] \in Int /\ drops'[o] - drops[o] \in Nat
  <2> DEFINE t == Stripped(S)[o]
             d == drops[o]
             n == CountOf(N, o)
  <2>1. t - d \in Nat
    BY StrippedGrows
  <2>2. n \in Nat
    BY OwnedFacts
  <2>3. d \in Int /\ t \in Int
    BY StrippedType DEF RowInv, Typed
  <2>4. drops'[o] = t + n
    OBVIOUS
  <2> HIDE DEF t, d, n
  <2>5. t + n \in Int /\ (t + n) - d \in Nat
    BY <2>1, <2>2, <2>3
  <2> QED  BY <2>4, <2>5 DEF d
<1>5. drops' \in [Owners -> Int]
  BY <1>4
<1> QED  BY <1>2, <1>3, <1>4, <1>5, OwedDrops

\* A group that is given up adds its bodies to the drops.
LEMMA OwedWriteFails ==
  ASSUME RowInv, Owed, WriteFails
  PROVE  Owed'
<1>1. /\ UNCHANGED <<shown, forfeited>>
      /\ \/ drops' = drops
         \/ \E S : drops' = Stripped(S)
  BY DEF WriteFails, RetryOrGiveUp, database
<1>2. LateCounts' = LateCounts /\ faults' \in {faults, faults + 1}
  BY DEF WriteFails, Fault, Landing, LateCounts
<1>3. drops' \in [Owners -> Int] /\ \A o \in Owners : drops'[o] - drops[o] \in Nat
  <2>1. drops \in [Owners -> Int]
    BY DEF RowInv, Typed
  <2>2. CASE drops' = drops
    BY <2>1, <2>2
  <2>3. ASSUME NEW S, drops' = Stripped(S)
        PROVE  drops' \in [Owners -> Int] /\ \A o \in Owners : drops'[o] - drops[o] \in Nat
    BY <2>3, StrippedType, StrippedGrows DEF RowInv, Typed
  <2> QED  BY <1>1, <2>2, <2>3
<1> QED  BY <1>1, <1>2, <1>3, OwedDrops

\* What an insert discards, and what was not settled when one failed, is added to
\* the drops of its owner.
LEMMA OwedBodies ==
  ASSUME RowInv, Owed, WriteBodies \/ BodiesFail
  PROVE  Owed'
<1> DEFINE refs  == flush.refs
           chunk == Chunk(refs)
           taken == {b \in ToSet(chunk) : Live(b)}
<1>1. refs \in Seq(Bodies) /\ IsInjective(refs) /\ drops \in [Owners -> Int]
  BY FlushFields DEF RowInv, Typed, Placed
<1>2. /\ refs # <<>> /\ UNCHANGED <<shown, forfeited>>
      /\ LateCounts' = LateCounts /\ faults' \in {faults, faults + 1}
  <2>1. CASE WriteBodies
    BY <2>1 DEF WriteBodies, LateCounts
  <2>2. CASE BodiesFail
    BY <2>2 DEF BodiesFail, Fault, Landing, LateCounts, database
  <2> QED  BY <2>1, <2>2
<1>3. /\ Cut(chunk, SubSeq(refs, Len(chunk) + 1, Len(refs)), refs, Len(chunk), Bodies)
      /\ Len(chunk) \in Nat
  BY <1>1, <1>2, ChunkFacts
<1>4. /\ Len(chunk) - Cardinality(taken) \in Nat /\ Len(refs) \in Nat
      /\ Cardinality(taken) \in Nat
  <2>1. chunk \in Seq(Bodies) /\ IsInjective(chunk) /\ taken \subseteq ToSet(chunk)
    BY <1>3 DEF Cut
  <2> HIDE DEF chunk, taken
  <2>2. IsFiniteSet(ToSet(chunk)) /\ Cardinality(ToSet(chunk)) = Len(chunk)
    BY <2>1, InjectiveLen
  <2>3. /\ Cardinality(taken) \in Nat /\ Cardinality(taken) <= Cardinality(ToSet(chunk))
    BY <2>1, <2>2, FS_Subset, FS_CardinalityType
  <2> QED  BY <1>1, <1>3, <2>2, <2>3
<1>5. \E w, n : /\ n \in Nat
                /\ drops' = [o \in Owners |-> IF o = w THEN drops[o] + n ELSE drops[o]]
  <2> DEFINE c == Len(chunk)
             t == Cardinality(taken)
  <2>1. CASE WriteBodies
    <3>1. PICK w : drops' = [drops EXCEPT ![w] = @ + c - t]
      BY <2>1 DEF WriteBodies
    <3>2. t \in Nat /\ c \in Nat
      BY <1>3, <1>4
    <3>3. c - t \in Nat
      BY <1>4
    <3> HIDE DEF c, t
    <3>4. drops' = [o \in Owners |-> IF o = w THEN drops[o] + c - t ELSE drops[o]]
      BY <1>1, <3>1
    <3>5. \A o \in Owners : drops[o] + c - t = drops[o] + (c - t)
      BY <1>1, <3>2
    <3>6. drops' = [o \in Owners |-> IF o = w THEN drops[o] + (c - t) ELSE drops[o]]
      BY <3>4, <3>5
    <3> QED  BY <3>3, <3>6
  <2>2. CASE BodiesFail
    <3>1. PICK w : drops' = [drops EXCEPT ![w] = @ + Len(refs)]
      BY <2>2 DEF BodiesFail, Unsettled
    <3>2. drops' = [o \in Owners |-> IF o = w THEN drops[o] + Len(refs) ELSE drops[o]]
      BY <1>1, <3>1
    <3> QED  BY <1>4, <3>2
  <2> QED  BY <2>1, <2>2
<1>6. PICK w, n : /\ n \in Nat
                  /\ drops' = [o \in Owners |-> IF o = w THEN drops[o] + n ELSE drops[o]]
  BY <1>5
<1>7. ASSUME NEW o \in Owners PROVE drops'[o] \in Int /\ drops'[o] - drops[o] \in Nat
  <2> DEFINE d == drops[o]
  <2>1. d \in Int /\ n \in Nat /\ drops'[o] = IF o = w THEN d + n ELSE d
    BY <1>1, <1>6
  <2> HIDE DEF d
  <2>2. drops'[o] \in Int /\ drops'[o] - d \in Nat
    BY <2>1
  <2> QED  BY <2>2 DEF d
<1>8. drops' \in [Owners -> Int]
  BY <1>6, <1>7
<1> QED  BY <1>2, <1>7, <1>8, OwedDrops

\* A count is shown, or given up with the call that may still show it.
LEMMA OwedCounts ==
  ASSUME RowInv, Owed, NEW p \in Owners, AddCount(p) \/ CountFails(p)
  PROVE  Owed'
<1>1. /\ drops \in [Owners -> Int] /\ shown \in [Owners -> Int] /\ forfeited \in [Owners -> Int]
      /\ \A o \in Owners : drops[o] \in Nat /\ shown[o] \in Nat
  BY DEF RowInv, Typed, Owed
<1>2. CASE AddCount(p)
  <2>1. /\ UNCHANGED <<late, faults, forfeited>>
        /\ shown' = [shown EXCEPT ![p] = @ + drops[p]] /\ drops' = [drops EXCEPT ![p] = 0]
    BY <1>2 DEF AddCount
  <2>2. LateCounts' = LateCounts
    BY <2>1 DEF LateCounts
  <2>3. \A o \in Owners : drops'[o] \in Nat /\ shown'[o] \in Nat
    BY <1>1, <2>1
  <2> QED  BY <2>1, <2>2, <2>3, OwedStays
<1>3. CASE CountFails(p)
  <2> DEFINE n    == drops[p]
             call == <<faults, "count", {<<p, n>>}>>
  <2>1. /\ late' = late \cup {call} /\ faults' = faults + 1 /\ UNCHANGED shown
        /\ drops' = [drops EXCEPT ![p] = 0] /\ forfeited' = [forfeited EXCEPT ![p] = @ + n]
    BY <1>3 DEF CountFails, Fault, Landing, GivenUp, database
  <2>2. n \in Nat /\ faults \in Nat
    BY <1>1 DEF Owed
  <2>3. LateCounts' = LateCounts \cup {call}
    BY <2>1 DEF LateCounts
  <2>4. call \in CountCalls /\ \A o : Adds(o)[call] = IF p = o THEN n ELSE 0
    <3> HIDE DEF n
    <3> QED  BY <2>2, AddsOne
  <2>5. call[1] = faults
    OBVIOUS
  <2> HIDE DEF n, call
  <2>6. /\ LateCounts \subseteq CountCalls /\ IsFiniteSet(LateCounts) /\ call \notin LateCounts
        /\ \A c \in LateCounts : c[1] < faults /\ c[1] \in Nat
    <3>1. /\ LateCounts \subseteq CountCalls /\ IsFiniteSet(LateCounts)
          /\ \A c \in LateCounts : c[1] < faults /\ c[1] \in Nat
      BY DEF Owed, CountCalls
    <3> QED  BY <2>2, <2>5, <3>1
  <2>7. /\ LateCounts' \subseteq CountCalls /\ IsFiniteSet(LateCounts')
        /\ faults' \in Nat /\ \A c \in LateCounts' : c[1] < faults'
    <3>1. IsFiniteSet(LateCounts \cup {call})
      BY <2>6, FS_AddElement
    <3>2. \A c \in LateCounts : c[1] < faults + 1
      BY <2>2, <2>6
    <3>3. call[1] < faults + 1 /\ faults + 1 \in Nat
      BY <2>2, <2>5
    <3> QED  BY <2>1, <2>3, <2>4, <2>6, <3>1, <3>2, <3>3
  <2>8. ASSUME NEW o \in Owners
        PROVE  drops'[o] \in Nat /\ shown'[o] \in Nat /\ forfeited'[o] = SumOf(Adds(o), LateCounts')
    <3>1. SumOf(Adds(o), LateCounts \cup {call}) = SumOf(Adds(o), LateCounts) + Adds(o)[call]
          /\ SumOf(Adds(o), LateCounts) \in Nat
      <4>1. \A c \in CountCalls : Adds(o)[c] \in Nat
        BY AddsType
      <4> QED  BY <2>4, <2>6, <4>1, SumAdds, SumType
    <3>2. forfeited[o] = SumOf(Adds(o), LateCounts)
      BY DEF Owed
    <3> DEFINE f == forfeited[o]
    <3>3. forfeited'[o] = IF o = p THEN f + n ELSE f
      BY <1>1, <2>1
    <3>4. f \in Nat
      BY <3>1, <3>2
    <3>5. drops'[o] \in Nat /\ shown'[o] \in Nat
      BY <1>1, <2>1
    <3>6. SumOf(Adds(o), LateCounts') = f + (IF p = o THEN n ELSE 0)
      BY <2>3, <2>4, <3>1, <3>2
    <3> HIDE DEF f
    <3> QED  BY <2>2, <3>3, <3>4, <3>5, <3>6
  <2>9. CountCalls' = CountCalls /\ \A o : Adds(o)' = Adds(o)
    BY DEF CountCalls, Adds
  <2> QED  BY <2>7, <2>8, <2>9 DEF Owed
<1> QED  BY <1>2, <1>3

\* A late count is shown, and its call is gone.
LEMMA OwedLand ==
  ASSUME RowInv, Owed, NEW call \in late, Land(call)
  PROVE  Owed'
<1>1. /\ late' = late \ {call} /\ UNCHANGED <<drops, faults>>
      /\ drops \in [Owners -> Int] /\ shown \in [Owners -> Int] /\ forfeited \in [Owners -> Int]
  BY DEF Land, RowInv, Typed
<1>2. CASE call[2] # "count"
  <2>1. LateCounts' = LateCounts
    BY <1>1, <1>2 DEF LateCounts
  <2>2. UNCHANGED <<shown, forfeited>>
    BY <1>2 DEF Land, LandRows, LandBodies
  <2>3. \A o \in Owners : drops'[o] \in Nat /\ shown'[o] \in Nat
    BY <1>1, <2>2 DEF Owed
  <2> QED  BY <1>1, <2>1, <2>2, <2>3, OwedStays
<1>3. CASE call[2] = "count"
  <2>1. call \in LateCounts /\ LateCounts' = LateCounts \ {call}
    BY <1>1, <1>3 DEF LateCounts
  <2>2. /\ LateCounts \subseteq CountCalls /\ IsFiniteSet(LateCounts)
        /\ \A c \in LateCounts : c[1] < faults
        /\ faults \in Nat
    BY DEF Owed
  <2>3. PICK k \in Nat, p \in Owners, n \in Nat : call = <<k, "count", {<<p, n>>}>>
    BY <2>1, <2>2 DEF CountCalls
  <2>4. /\ shown' = [shown EXCEPT ![p] = @ + n] /\ forfeited' = [forfeited EXCEPT ![p] = @ - n]
    <3>1. PICK c \in call[3] : LandCount(c[1], c[2])
      BY <1>3 DEF Land
    <3>2. c = <<p, n>>
      BY <2>3
    <3> QED  BY <3>1, <3>2 DEF LandCount
  <2>5. \A o : Adds(o)[call] = IF p = o THEN n ELSE 0
    BY <2>3, AddsOne
  <2>6. /\ LateCounts' \subseteq CountCalls /\ IsFiniteSet(LateCounts')
        /\ \A c \in LateCounts' : c[1] < faults'
    BY <1>1, <2>1, <2>2, FS_Subset
  <2>7. ASSUME NEW o \in Owners
        PROVE  drops'[o] \in Nat /\ shown'[o] \in Nat /\ forfeited'[o] = SumOf(Adds(o), LateCounts')
    <3> DEFINE f == forfeited[o]
               s == shown[o]
               r == SumOf(Adds(o), LateCounts \ {call})
    <3>1. f = Adds(o)[call] + r /\ r \in Nat
      <4>1. \A c \in CountCalls : Adds(o)[c] \in Nat
        BY AddsType
      <4>2. SumOf(Adds(o), LateCounts) = Adds(o)[call] + r
        BY <2>1, <2>2, <4>1, SumRemoves
      <4>3. IsFiniteSet(LateCounts \ {call})
        BY <2>2, FS_Subset
      <4>4. r \in Nat
        BY <2>2, <4>1, <4>3, SumType
      <4> QED  BY <4>2, <4>4 DEF Owed
    <3>2. forfeited'[o] = (IF o = p THEN f - n ELSE f) /\ shown'[o] = (IF o = p THEN s + n ELSE s)
      BY <1>1, <2>4
    <3>3. s \in Nat /\ drops'[o] \in Nat
      BY <1>1 DEF Owed
    <3>4. f = (IF p = o THEN n ELSE 0) + r
      BY <2>5, <3>1
    <3>5. SumOf(Adds(o), LateCounts') = r
      BY <2>1
    <3> HIDE DEF f, s, r
    <3> QED  BY <2>3, <3>1, <3>2, <3>3, <3>4, <3>5
  <2>8. CountCalls' = CountCalls /\ \A o : Adds(o)' = Adds(o)
    BY DEF CountCalls, Adds
  <2> QED  BY <1>1, <2>2, <2>6, <2>7, <2>8 DEF Owed
<1> QED  BY <1>2, <1>3

\* Nothing is owed at the start.
LEMMA OwedInit == Init => Owed
<1> SUFFICES ASSUME Init PROVE Owed
  OBVIOUS
<1>1. LateCounts = {} /\ faults = 0
  BY DEF Init, LateCounts
<1>2. \A o \in Owners : drops[o] = 0 /\ shown[o] = 0 /\ forfeited[o] = 0
  BY DEF Init
<1>3. \A o \in Owners : SumOf(Adds(o), {}) = 0
  BY SumOfNothing
<1> QED  BY <1>1, <1>2, <1>3, FS_EmptySet DEF Owed

\* Every step keeps the counts covered.
LEMMA OwedStep ==
  ASSUME RowInv, Owed, [Next]_vars
  PROVE  Owed'
<1>1. ASSUME NEW l \in Logs, Record(l) PROVE Owed'
  BY <1>1, OwedRecord
<1>2. ASSUME NEW call \in late, Land(call) PROVE Owed'
  BY <1>2, OwedLand
<1>3. ASSUME NEW o \in Owners, AddCount(o) \/ CountFails(o) PROVE Owed'
  BY <1>3, OwedCounts
<1>4. Outside \/ UNCHANGED vars \/ Flush \/ EndLogs \/ EndAttempts \/ EndBodies => Owed'
  BY OwedSame
<1>5. Write \/ EndCounts \/ Drained \/ Exit => Owed'
  BY OwedSame
<1>6. WriteFails => Owed'
  BY OwedWriteFails
<1>7. WriteBodies \/ BodiesFail => Owed'
  BY OwedBodies
<1>8. Counts => Owed'
  BY <1>3, <1>5 DEF Counts
<1> QED  BY <1>1, <1>2, <1>4, <1>5, <1>6, <1>7, <1>8, StepKinds

\* No count is negative.
LEMMA OwedCovers ==
  ASSUME Owed, NEW o \in Owners
  PROVE  {drops[o], shown[o], forfeited[o]} \subseteq Nat
<1>1. SumOf(Adds(o), LateCounts) \in Nat
  <2>1. \A call \in LateCounts : Adds(o)[call] \in Nat
    BY AddsType DEF Owed
  <2> QED  BY <2>1, SumType DEF Owed
<1> QED  BY <1>1 DEF Owed

\* The bodies held are those that wait and those on their way.
LEMMA LedgerAccounts ==
  ASSUME RowInv, BodyInv, Owed
  PROVE  BodiesAreAccounted
<1>1. bytes = BytesOf(carried) /\ bytes <= QueueBudget
  BY DEF BodyInv, Carried
<1>2. ASSUME NEW o \in Owners
      PROVE  CountOf(Recorded, o) = HeldBodies(o)
               + Cardinality({b \in saved : OwnerOf[b[1]] = o})
               + drops[o] + shown[o] + forfeited[o]
  <2>1. ToSet(<<>>) = {} /\ (flush.step # "bodies" => flush.refs = <<>>)
    BY DEF ToSet, RowInv, Placed
  <2>2. (IF flush.step = "bodies" THEN ToSet(flush.refs) ELSE {}) = ToSet(flush.refs)
    BY <2>1
  <2>3. HeldBodies(o) = Waiting(o) + Riding(o)
    BY <2>2 DEF HeldBodies, Waiting, Riding, OfOwner
  <2>4. Cardinality({b \in saved : OwnerOf[b[1]] = o}) = Saved(o)
    BY DEF Saved, OfOwner
  <2>5. CountOf(Recorded, o) = Waiting(o) + Riding(o) + Saved(o) + Tally(o)
    BY DEF BodyInv, Ledger
  <2>6. /\ Waiting(o) \in Nat /\ Riding(o) \in Nat /\ Saved(o) \in Nat
        /\ drops[o] \in Int /\ shown[o] \in Int /\ forfeited[o] \in Int
    BY BodyTypes
  <2> DEFINE d == drops[o]
             s == shown[o]
             f == forfeited[o]
             a == Waiting(o)
             r == Riding(o)
             v == Saved(o)
  <2>7. CountOf(Recorded, o) = a + r + v + (d + s + f)
    BY <2>5 DEF Tally
  <2>8. HeldBodies(o) = a + r
    BY <2>3
  <2>9. a \in Nat /\ r \in Nat /\ v \in Nat /\ d \in Int /\ s \in Int /\ f \in Int
    BY <2>6
  <2> HIDE DEF d, s, f, a, r, v
  <2>10. a + r + v + (d + s + f) = (a + r) + v + d + s + f
    BY <2>9
  <2> QED  BY <2>4, <2>7, <2>8, <2>10 DEF d, s, f, v
<1> QED  BY <1>1, <1>2, OwedCovers DEF BodiesAreAccounted

-----------------------------------------------------------------------------
(* The bounds of what the other invariants leave unbounded. *)

Bounded ==
  /\ born \in [Logs -> 0 .. MaxPurges] /\ epoch \in [Owners -> 0 .. MaxPurges]
  /\ tombs \subseteq Logs /\ dropped \in Nat
  /\ flush.tries \in 0 .. MaxRetries /\ faults \in 0 .. MaxFaults
  /\ server \in {"up", "draining", "down"}

\* The bounds hold at the start.
LEMMA BoundedInit == Init => Bounded
<1>1. MaxPurges \in Nat /\ MaxRetries \in Nat /\ MaxFaults \in Nat
  BY LogWriterAssumption
<1>2. 0 \in 0 .. MaxPurges /\ 0 \in 0 .. MaxRetries /\ 0 \in 0 .. MaxFaults
  BY <1>1
<1> QED  BY <1>2, IdleType DEF Init, Bounded

\* The owner purges only so often.
LEMMA EpochBounded ==
  ASSUME Bounded, NEW o \in Owners, Purges(o) < MaxPurges
  PROVE  epoch[o] + 1 \in 0 .. MaxPurges
<1> DEFINE T == {l \in tombs : OwnerOf[l] = o}
           e == epoch[o]
           t == Cardinality(T)
<1>1. T \subseteq Logs
  BY DEF Bounded
<1>2. t \in Nat
  BY <1>1, LogWriterAssumption, FS_Subset, FS_CardinalityType
<1>3. e \in 0 .. MaxPurges /\ MaxPurges \in Nat
  BY LogWriterAssumption DEF Bounded
<1>4. e + t < MaxPurges
  BY DEF Purges
<1> HIDE DEF e, t
<1>5. e + 1 \in 0 .. MaxPurges
  BY <1>2, <1>3, <1>4
<1> QED  BY <1>5 DEF e

\* The steps of the environment keep the bounds.
LEMMA BoundedOutside ==
  ASSUME RowInv, Bounded, Outside \/ UNCHANGED vars
  PROVE  Bounded'
<1> USE DEF memory, tallies, database
<1>1. ASSUME NEW l \in Logs, Capture(l) PROVE Bounded'
  <2>1. OwnerOf[l] \in Owners /\ epoch[OwnerOf[l]] \in 0 .. MaxPurges
    BY LogWriterAssumption DEF Bounded
  <2> QED  BY <1>1, <2>1 DEF Capture, Bounded
<1>2. ASSUME NEW l \in Logs, DeleteForRequest(l) PROVE Bounded'
  BY <1>2 DEF DeleteForRequest, Bounded
<1>3. ASSUME NEW o \in Owners, PurgeAll(o) PROVE Bounded'
  <2>1. epoch[o] + 1 \in 0 .. MaxPurges
    BY <1>3, EpochBounded DEF PurgeAll
  <2>2. epoch' = [epoch EXCEPT ![o] = epoch[o] + 1]
    BY <1>3 DEF PurgeAll
  <2>3. epoch' \in [Owners -> 0 .. MaxPurges]
    BY <2>1, <2>2 DEF Bounded
  <2> QED  BY <1>3, <2>3 DEF PurgeAll, Bounded
<1>4. CASE Shutdown
  BY <1>4 DEF Shutdown, Bounded
<1>5. CASE UNCHANGED vars
  BY <1>5 DEF vars, Bounded
<1> QED  BY <1>1, <1>2, <1>3, <1>4, <1>5 DEF Outside

\* A failing call is counted, and there are only so many.
LEMMA FaultBounded == ASSUME Bounded, Fault PROVE faults' \in 0 .. MaxFaults
<1>1. MaxFaults \in Nat
  BY LogWriterAssumption
<1> QED  BY <1>1 DEF Bounded, Fault

\* Evicted rows are added to the dropped.
LEMMA BoundedRecord ==
  ASSUME RowInv, Bounded, NEW l \in Logs, Record(l)
  PROVE  Bounded'
<1> DEFINE evicted == IF Len(queue) >= MaxQueue THEN {Head(queue)} ELSE {}
           n       == IF l \in Cascaded /\ Len(attempts) >= MaxQueue THEN 1 ELSE 0
<1>1. /\ dropped' = dropped + Cardinality(evicted) + n
      /\ UNCHANGED <<born, epoch, tombs, flush, faults, server>>
  BY DEF Record, database
<1>2. Cardinality(evicted) \in Nat /\ n \in Nat /\ dropped \in Nat
  BY FS_EmptySet, FS_Singleton, FS_CardinalityType DEF Bounded
<1> HIDE DEF evicted, n
<1>3. dropped' \in Nat
  BY <1>1, <1>2
<1> QED  BY <1>1, <1>3 DEF Bounded

\* A group is tried only so often; one that is given up is added to the dropped.
LEMMA BoundedWriteFails ==
  ASSUME RowInv, Bounded, WriteFails
  PROVE  Bounded'
<1> DEFINE g == Group(flush.todo)
<1>1. /\ Writing /\ RetryOrGiveUp(g) /\ UNCHANGED <<born, epoch, tombs, server>>
      /\ Fault \/ UNCHANGED faults
  BY DEF WriteFails, database
<1>2. g \in Seq(Logs)
  BY <1>1, GroupRows DEF RowInv, Parts
<1> HIDE DEF g
<1>3. faults' \in 0 .. MaxFaults
  BY <1>1, FaultBounded DEF Bounded
<1>4. flush \in FlushType /\ flush.tries \in 0 .. MaxRetries /\ MaxRetries \in Nat
  BY LogWriterAssumption DEF RowInv, Typed, Bounded
<1>5. CASE flush.tries < MaxRetries
  <2>1. flush' = [flush EXCEPT !.tries = @ + 1] /\ dropped' = dropped
    BY <1>1, <1>5 DEF RetryOrGiveUp
  <2>2. flush'.tries = flush.tries + 1
    BY <1>4, <2>1 DEF FlushType
  <2>3. flush'.tries \in 0 .. MaxRetries
    BY <1>4, <1>5, <2>2
  <2> QED  BY <1>1, <1>3, <2>1, <2>3 DEF Bounded
<1>6. CASE ~ (flush.tries < MaxRetries)
  <2>1. /\ flush' = [flush EXCEPT !.todo = Others(@), !.tries = 0]
        /\ dropped' = dropped + Len(g)
    BY <1>1, <1>6 DEF RetryOrGiveUp
  <2>2. flush'.tries = 0
    BY <1>4, <2>1 DEF FlushType
  <2>3. 0 \in 0 .. MaxRetries /\ dropped' \in Nat
    BY <1>2, <1>4, <2>1 DEF Bounded
  <2> QED  BY <1>1, <1>3, <2>2, <2>3 DEF Bounded
<1> QED  BY <1>5, <1>6

\* The other steps of a flush keep the bounds.
LEMMA BoundedFlush ==
  ASSUME RowInv, Bounded, Flush \/ Write \/ EndLogs \/ EndAttempts
  PROVE  Bounded'
<1> USE DEF memory, tallies, database
<1>1. flush \in FlushType /\ 0 \in 0 .. MaxRetries
  BY LogWriterAssumption DEF RowInv, Typed
<1>2. CASE Flush
  <2>1. flush'.tries = 0
    BY <1>2 DEF Flush, Taken, Idle
  <2> QED  BY <1>1, <1>2, <2>1 DEF Flush, Bounded
<1>3. CASE Write
  <2>1. flush'.tries = 0
    BY <1>1, <1>3 DEF Write, FlushType
  <2> QED  BY <1>1, <1>3, <2>1 DEF Write, Bounded
<1>4. CASE EndLogs
  <2>1. flush'.tries = flush.tries
    BY <1>1, <1>4 DEF EndLogs, FlushType
  <2>2. dropped' = dropped + (Len(flush.later) - Len(WithParent(flush.later)))
    BY <1>4 DEF EndLogs
  <2>3. Len(flush.later) - Len(WithParent(flush.later)) \in Nat
    <3>1. /\ flush.later \in Seq(Logs) /\ IsInjective(flush.later)
      BY FlushFields DEF RowInv, Typed, Placed
    <3> DEFINE a == flush.later
               k == WithParent(flush.later)
    <3>2. k \in Seq(Logs) /\ IsInjective(k) /\ ToSet(k) \subseteq ToSet(a)
      BY <3>1, OnlyFacts DEF WithParent
    <3> HIDE DEF a, k
    <3>3. IsFiniteSet(ToSet(k)) /\ Cardinality(ToSet(k)) = Len(k) /\ Len(k) \in Nat
      BY <3>2, InjectiveLen
    <3>4. IsFiniteSet(ToSet(a)) /\ Cardinality(ToSet(a)) = Len(a) /\ Len(a) \in Nat
      BY <3>1, InjectiveLen DEF a
    <3>5. Cardinality(ToSet(k)) <= Cardinality(ToSet(a))
      BY <3>2, <3>4, FS_Subset
    <3> QED  BY <3>3, <3>4, <3>5 DEF a, k
  <2>4. dropped' \in Nat
    BY <2>2, <2>3 DEF Bounded
  <2> QED  BY <1>4, <2>1, <2>4 DEF EndLogs, Bounded
<1>5. CASE EndAttempts
  <2>1. flush'.tries = 0
    BY <1>5 DEF EndAttempts, Idle
  <2> QED  BY <1>1, <1>5, <2>1 DEF EndAttempts, Bounded
<1> QED  BY <1>2, <1>3, <1>4, <1>5

\* So do the steps about bodies and counts, and late calls.
LEMMA BoundedRest ==
  ASSUME RowInv, Bounded,
         WriteBodies \/ BodiesFail \/ EndBodies \/ Counts \/ \E call \in late : Land(call)
  PROVE  Bounded'
<1> USE DEF memory, tallies, database
<1>1. flush \in FlushType /\ 0 \in 0 .. MaxRetries
  BY LogWriterAssumption DEF RowInv, Typed
<1>2. /\ UNCHANGED <<born, epoch, tombs, dropped>>
      /\ Fault \/ UNCHANGED faults
      /\ server' = server \/ server' = "down"
  <2>1. CASE WriteBodies
    BY <2>1 DEF WriteBodies
  <2>2. CASE BodiesFail \/ EndBodies
    BY <2>2 DEF BodiesFail, EndBodies
  <2>3. CASE EndCounts \/ Drained \/ Exit
    BY <2>3 DEF EndCounts, Drained, Exit
  <2>4. ASSUME NEW o \in Owners, AddCount(o) \/ CountFails(o)
        PROVE  /\ UNCHANGED <<born, epoch, tombs, dropped>>
               /\ Fault \/ UNCHANGED faults
               /\ server' = server \/ server' = "down"
    BY <2>4 DEF AddCount, CountFails
  <2>5. ASSUME NEW call \in late, Land(call)
        PROVE  UNCHANGED <<born, epoch, tombs, dropped, faults, server>>
    BY <2>5 DEF Land
  <2> QED  BY <2>1, <2>2, <2>3, <2>4, <2>5 DEF Counts
<1>3. faults' \in 0 .. MaxFaults
  BY <1>2, FaultBounded DEF Bounded
<1>4. flush'.tries \in 0 .. MaxRetries
  <2>1. \A x : /\ [flush EXCEPT !.refs = x].tries = flush.tries
              /\ [flush EXCEPT !.step = x].tries = flush.tries
              /\ [flush EXCEPT !.owners = x].tries = flush.tries
    BY <1>1 DEF FlushType
  <2>2. CASE WriteBodies \/ BodiesFail \/ EndBodies
    <3>1. \E x : \/ flush' = [flush EXCEPT !.refs = x]
                \/ flush' = [flush EXCEPT !.step = x]
      <4>1. CASE WriteBodies
        BY <4>1 DEF WriteBodies
      <4>2. CASE BodiesFail \/ EndBodies
        BY <4>2 DEF BodiesFail, EndBodies
      <4> QED  BY <2>2, <4>1, <4>2
    <3> QED  BY <2>1, <3>1 DEF Bounded
  <2>3. CASE EndCounts \/ Drained \/ Exit
    <3>1. flush' = Idle \/ flush' = [Idle EXCEPT !.step = "last", !.owners = Pending]
      BY <2>3 DEF EndCounts, Drained, Exit
    <3>2. /\ Idle.tries = 0
          /\ [Idle EXCEPT !.step = "last", !.owners = Pending].tries = 0
      BY DEF Idle
    <3> QED  BY <1>1, <3>1, <3>2
  <2>4. ASSUME NEW o \in Owners, AddCount(o) \/ CountFails(o)
        PROVE  flush'.tries \in 0 .. MaxRetries
    <3>1. \E x : flush' = [flush EXCEPT !.owners = x]
      BY <2>4 DEF AddCount, CountFails
    <3> QED  BY <2>1, <3>1 DEF Bounded
  <2>5. ASSUME NEW call \in late, Land(call) PROVE flush'.tries \in 0 .. MaxRetries
    BY <2>5 DEF Land, Bounded
  <2> QED  BY <2>2, <2>3, <2>4, <2>5 DEF Counts
<1> QED  BY <1>2, <1>3, <1>4 DEF Bounded

\* Every step keeps the bounds.
LEMMA BoundedStep ==
  ASSUME RowInv, Bounded, [Next]_vars
  PROVE  Bounded'
<1>1. ASSUME NEW l \in Logs, Record(l) PROVE Bounded'
  BY <1>1, BoundedRecord
<1>2. Outside \/ UNCHANGED vars => Bounded'
  BY BoundedOutside
<1>3. WriteFails => Bounded'
  BY BoundedWriteFails
<1>4. Flush \/ Write \/ EndLogs \/ EndAttempts => Bounded'
  BY BoundedFlush
<1>5. (\E call \in late : Land(call)) => Bounded'
  BY BoundedRest
<1>6. WriteBodies \/ BodiesFail \/ EndBodies \/ Counts => Bounded'
  BY BoundedRest
<1> QED  BY <1>1, <1>2, <1>3, <1>4, <1>5, <1>6, StepKinds

\* A sequence whose members are all in T is one over T.
LEMMA SeqOver ==
  ASSUME NEW S, NEW T, NEW s \in Seq(S), ToSet(s) \subseteq T
  PROVE  s \in Seq(T)
<1>1. Len(s) \in Nat /\ DOMAIN s = 1 .. Len(s) /\ s = [i \in 1 .. Len(s) |-> s[i]]
  OBVIOUS
<1>2. \A i \in 1 .. Len(s) : s[i] \in T
  BY <1>1 DEF ToSet
<1> QED  BY <1>1, <1>2

\* Together the invariants give the types.
LEMMA TypesHold ==
  ASSUME RowInv, BodyInv, Owed, Bounded
  PROVE  TypeOK
<1>1. /\ phase \in [Logs -> {"new", "open", "recorded"}] /\ queue \in Seq(Logs)
      /\ flush \in FlushType /\ carried \subseteq Logs
      /\ drops \in [Owners -> Int] /\ shown \in [Owners -> Int] /\ forfeited \in [Owners -> Int]
      /\ costs \in [Rows -> Nat]
      /\ table \subseteq Rows /\ stored \subseteq Bodies /\ saved \subseteq Bodies
      /\ attempts \in Seq(Logs)
  BY DEF RowInv, Typed
<1>2. /\ flush.step \in {"idle", "logs", "bodies", "attempts", "counts", "last"}
      /\ flush.todo \in Seq(Logs) /\ flush.later \in Seq(Logs)
      /\ flush.written \subseteq Logs /\ flush.owners \subseteq Owners
      /\ flush.refs \in Seq(Bodies)
  BY <1>1, FlushFields DEF Steps
<1>3. ToSet(attempts) \subseteq Cascaded /\ ToSet(flush.later) \subseteq Cascaded
  BY DEF RowInv, Placed
<1>4. attempts \in Seq(Cascaded) /\ flush.later \in Seq(Cascaded)
  BY <1>1, <1>2, <1>3, SeqOver
<1>5. bytes \in Nat
  BY <1>1, BytesType DEF BodyInv, Carried
<1>6. /\ drops \in [Owners -> Nat] /\ shown \in [Owners -> Nat]
      /\ forfeited \in [Owners -> Nat]
  <2>1. \A o \in Owners : drops[o] \in Nat /\ shown[o] \in Nat /\ forfeited[o] \in Nat
    BY OwedCovers
  <2> QED  BY <1>1, <2>1
<1>7. /\ born \in [Logs -> 0 .. MaxPurges] /\ epoch \in [Owners -> 0 .. MaxPurges]
      /\ tombs \subseteq Logs /\ dropped \in Nat
      /\ flush.tries \in 0 .. MaxRetries /\ faults \in 0 .. MaxFaults
      /\ server \in {"up", "draining", "down"}
  BY DEF Bounded
<1> QED  BY <1>1, <1>2, <1>4, <1>5, <1>6, <1>7 DEF TypeOK

-----------------------------------------------------------------------------
(* The theorems. *)

\* The drafts, the rows in the database and the costs emitted agree.
LEMMA RowInvariant == Spec => []RowInv
<1>1. Init => RowInv
  BY RowInit
<1>2. RowInv /\ [Next]_vars => RowInv'
  BY RowStep
<1> QED  BY <1>1, <1>2, PTL DEF Spec

\* An attempt goes the way of its log row, whatever is recorded while a flush
\* runs and however its inserts fail or land late.
THEOREM AttemptsGoWithTheirLog == Spec => []AttemptsFollowTheirLog
<1>1. RowInv => AttemptsFollowTheirLog
  BY DEF RowInv
<1> QED  BY <1>1, RowInvariant, PTL

\* No row vanishes: recorded rows wait, were written once, or are counted.
THEOREM RowsAreBalanced == Spec => []NothingIsSilent
<1>1. Init => Balance
  BY BalanceInit
<1>2. RowInv /\ Balance /\ [Next]_vars => Balance'
  BY BalanceStep
<1>3. RowInv /\ Balance => NothingIsSilent
  BY BalanceCounts
<1> QED  BY <1>1, <1>2, <1>3, RowInvariant, PTL DEF Spec

\* A purged or deleted body does not come back from a queue, a retry or a call
\* that timed out.
THEOREM PurgeIsFinal == Spec => []PurgedStaysPurged
<1>1. Init => StoredInv
  BY StoredInit
<1>2. RowInv /\ StoredInv /\ [Next]_vars => StoredInv'
  BY StoredStep
<1>3. StoredInv => PurgedStaysPurged
  BY DEF StoredInv, PurgedStaysPurged
<1> QED  BY <1>1, <1>2, <1>3, RowInvariant, PTL DEF Spec

\* The bytes carried are the sum over the requests that carry bodies.
LEMMA BodyInvariant == Spec => []BodyInv
<1>1. Init => BodyInv
  BY BodyInit
<1>2. RowInv /\ BodyInv /\ [Next]_vars => BodyInv'
  BY BodyStep
<1> QED  BY <1>1, <1>2, RowInvariant, PTL DEF Spec

\* What was given up covers the counts that may still land.
LEMMA OwedInvariant == Spec => []Owed
<1>1. Init => Owed
  BY OwedInit
<1>2. RowInv /\ Owed /\ [Next]_vars => Owed'
  BY OwedStep
<1> QED  BY <1>1, <1>2, RowInvariant, PTL DEF Spec

\* The byte ledger is exact and within its budget, and every recorded body is
\* held, was saved, or is in exactly one count.
THEOREM BodiesInOneCount == Spec => []BodiesAreAccounted
<1>1. RowInv /\ BodyInv /\ Owed => BodiesAreAccounted
  BY LedgerAccounts
<1> QED  BY <1>1, RowInvariant, BodyInvariant, OwedInvariant, PTL

\* The variables keep their types.
THEOREM TypeCorrect == Spec => []TypeOK
<1>1. Init => Bounded
  BY BoundedInit
<1>2. RowInv /\ Bounded /\ [Next]_vars => Bounded'
  BY BoundedStep
<1>3. RowInv /\ BodyInv /\ Owed /\ Bounded => TypeOK
  BY TypesHold
<1> QED  BY <1>1, <1>2, <1>3, RowInvariant, BodyInvariant, OwedInvariant, PTL DEF Spec
=============================================================================
