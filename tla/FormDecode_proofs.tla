--------------------------- MODULE FormDecode_proofs ---------------------------
(***************************************************************************)
(* Theorems about FormDecode, for any bytes and any length of the body:    *)
(* what laure_url_decode computes, what post() and getBody give the        *)
(* script, and when the copy of the body is read past its end.             *)
(*                                                                         *)
(* The loops of the code are recursive functions.  What one computes is    *)
(* proved in three steps: a closed form satisfies the function's equation, *)
(* so there is a function that does; by induction on what is left of the   *)
(* input there is no other.  Induction is on sets of numbers (NatInduct).  *)
(***************************************************************************)
EXTENDS FormDecode, FiniteSetTheorems, SequenceTheorems, WellFoundedInduction, TLAPS

-----------------------------------------------------------------------------
(* Numbers and strings. *)

\* Strong induction on numbers, for a set of them.
LEMMA NatInduct ==
    ASSUME NEW S, \A n \in Nat : (\A m \in 0..(n - 1) : m \in S) => n \in S
    PROVE  Nat \subseteq S
<1>. DEFINE Bad == {n \in Nat : n \notin S}
<1>1. SUFFICES ASSUME Bad # {} PROVE FALSE
  OBVIOUS
<1>2. PICK n \in Bad : \A m \in Bad : <<m, n>> \notin OpToRel(<, Nat)
  <2>. HIDE DEF Bad
  <2>1. Bad \subseteq Nat
    BY DEF Bad
  <2>. QED
    BY <1>1, <2>1, NatLessThanWellFounded, WFMin, Zenon
<1>3. n \in Nat /\ n \notin S
  OBVIOUS
<1>4. \A m \in Bad : ~(m < n)
  BY <1>2, <1>3 DEF OpToRel
<1>5. \A m \in 0..(n - 1) : m \in S
  BY <1>3, <1>4
<1>. QED
  BY <1>3, <1>5

\* A set of numbers that is not empty has a least one, which Min returns.
LEMMA MinIsLeast ==
    ASSUME NEW S \in SUBSET Nat, S # {}
    PROVE  Min(S) \in S /\ \A k \in S : Min(S) <= k
<1>1. PICK m \in S : \A k \in S : <<k, m>> \notin OpToRel(<, Nat)
  BY NatLessThanWellFounded, WFMin, Zenon
<1>2. \A k \in S : ~(k < m)
  BY <1>1, Zenon DEF OpToRel
<1>3. \A k \in S : m <= k
  BY <1>2
<1>. QED
  BY <1>3 DEF Min

-----------------------------------------------------------------------------
(* Counting. *)

UpTo(S, i) == {j \in S : j <= i}

\* A finite set of numbers has exactly one element of each rank.
LEMMA RankOnce ==
    ASSUME NEW S \in SUBSET Nat, IsFiniteSet(S), NEW k \in 1..Cardinality(S)
    PROVE  /\ \E i \in S : Cardinality(UpTo(S, i)) = k
           /\ \A i, j \in S : Cardinality(UpTo(S, i)) = Cardinality(UpTo(S, j)) => i = j
<1>. DEFINE n == Cardinality(S)
            rank == [i \in S |-> Cardinality(UpTo(S, i))]
<1>0. n \in Nat
  BY FS_CardinalityType
<1>1. ASSUME NEW i \in S PROVE /\ IsFiniteSet(UpTo(S, i))
                               /\ Cardinality(UpTo(S, i)) \in 1..n
  <2>1. UpTo(S, i) \in SUBSET S /\ i \in UpTo(S, i)
    BY DEF UpTo
  <2>2. IsFiniteSet(UpTo(S, i)) /\ Cardinality(UpTo(S, i)) <= n
    BY <2>1, FS_Subset
  <2>3. Cardinality(UpTo(S, i)) \in Nat /\ Cardinality(UpTo(S, i)) # 0
    BY <2>1, <2>2, FS_CardinalityType, FS_EmptySet
  <2>. QED
    BY <1>0, <2>2, <2>3
<1>2. ASSUME NEW i \in S, NEW j \in S, i < j
      PROVE  Cardinality(UpTo(S, i)) # Cardinality(UpTo(S, j))
  <2>0. (\A x \in S : x <= i => x <= j) /\ j <= j /\ ~(j <= i)
    BY <1>2
  <2>1. UpTo(S, i) \subseteq UpTo(S, j) /\ j \in UpTo(S, j) /\ j \notin UpTo(S, i)
    BY <1>2, <2>0 DEF UpTo
  <2>2. IsFiniteSet(UpTo(S, j))
    BY <1>1
  <2>3. Cardinality(UpTo(S, i)) = Cardinality(UpTo(S, j)) => UpTo(S, i) = UpTo(S, j)
    BY <2>1, <2>2, FS_Subset, Zenon
  <2>. QED
    BY <2>1, <2>3
<1>3. ASSUME NEW i \in S, NEW j \in S, Cardinality(UpTo(S, i)) = Cardinality(UpTo(S, j))
      PROVE  i = j
  BY <1>2, <1>3
<1>4. rank \in [S -> 1..n]
  BY <1>1
<1>5. rank \in Injection(S, 1..n)
  <2>1. \A i, j \in S : rank[i] = rank[j] => i = j
    BY <1>3
  <2>2. IsInjective(rank)
    BY <2>1 DEF IsInjective
  <2>. QED
    BY <1>4, <2>2 DEF Injection
<1>6. IsFiniteSet(1..n) /\ Cardinality(1..n) = n
  BY <1>0, FS_Interval
<1>7. rank \in Surjection(S, 1..n)
  <2>. HIDE DEF rank
  <2>. QED
    BY <1>5, <1>6, FS_Injection
<1>8. \E i \in S : rank[i] = k
  <2>. HIDE DEF rank
  <2>. QED
    BY <1>7 DEF Surjection
<1>. QED
  BY <1>3, <1>8

\* As many numbers, d further on.
LEMMA ShiftedCard ==
    ASSUME NEW S \in SUBSET Nat, IsFiniteSet(S), NEW d \in Nat
    PROVE  /\ IsFiniteSet({x + d : x \in S})
           /\ Cardinality({x + d : x \in S}) = Cardinality(S)
<1>. DEFINE T == {x + d : x \in S}
            f == [x \in S |-> x + d]
<1>1. f \in [S -> T] /\ \A x, y \in S : f[x] = f[y] => x = y
  OBVIOUS
<1>2. \A t \in T : \E x \in S : f[x] = t
  OBVIOUS
<1>. HIDE DEF f, T
<1>3. f \in Bijection(S, T)
  BY <1>1, <1>2 DEF Bijection, Injection, Surjection, IsInjective
<1>4. ExistsBijection(S, T)
  BY <1>3 DEF ExistsBijection
<1>5. IsFiniteSet(T) /\ Cardinality(T) = Cardinality(S)
  BY <1>4, FS_Bijection
<1>. QED
  BY <1>5 DEF T

-----------------------------------------------------------------------------
(* laure_url_decode. *)

\* The bytes that the first turn of the loop takes.
Taken(s) == IF Escape(s, 1) THEN 3 ELSE 1
Behind(s) == SubSeq(s, Taken(s) + 1, Len(s))

\* Behind the first byte, or escape, a string has the escapes it had.
LEMMA EscapesBehind ==
    ASSUME NEW s \in Seq(Bytes), s # <<>>
    PROVE  /\ Taken(s) \in {1, 3} /\ Taken(s) <= Len(s)
           /\ Behind(s) \in Seq(Bytes) /\ Len(Behind(s)) = Len(s) - Taken(s)
           /\ \A j \in 1..Len(Behind(s)) : Behind(s)[j] = s[j + Taken(s)]
           /\ \A j \in 1..Len(Behind(s)) : Escape(Behind(s), j) <=> Escape(s, j + Taken(s))
           /\ \A i \in 2..Taken(s) : ~Escape(s, i)
           /\ Escape(s, 1) <=> Taken(s) = 3
<1>. DEFINE d == Taken(s)
            t == Behind(s)
<1>1. Len(s) \in Nat \ {0} /\ d \in {1, 3} /\ d <= Len(s) /\ (Escape(s, 1) <=> d = 3)
  BY DEF Taken, Escape
<1>2. /\ t \in Seq(Bytes) /\ Len(t) = Len(s) - d
      /\ \A j \in 1..Len(t) : t[j] = s[j + d]
  <2>1. t = SubSeq(s, d + 1, Len(s))
    BY DEF Behind
  <2>. HIDE DEF t, d
  <2>. QED
    BY <1>1, <2>1
<1>3. ASSUME NEW j \in 1..Len(t) PROVE Escape(t, j) <=> Escape(s, j + d)
  <2>. HIDE DEF t, d
  <2>1. t[j] = s[j + d] /\ (j + 2 <= Len(t) <=> j + d + 2 <= Len(s))
    BY <1>1, <1>2
  <2>2. j + 2 <= Len(t) => t[j + 1] = s[j + d + 1] /\ t[j + 2] = s[j + d + 2]
    BY <1>1, <1>2
  <2>. QED
    BY <2>1, <2>2 DEF Escape
<1>4. ASSUME NEW i \in 2..d PROVE ~Escape(s, i)
  <2>1. Escape(s, 1) /\ i \in {2, 3}
    BY <1>1
  <2>2. s[i] \in HexDigits
    BY <2>1 DEF Escape
  <2>3. Percent \notin HexDigits
    BY DEF Percent, HexDigits, Digits
  <2>. QED
    BY <2>2, <2>3 DEF Escape
<1>. QED
  BY <1>1, <1>2, <1>3, <1>4

\* The places that are kept: the first, and those kept of what is behind.
LEMMA KeptBehind ==
    ASSUME NEW s \in Seq(Bytes), s # <<>>
    PROVE  Kept(s) = {1} \cup {j + Taken(s) : j \in Kept(Behind(s))}
<1>. DEFINE d == Taken(s)
            t == Behind(s)
<1>0. /\ d \in {1, 3} /\ d <= Len(s) /\ Len(t) = Len(s) - d /\ Len(s) \in Nat /\ Len(t) \in Nat
      /\ \A j \in 1..Len(t) : Escape(t, j) <=> Escape(s, j + d)
      /\ \A i \in 2..d : ~Escape(s, i)
      /\ Escape(s, 1) <=> d = 3
  BY EscapesBehind
<1>1. Kept(s) \subseteq 1..Len(s) /\ Kept(t) \subseteq 1..Len(t)
  BY DEF Kept
<1>2. \A i : i \in Escapes(s) <=> i \in 1..Len(s) /\ Escape(s, i)
  BY DEF Escapes
<1>3. \A i : i \in Escapes(t) <=> i \in 1..Len(t) /\ Escape(t, i)
  BY DEF Escapes
<1>4. \A i : i \in Kept(s) <=> i \in 1..Len(s) /\ i - 1 \notin Escapes(s) /\ i - 2 \notin Escapes(s)
  BY DEF Kept
<1>5. \A i : i \in Kept(t) <=> i \in 1..Len(t) /\ i - 1 \notin Escapes(t) /\ i - 2 \notin Escapes(t)
  BY DEF Kept
<1>. HIDE DEF d, t
<1>6. 1 \in Kept(s)
  BY <1>0, <1>2, <1>4
<1>7. ASSUME NEW i \in 2..d PROVE i \notin Kept(s)
  BY <1>0, <1>2, <1>4
<1>8. ASSUME NEW j \in 1..Len(t) PROVE j \in Kept(t) <=> j + d \in Kept(s)
  <2>1. j + d \in 1..Len(s)
    BY <1>0
  <2>2. j - 1 \in Escapes(t) <=> (j + d) - 1 \in Escapes(s)
    <3>1. CASE j = 1
      BY <1>0, <1>2, <1>3, <3>1
    <3>2. CASE j > 1
      <4>1. j - 1 \in 1..Len(t) /\ (j - 1) + d = (j + d) - 1 /\ (j + d) - 1 \in 1..Len(s)
        BY <1>0, <3>2
      <4>. QED
        BY <1>0, <1>2, <1>3, <4>1
    <3>. QED
      BY <3>1, <3>2
  <2>3. j - 2 \in Escapes(t) <=> (j + d) - 2 \in Escapes(s)
    <3>1. CASE j <= 2
      BY <1>0, <1>2, <1>3, <3>1
    <3>2. CASE j > 2
      <4>1. j - 2 \in 1..Len(t) /\ (j - 2) + d = (j + d) - 2 /\ (j + d) - 2 \in 1..Len(s)
        BY <1>0, <3>2
      <4>. QED
        BY <1>0, <1>2, <1>3, <4>1
    <3>. QED
      BY <3>1, <3>2
  <2>4. j \in Kept(t) <=> j - 1 \notin Escapes(t) /\ j - 2 \notin Escapes(t)
    BY <1>5, Zenon
  <2>5. j + d \in Kept(s) <=> (j + d) - 1 \notin Escapes(s) /\ (j + d) - 2 \notin Escapes(s)
    BY <1>4, <2>1, Zenon
  <2>. QED
    BY <2>2, <2>3, <2>4, <2>5, Zenon
<1>9. ASSUME NEW i \in Kept(s), i # 1 PROVE i - d \in Kept(t) /\ i = (i - d) + d
  <2>1. i \in 1..Len(s) /\ i \notin 2..d
    BY <1>1, <1>7
  <2>2. i - d \in 1..Len(t) /\ (i - d) + d = i
    BY <1>0, <1>9, <2>1
  <2>. QED
    BY <1>8, <2>2
<1>10. ASSUME NEW j \in Kept(t) PROVE j + d \in Kept(s)
  BY <1>1, <1>8
<1>11. Kept(s) = {1} \cup {j + d : j \in Kept(t)}
  BY <1>6, <1>9, <1>10
<1>. QED
  BY <1>11 DEF d, t

LEMMA KeptFinite ==
    ASSUME NEW s \in Seq(Bytes)
    PROVE  /\ Kept(s) \in SUBSET Nat /\ IsFiniteSet(Kept(s)) /\ Cardinality(Kept(s)) \in Nat
           /\ Kept(s) \subseteq 1..Len(s)
<1>1. Kept(s) \in SUBSET (1..Len(s)) /\ Len(s) \in Nat
  BY DEF Kept
<1>2. IsFiniteSet(1..Len(s))
  BY <1>1, FS_Interval
<1>3. IsFiniteSet(Kept(s))
  BY <1>1, <1>2, FS_Subset
<1>. QED
  BY <1>1, <1>3, FS_CardinalityType

\* KeptPlace is the place of a rank.
LEMMA KeptPlaceIs ==
    ASSUME NEW s \in Seq(Bytes), NEW k \in 1..Cardinality(Kept(s))
    PROVE  /\ KeptPlace(s, k) \in Kept(s)
           /\ \A i \in Kept(s) : Cardinality(UpTo(Kept(s), i)) = k => KeptPlace(s, k) = i
<1>1. /\ \E i \in Kept(s) : Cardinality(UpTo(Kept(s), i)) = k
      /\ \A i, j \in Kept(s) :
            Cardinality(UpTo(Kept(s), i)) = Cardinality(UpTo(Kept(s), j)) => i = j
  BY KeptFinite, RankOnce
<1>2. KeptPlace(s, k) = CHOOSE i \in Kept(s) : Cardinality(UpTo(Kept(s), i)) = k
  BY DEF KeptPlace, UpTo
<1>3. KeptPlace(s, k) \in Kept(s) /\ Cardinality(UpTo(Kept(s), KeptPlace(s, k))) = k
  BY <1>1, <1>2
<1>. QED
  BY <1>1, <1>3

\* The first kept place is 1, and the others are those behind, further on.
LEMMA KeptPlacesBehind ==
    ASSUME NEW s \in Seq(Bytes), s # <<>>
    PROVE  LET K == Kept(Behind(s)) IN
           /\ Cardinality(Kept(s)) = 1 + Cardinality(K)
           /\ KeptPlace(s, 1) = 1
           /\ \A k \in 1..Cardinality(K) :
                 KeptPlace(s, k + 1) = KeptPlace(Behind(s), k) + Taken(s)
<1>. DEFINE d == Taken(s)
            t == Behind(s)
            K == Kept(t)
            Further(S) == {x + d : x \in S}
<1>0. d \in {1, 3} /\ t \in Seq(Bytes)
  BY EscapesBehind
<1>1. Kept(s) = {1} \cup Further(K)
  BY KeptBehind
<1>2. K \in SUBSET Nat /\ IsFiniteSet(K) /\ Cardinality(K) \in Nat /\ K \subseteq 1..Len(t)
  BY <1>0, KeptFinite
<1>. HIDE DEF d, t
<1>3. ASSUME NEW S \in SUBSET K
      PROVE  /\ IsFiniteSet(S) /\ Cardinality(S) \in Nat
             /\ Cardinality({1} \cup Further(S)) = 1 + Cardinality(S)
  <2>1. IsFiniteSet(S) /\ Cardinality(S) \in Nat
    BY <1>2, FS_Subset, FS_CardinalityType
  <2>2. IsFiniteSet(Further(S)) /\ Cardinality(Further(S)) = Cardinality(S)
    <3>1. S \in SUBSET Nat /\ d \in Nat
      BY <1>0, <1>2
    <3>. QED
      BY <2>1, <3>1, ShiftedCard, Zenon
  <2>3. 1 \notin Further(S)
    BY <1>0, <1>2
  <2>. HIDE DEF Further
  <2>4. Cardinality(Further(S) \cup {1}) = Cardinality(S) + 1
    BY <2>2, <2>3, FS_AddElement
  <2>5. Further(S) \cup {1} = {1} \cup Further(S)
    OBVIOUS
  <2>6. Cardinality({1} \cup Further(S)) = Cardinality(S) + 1
    BY <2>4, <2>5, Zenon
  <2>7. Cardinality(S) + 1 = 1 + Cardinality(S)
    BY <2>1
  <2>. QED
    BY <2>1, <2>6, <2>7, Zenon
<1>4. Cardinality(Kept(s)) = 1 + Cardinality(K)
  BY <1>1, <1>3
<1>5. KeptPlace(s, 1) = 1
  <2>1. UpTo(Kept(s), 1) = {1}
    <3>1. \A x \in Further(K) : ~(x <= 1)
      BY <1>0, <1>2
    <3>. HIDE DEF K, Further
    <3>. QED
      BY <1>1, <3>1 DEF UpTo
  <2>2. Cardinality(UpTo(Kept(s), 1)) = 1
    BY <2>1, FS_Singleton
  <2>3. 1 \in Kept(s) /\ 1 \in 1..Cardinality(Kept(s))
    BY <1>1, <1>2, <1>4
  <2>. QED
    BY <2>2, <2>3, KeptPlaceIs
<1>6. ASSUME NEW k \in 1..Cardinality(K) PROVE KeptPlace(s, k + 1) = KeptPlace(t, k) + d
  <2>. DEFINE i == KeptPlace(t, k)
  <2>1. PICK j \in K : Cardinality(UpTo(K, j)) = k
    BY <1>2, RankOnce
  <2>2. i = j
    BY <1>0, <2>1, KeptPlaceIs
  <2>3. UpTo(Kept(s), j + d) = {1} \cup Further(UpTo(K, j))
    <3>1. 1 <= j + d /\ \A x \in K : x + d <= j + d <=> x <= j
      BY <1>0, <1>2
    <3>2. UpTo(Further(K), j + d) = Further(UpTo(K, j))
      BY <3>1 DEF UpTo
    <3>3. UpTo(Kept(s), j + d) = {1} \cup UpTo(Further(K), j + d)
      <4>. HIDE DEF K, Further
      <4>. QED
        BY <1>1, <3>1 DEF UpTo
    <3>. QED
      BY <3>2, <3>3
  <2>4. UpTo(K, j) \in SUBSET K
    BY DEF UpTo
  <2>5. Cardinality(UpTo(Kept(s), j + d)) = 1 + k
    BY <1>3, <2>1, <2>3, <2>4
  <2>6. j + d \in Kept(s) /\ k + 1 \in 1..Cardinality(Kept(s)) /\ 1 + k = k + 1
    BY <1>1, <1>2, <1>4
  <2>7. KeptPlace(s, k + 1) = j + d
    BY <2>5, <2>6, KeptPlaceIs
  <2>. QED
    BY <2>2, <2>7
<1>. QED
  BY <1>4, <1>5, <1>6 DEF d, t

\* What a string means: what its first byte or escape does, and the meaning of
\* what is behind.
LEMMA DecodedBehind ==
    ASSUME NEW s \in Seq(Bytes), s # <<>>
    PROVE  Decoded(s) = <<Meaning(s, 1)>> \o Decoded(Behind(s))
<1>. DEFINE d == Taken(s)
            t == Behind(s)
            n == Cardinality(Kept(t))
<1>0. /\ d \in {1, 3} /\ t \in Seq(Bytes) /\ Len(t) = Len(s) - d /\ Len(s) \in Nat
      /\ \A j \in 1..Len(t) : t[j] = s[j + d]
      /\ \A j \in 1..Len(t) : Escape(t, j) <=> Escape(s, j + d)
  BY EscapesBehind
<1>1. /\ Cardinality(Kept(s)) = 1 + n
      /\ KeptPlace(s, 1) = 1
      /\ \A k \in 1..n : KeptPlace(s, k + 1) = KeptPlace(t, k) + d
  BY KeptPlacesBehind
<1>2. n \in Nat /\ Kept(t) \subseteq 1..Len(t)
  BY <1>0, KeptFinite
<1>. HIDE DEF d, t, n
<1>3. ASSUME NEW j \in 1..Len(t) PROVE Meaning(s, j + d) = Meaning(t, j)
  <2>1. j + d \in 1..Len(s)
    BY <1>0
  <2>2. j \in Escapes(t) <=> j + d \in Escapes(s)
    BY <1>0, <2>1 DEF Escapes
  <2>3. CASE j \in Escapes(t)
    <3>1. j + 2 <= Len(t)
      BY <2>3 DEF Escapes, Escape
    <3>2. j + 1 \in 1..Len(t) /\ j + 2 \in 1..Len(t)
      BY <1>0, <3>1
    <3>3. t[j + 1] = s[(j + 1) + d] /\ t[j + 2] = s[(j + 2) + d]
      BY <1>0, <3>2
    <3>4. (j + 1) + d = (j + d) + 1 /\ (j + 2) + d = (j + d) + 2
      BY <1>0
    <3>. QED
      BY <2>2, <2>3, <3>3, <3>4 DEF Meaning
  <2>4. CASE j \notin Escapes(t)
    BY <1>0, <2>2, <2>4 DEF Meaning
  <2>. QED
    BY <2>3, <2>4
<1>4. Decoded(t) = [k \in 1..n |-> Meaning(t, KeptPlace(t, k))]
  BY DEF Decoded, n
<1>5. Decoded(s) = [k \in 1..(1 + n) |-> Meaning(s, KeptPlace(s, k))]
  BY <1>1 DEF Decoded
<1>6. ASSUME NEW k \in 1..n PROVE Decoded(s)[k + 1] = Decoded(t)[k]
  <2>1. KeptPlace(t, k) \in 1..Len(t)
    BY <1>0, <1>2, KeptPlaceIs DEF n
  <2>2. k + 1 \in 1..(1 + n)
    BY <1>2
  <2>. QED
    BY <1>1, <1>3, <1>4, <1>5, <2>1, <2>2
<1>7. Decoded(s)[1] = Meaning(s, 1)
  BY <1>1, <1>2, <1>5
<1>. DEFINE a == Decoded(s)
            b == Decoded(t)
            V == {a[k] : k \in 1..(1 + n)}
<1>8. /\ a \in Seq(V) /\ Len(a) = 1 + n
      /\ b \in Seq(V) /\ Len(b) = n
  <2>1. \A k \in 1..n : b[k] \in V
    <3>1. \A k \in 1..n : k + 1 \in 1..(1 + n)
      BY <1>2
    <3>. QED
      BY <1>6, <3>1
  <2>2. DOMAIN a = 1..(1 + n) /\ a = [k \in 1..(1 + n) |-> a[k]]
    BY <1>5
  <2>3. DOMAIN b = 1..n /\ b = [k \in 1..n |-> b[k]]
    BY <1>4
  <2>. HIDE DEF a, b
  <2>4. a \in [1..(1 + n) -> V] /\ b \in [1..n -> V]
    BY <2>1, <2>2, <2>3
  <2>. HIDE DEF V
  <2>. QED
    BY <1>2, <2>4, IsASeq
<1>9. Meaning(s, 1) = a[1] /\ \A k \in 1..n : a[k + 1] = b[k]
  BY <1>6, <1>7
<1>. HIDE DEF a, b
<1>10. a[1] \in V
  BY <1>2
<1>. HIDE DEF V
<1>11. a = <<a[1]>> \o b
  <2>. DEFINE c == <<a[1]>> \o b
  <2>1. c \in Seq(V) /\ Len(c) = 1 + n
    BY <1>2, <1>8, <1>10
  <2>2. ASSUME NEW i \in 1..(1 + n) PROVE c[i] = a[i]
    <3>1. CASE i = 1
      BY <1>2, <1>8, <1>10, <3>1
    <3>2. CASE i # 1
      <4>1. i - 1 \in 1..n /\ (i - 1) + 1 = i
        BY <1>2, <3>2
      <4>2. c[i] = b[i - 1]
        BY <1>2, <1>8, <1>10, <4>1
      <4>. QED
        BY <1>9, <4>1, <4>2
    <3>. QED
      BY <3>1, <3>2
  <2>. HIDE DEF c
  <2>3. c = a
    BY <1>8, <2>1, <2>2, SeqEqual
  <2>. QED
    BY <2>3 DEF c
<1>. QED
  BY <1>9, <1>11 DEF a, b, t

LEMMA DecodedEmpty == Decoded(<<>>) = <<>>
<1>1. Kept(<<>>) = {}
  BY DEF Kept
<1>2. Cardinality(Kept(<<>>)) = 0
  BY <1>1, FS_EmptySet
<1>. QED
  BY <1>2 DEF Decoded

\* What the loop makes of the string from place i on, when it makes f of the
\* places behind.
Turn(s, i, f) ==
    IF i > Len(s) THEN <<>>
    ELSE IF s[i] = Plus THEN <<Space>> \o f[i + 1]
    ELSE IF Escape(s, i) THEN <<16 * hv(s[i + 1]) + hv(s[i + 2])>> \o f[i + 3]
    ELSE <<s[i]>> \o f[i + 1]

\* The meaning of what is left at each place is what the loop's turn there makes
\* of the meanings of what is left behind it.
LEMMA TurnIsDecoded ==
    ASSUME NEW s \in Seq(Bytes), NEW f, NEW i \in 1..Len(s),
           \A k \in (i + 1)..(Len(s) + 3) : f[k] = Decoded(SubSeq(s, k, Len(s)))
    PROVE  Turn(s, i, f) = Decoded(SubSeq(s, i, Len(s)))
<1>. DEFINE n == Len(s)
            t == SubSeq(s, i, n)
            d == Taken(t)
<1>1. /\ n \in Nat /\ t \in Seq(Bytes) /\ Len(t) = (n - i) + 1 /\ t # <<>>
      /\ \A j \in 1..Len(t) : t[j] = s[(i + j) - 1]
  <2>1. n \in Nat /\ i \in 1..n
    OBVIOUS
  <2>2. /\ t \in Seq(Bytes) /\ Len(t) = (n - i) + 1
        /\ \A j \in 1..Len(t) : t[j] = s[(i + j) - 1]
    BY <2>1
  <2>3. Len(t) # 0
    BY <2>1, <2>2
  <2>. HIDE DEF t
  <2>4. t # <<>>
    BY <2>3
  <2>. QED
    BY <2>1, <2>2, <2>4
<1>2. /\ d \in {1, 3} /\ d <= Len(t) /\ (Escape(t, 1) <=> d = 3)
      /\ Behind(t) = SubSeq(t, d + 1, Len(t))
      /\ Behind(t) \in Seq(Bytes) /\ Len(Behind(t)) = Len(t) - d
      /\ \A j \in 1..Len(Behind(t)) : Behind(t)[j] = t[j + d]
  BY <1>1, EscapesBehind DEF Behind
<1>3. Decoded(t) = <<Meaning(t, 1)>> \o Decoded(Behind(t))
  BY <1>1, DecodedBehind
<1>. HIDE DEF t, d
<1>4. Behind(t) = SubSeq(s, i + d, n)
  <2>. DEFINE u == SubSeq(s, i + d, n)
  <2>1. /\ u \in Seq(Bytes) /\ Len(u) = Len(t) - d
        /\ \A j \in 1..Len(u) : u[j] = s[((i + d) + j) - 1]
    BY <1>1, <1>2
  <2>. HIDE DEF u
  <2>2. ASSUME NEW j \in 1..Len(u) PROVE Behind(t)[j] = u[j]
    <3>1. j + d \in 1..Len(t) /\ (i + (j + d)) - 1 = ((i + d) + j) - 1
      BY <1>1, <1>2, <2>1
    <3>. QED
      BY <1>1, <1>2, <2>1, <3>1
  <2>3. Behind(t) = u
    BY <1>2, <2>1, <2>2, SeqEqual
  <2>. QED
    BY <2>3 DEF u
<1>5. Decoded(Behind(t)) = f[i + d]
  <2>1. i + d \in (i + 1)..(n + 3)
    BY <1>1, <1>2
  <2>. QED
    BY <1>4, <2>1
<1>6. t[1] = s[i] /\ (3 <= Len(t) => t[2] = s[i + 1] /\ t[3] = s[i + 2])
  BY <1>1
<1>7. 3 <= Len(t) <=> i + 2 <= Len(s)
  BY <1>1
<1>8. Escape(t, 1) <=> Escape(s, i)
  BY <1>6, <1>7 DEF Escape
<1>9. 1 \in Escapes(t) <=> Escape(t, 1)
  BY <1>1 DEF Escapes
<1>10. CASE Escape(s, i)
  <2>1. s[i] # Plus /\ t[2] = s[i + 1] /\ t[3] = s[i + 2]
    BY <1>6, <1>7, <1>10 DEF Escape, Plus, Percent
  <2>2. Meaning(t, 1) = 16 * hv(s[i + 1]) + hv(s[i + 2])
    BY <1>8, <1>9, <1>10, <2>1 DEF Meaning
  <2>3. d = 3 /\ ~(i > Len(s))
    BY <1>2, <1>8, <1>10
  <2>. QED
    BY <1>3, <1>5, <1>10, <2>1, <2>2, <2>3 DEF Turn, t
<1>11. CASE ~Escape(s, i)
  <2>1. Meaning(t, 1) = IF s[i] = Plus THEN Space ELSE s[i]
    BY <1>6, <1>8, <1>9, <1>11 DEF Meaning
  <2>2. d = 1 /\ ~(i > Len(s))
    BY <1>2, <1>8, <1>11
  <2>. QED
    BY <1>3, <1>5, <1>11, <2>1, <2>2 DEF Turn, t
<1>. QED
  BY <1>10, <1>11

\* laure_url_decode does what its reference definition says, for any string.  The
\* loop is a recursive function: the meanings are one with its equation, and by
\* induction on what is left they are the only one.
LEMMA LoopIsDecoded ==
    ASSUME NEW s \in Seq(Bytes)
    PROVE  UrlDecode(s) = Decoded(s)
<1>. DEFINE n == Len(s)
            M == [i \in 1..(n + 3) |-> Decoded(SubSeq(s, i, n))]
            IsLoop(f) == f = [i \in 1..(n + 3) |-> Turn(s, i, f)]
<1>0. n \in Nat
  OBVIOUS
<1>1. ASSUME NEW f, NEW i \in (n + 1)..(n + 3) PROVE Turn(s, i, f) = Decoded(SubSeq(s, i, n))
  <2>1. i > n /\ SubSeq(s, i, n) = <<>>
    BY <1>0
  <2>. QED
    BY <2>1, DecodedEmpty DEF Turn
<1>2. IsLoop(M)
  <2>1. ASSUME NEW i \in 1..(n + 3) PROVE M[i] = Turn(s, i, M)
    <3>1. CASE i <= n
      <4>1. i \in 1..n /\ \A k \in (i + 1)..(n + 3) : k \in 1..(n + 3)
        BY <1>0, <3>1
      <4>2. \A k \in (i + 1)..(n + 3) : M[k] = Decoded(SubSeq(s, k, n))
        BY <4>1
      <4>3. M[i] = Decoded(SubSeq(s, i, n))
        OBVIOUS
      <4>. HIDE DEF M
      <4>. QED
        BY <4>1, <4>2, <4>3, TurnIsDecoded
    <3>2. CASE i > n
      <4>1. i \in (n + 1)..(n + 3)
        BY <1>0, <3>2
      <4>2. Turn(s, i, M) = Decoded(SubSeq(s, i, n))
        BY <1>1, <4>1
      <4>. QED
        BY <4>2
    <3>. QED
      BY <1>0, <3>1, <3>2
  <2>. QED
    BY <2>1
<1>3. ASSUME NEW f, IsLoop(f) PROVE f[1] = Decoded(s)
  <2>1. \A i \in 1..(n + 3) : f[i] = Turn(s, i, f)
    BY <1>3
  <2>. DEFINE S == {m \in Nat : m <= n + 2 =>
                                 f[(n + 3) - m] = Decoded(SubSeq(s, (n + 3) - m, n))}
  <2>2. ASSUME NEW m \in Nat, \A l \in 0..(m - 1) : l \in S PROVE m \in S
    <3>. SUFFICES ASSUME m <= n + 2
                  PROVE  f[(n + 3) - m] = Decoded(SubSeq(s, (n + 3) - m, n))
      OBVIOUS
    <3>. DEFINE i == (n + 3) - m
    <3>1. i \in 1..(n + 3)
      BY <1>0
    <3>2. CASE i <= n
      <4>1. ASSUME NEW k \in (i + 1)..(n + 3) PROVE f[k] = Decoded(SubSeq(s, k, n))
        <5>1. (n + 3) - k \in 0..(m - 1) /\ (n + 3) - k <= n + 2 /\ (n + 3) - ((n + 3) - k) = k
          BY <1>0, <3>1
        <5>2. (n + 3) - k \in S
          BY <2>2, <5>1
        <5>. QED
          BY <5>1, <5>2
      <4>2. i \in 1..n
        BY <3>1, <3>2
      <4>. HIDE DEF i
      <4>3. Turn(s, i, f) = Decoded(SubSeq(s, i, n))
        BY <4>1, <4>2, TurnIsDecoded
      <4>. QED
        BY <2>1, <3>1, <4>3 DEF i
    <3>3. CASE i > n
      <4>1. i \in (n + 1)..(n + 3)
        BY <1>0, <3>1, <3>3
      <4>. QED
        BY <1>1, <2>1, <3>1, <4>1
    <3>. QED
      BY <1>0, <3>1, <3>2, <3>3
  <2>3. Nat \subseteq S
    <3>. HIDE DEF S
    <3>. QED
      BY <2>2, NatInduct
  <2>4. n + 2 \in Nat /\ (n + 3) - (n + 2) = 1 /\ n + 2 <= n + 2
    BY <1>0
  <2>5. n + 2 \in S
    BY <2>3, <2>4
  <2>6. f[(n + 3) - (n + 2)] = Decoded(SubSeq(s, (n + 3) - (n + 2), n))
    BY <2>4, <2>5, Zenon
  <2>7. SubSeq(s, 1, n) = s
    OBVIOUS
  <2>. QED
    BY <2>4, <2>6, <2>7, Zenon
<1>. HIDE DEF M
<1>4. UrlDecode(s) = (CHOOSE f : IsLoop(f))[1]
  BY DEF UrlDecode, Turn
<1>. HIDE DEF IsLoop
<1>5. IsLoop(CHOOSE f : IsLoop(f))
  BY <1>2
<1>. QED
  BY <1>3, <1>4, <1>5

-----------------------------------------------------------------------------
(* What a browser encodes. *)

\* A recursive definition over the places of a string has a solution.
LEMMA EncodingExists ==
    ASSUME NEW s
    PROVE  \A n \in Nat : \E f : f = [i \in 0..n |-> IF i = 0 THEN <<>>
                                                    ELSE f[i - 1] \o EncodedByte(s[i])]
<1>. DEFINE IsEnc(f, n) == f = [i \in 0..n |-> IF i = 0 THEN <<>>
                                               ELSE f[i - 1] \o EncodedByte(s[i])]
            S == {n \in Nat : \E f : IsEnc(f, n)}
<1>1. ASSUME NEW n \in Nat, \A m \in 0..(n - 1) : m \in S PROVE n \in S
  <2>1. CASE n = 0
    <3>. DEFINE g == [i \in 0..0 |-> <<>>]
    <3>1. IsEnc(g, 0)
      OBVIOUS
    <3>. QED
      BY <2>1, <3>1
  <2>2. CASE n # 0
    <3>1. n - 1 \in 0..(n - 1) /\ n - 1 \in Nat
      BY <2>2
    <3>2. PICK f : IsEnc(f, n - 1)
      BY <1>1, <3>1
    <3>. DEFINE g == [i \in 0..n |-> IF i = n THEN f[n - 1] \o EncodedByte(s[n]) ELSE f[i]]
    <3>3. ASSUME NEW i \in 0..n
          PROVE  g[i] = IF i = 0 THEN <<>> ELSE g[i - 1] \o EncodedByte(s[i])
      <4>1. CASE i = 0
        BY <2>2, <3>2, <4>1
      <4>2. CASE i = n
        <5>1. n - 1 \in 0..n /\ n - 1 # n
          BY <2>2
        <5>. QED
          BY <2>2, <4>2, <5>1
      <4>3. CASE i # 0 /\ i # n
        <5>1. i \in 0..(n - 1) /\ i - 1 \in 0..n /\ i - 1 # n
          BY <4>3
        <5>2. f[i] = f[i - 1] \o EncodedByte(s[i])
          BY <3>2, <4>3, <5>1
        <5>. QED
          BY <4>3, <5>1, <5>2
      <4>. QED
        BY <4>1, <4>2, <4>3
    <3>4. IsEnc(g, n)
      BY <3>3
    <3>. HIDE DEF g, IsEnc
    <3>. QED
      BY <3>4
  <2>. QED
    BY <2>1, <2>2
<1>2. Nat \subseteq S
  <2>. HIDE DEF S
  <2>. QED
    BY <1>1, NatInduct
<1>. QED
  BY <1>2

\* The bytes that stand for one, in front of any others, are read as that one.
LEMMA EncodedByteDecoded ==
    ASSUME NEW c \in Bytes, NEW u \in Seq(Bytes)
    PROVE  /\ EncodedByte(c) \in Seq(Bytes)
           /\ Decoded(EncodedByte(c) \o u) = <<c>> \o Decoded(u)
<1>. DEFINE s == EncodedByte(c) \o u
<1>1. CASE c \in Digits \cup 65..90 \cup 97..122 \/ c = Space
  <2>. DEFINE b == IF c = Space THEN Plus ELSE c
  <2>1. EncodedByte(c) = <<b>> /\ b \in Bytes /\ b # Percent
    BY <1>1 DEF EncodedByte, Bytes, Digits, Space, Plus, Percent
  <2>2. (IF b = Plus THEN Space ELSE b) = c
    <3>1. CASE c = Space
      BY <3>1
    <3>2. CASE c # Space
      <4>1. c \in Digits \/ c \in 65..90 \/ c \in 97..122
        BY <1>1, <3>2
      <4>2. c # 43
        BY <4>1 DEF Digits, Bytes
      <4>. QED
        BY <3>2, <4>2 DEF Plus
    <3>. QED
      BY <3>1, <3>2
  <2>. HIDE DEF b
  <2>3. /\ s \in Seq(Bytes) /\ Len(s) = 1 + Len(u) /\ s[1] = b
        /\ \A j \in 1..Len(u) : s[j + 1] = u[j]
    BY <2>1
  <2>. HIDE DEF s
  <2>4. s # <<>> /\ ~Escape(s, 1)
    BY <2>1, <2>3 DEF Escape
  <2>5. Meaning(s, 1) = c
    <3>1. 1 \notin Escapes(s)
      BY <2>4 DEF Escapes
    <3>. QED
      BY <2>2, <2>3, <3>1 DEF Meaning
  <2>6. Behind(s) = u
    <3>1. /\ Behind(s) \in Seq(Bytes) /\ Len(Behind(s)) = Len(u)
          /\ \A j \in 1..Len(Behind(s)) : Behind(s)[j] = u[j]
      <4>1. Taken(s) = 1
        BY <2>4 DEF Taken
      <4>2. /\ Behind(s) \in Seq(Bytes) /\ Len(Behind(s)) = Len(s) - 1
            /\ \A j \in 1..Len(Behind(s)) : Behind(s)[j] = s[j + 1]
        BY <2>3, <2>4, <4>1, EscapesBehind
      <4>. QED
        BY <2>3, <4>2
    <3>. QED
      BY <3>1, SeqEqual
  <2>7. Decoded(s) = <<c>> \o Decoded(u)
    BY <2>3, <2>4, <2>5, <2>6, DecodedBehind
  <2>. QED
    <3>1. EncodedByte(c) \in Seq(Bytes)
      BY <2>1
    <3>. QED
      BY <2>7, <3>1, Zenon DEF s
<1>2. CASE ~(c \in Digits \cup 65..90 \cup 97..122 \/ c = Space)
  <2>. DEFINE h == HexOf(c \div 16)
              l == HexOf(c % 16)
  <2>1. EncodedByte(c) = <<Percent, h, l>>
    BY <1>2 DEF EncodedByte
  <2>2. ASSUME NEW d \in 0..15 PROVE HexOf(d) \in HexDigits /\ HexOf(d) \in Bytes /\ hv(HexOf(d)) = d
    BY DEF HexOf, HexDigits, Digits, Bytes, hv
  <2>3. c \div 16 \in 0..15 /\ c % 16 \in 0..15 /\ 16 * (c \div 16) + (c % 16) = c
    BY DEF Bytes
  <2>4. h \in HexDigits /\ l \in HexDigits /\ h \in Bytes /\ l \in Bytes /\ 16 * hv(h) + hv(l) = c
    <3>1. h \in HexDigits /\ h \in Bytes /\ hv(h) = c \div 16
      BY <2>2, <2>3
    <3>2. l \in HexDigits /\ l \in Bytes /\ hv(l) = c % 16
      BY <2>2, <2>3
    <3>. QED
      BY <2>3, <3>1, <3>2
  <2>5. Percent \in Bytes
    BY DEF Percent, Bytes
  <2>. HIDE DEF h, l
  <2>6. /\ s \in Seq(Bytes) /\ Len(s) = 3 + Len(u)
        /\ s[1] = Percent /\ s[2] = h /\ s[3] = l
        /\ \A j \in 1..Len(u) : s[j + 3] = u[j]
    BY <2>1, <2>4, <2>5
  <2>. HIDE DEF s
  <2>7. s # <<>> /\ Escape(s, 1)
    BY <2>4, <2>6 DEF Escape
  <2>8. Meaning(s, 1) = c
    <3>1. 1 \in Escapes(s)
      BY <2>6, <2>7 DEF Escapes
    <3>. QED
      BY <2>4, <2>6, <3>1 DEF Meaning
  <2>9. Behind(s) = u
    <3>1. /\ Behind(s) \in Seq(Bytes) /\ Len(Behind(s)) = Len(u)
          /\ \A j \in 1..Len(Behind(s)) : Behind(s)[j] = u[j]
      <4>1. Taken(s) = 3
        BY <2>7 DEF Taken
      <4>2. /\ Behind(s) \in Seq(Bytes) /\ Len(Behind(s)) = Len(s) - 3
            /\ \A j \in 1..Len(Behind(s)) : Behind(s)[j] = s[j + 3]
        BY <2>6, <2>7, <4>1, EscapesBehind
      <4>. QED
        BY <2>6, <4>2
    <3>. QED
      BY <3>1, SeqEqual
  <2>10. Decoded(s) = <<c>> \o Decoded(u)
    BY <2>6, <2>7, <2>8, <2>9, DecodedBehind
  <2>. QED
    <3>1. EncodedByte(c) \in Seq(Bytes)
      BY <2>1, <2>4, <2>5
    <3>. QED
      BY <2>10, <3>1, Zenon DEF s
<1>. QED
  BY <1>1, <1>2

\* A string means a string of bytes.
LEMMA DecodedBytes ==
    ASSUME NEW s \in Seq(Bytes)
    PROVE  Decoded(s) \in Seq(Bytes)
<1>1. Cardinality(Kept(s)) \in Nat /\ Kept(s) \subseteq 1..Len(s)
  BY KeptFinite
<1>2. ASSUME NEW i \in 1..Len(s) PROVE Meaning(s, i) \in Bytes
  <2>1. CASE i \in Escapes(s)
    <3>1. s[i + 1] \in HexDigits /\ s[i + 2] \in HexDigits
      BY <2>1 DEF Escapes, Escape
    <3>2. \A c \in HexDigits : hv(c) \in 0..15
      BY DEF HexDigits, Digits, hv
    <3>3. hv(s[i + 1]) \in 0..15 /\ hv(s[i + 2]) \in 0..15
      BY <3>1, <3>2
    <3>4. \A h, l \in 0..15 : 16 * h + l \in Bytes
      BY DEF Bytes
    <3>5. 16 * hv(s[i + 1]) + hv(s[i + 2]) \in Bytes
      BY <3>3, <3>4, Zenon
    <3>. QED
      BY <2>1, <3>5 DEF Meaning
  <2>2. CASE i \notin Escapes(s)
    <3>1. s[i] \in Bytes
      OBVIOUS
    <3>2. Space \in Bytes
      BY DEF Space, Bytes
    <3>. QED
      BY <2>2, <3>1, <3>2 DEF Meaning
  <2>. QED
    BY <2>1, <2>2
<1>3. \A k \in 1..Cardinality(Kept(s)) : Meaning(s, KeptPlace(s, k)) \in Bytes
  BY <1>1, <1>2, KeptPlaceIs
<1>. QED
  BY <1>1, <1>3 DEF Decoded

LEMMA JoinBytes ==
    ASSUME NEW a \in Seq(Bytes), NEW b \in Seq(Bytes), NEW c \in Seq(Bytes)
    PROVE  (a \o b) \o c = a \o (b \o c)
  BY ConcatAssociative

\* What was encoded is decoded again: by induction on the bytes encoded so far,
\* whatever comes behind them.
LEMMA EncodedDecoded ==
    ASSUME NEW s \in Seq(Bytes)
    PROVE  Encoded(s) \in Seq(Bytes) /\ Decoded(Encoded(s)) = s
<1>. DEFINE n == Len(s)
            IsEnc(f) == f = [i \in 0..n |-> IF i = 0 THEN <<>> ELSE f[i - 1] \o EncodedByte(s[i])]
            enc == CHOOSE f : IsEnc(f)
            Done(i) == /\ enc[i] \in Seq(Bytes)
                       /\ \A u \in Seq(Bytes) :
                             Decoded(enc[i] \o u) = SubSeq(s, 1, i) \o Decoded(u)
            S == {i \in Nat : i <= n => Done(i)}
<1>1. Encoded(s) = enc[n]
  BY DEF Encoded
<1>2. n \in Nat /\ \A i \in 1..n : s[i] \in Bytes
  OBVIOUS
<1>3. IsEnc(enc)
  <2>1. \E f : IsEnc(f)
    BY <1>2, EncodingExists
  <2>. HIDE DEF IsEnc
  <2>. QED
    BY <2>1
<1>4. enc[0] = <<>> /\ \A i \in 1..n : enc[i] = enc[i - 1] \o EncodedByte(s[i])
  <2>. HIDE DEF enc
  <2>. QED
    BY <1>2, <1>3
<1>. HIDE DEF enc
<1>5. ASSUME NEW u \in Seq(Bytes) PROVE Decoded(u) \in Seq(Bytes)
  BY DecodedBytes
<1>6. ASSUME NEW i \in Nat, \A m \in 0..(i - 1) : m \in S PROVE i \in S
  <2>. SUFFICES ASSUME i <= n PROVE Done(i)
    OBVIOUS
  <2>1. CASE i = 0
    <3>1. enc[i] = <<>> /\ SubSeq(s, 1, i) = <<>>
      BY <1>4, <2>1
    <3>2. ASSUME NEW u \in Seq(Bytes) PROVE Decoded(enc[i] \o u) = SubSeq(s, 1, i) \o Decoded(u)
      BY <1>5, <3>1
    <3>. QED
      BY <3>1, <3>2
  <2>2. CASE i # 0
    <3>. DEFINE c == s[i]
                e == EncodedByte(c)
    <3>1. i \in 1..n /\ i - 1 \in 0..(i - 1) /\ i - 1 <= n /\ i - 1 \in Nat /\ (i - 1) + 1 = i
      BY <1>2, <2>2
    <3>2. Done(i - 1)
      <4>1. i - 1 \in S
        BY <1>6, <3>1
      <4>. HIDE DEF Done
      <4>. QED
        BY <3>1, <4>1
    <3>3. c \in Bytes
      BY <1>2, <3>1
    <3>. HIDE DEF c
    <3>4. e \in Seq(Bytes)
      BY <3>3, EncodedByteDecoded
    <3>5. enc[i] = enc[i - 1] \o e
      BY <1>4, <3>1 DEF c
    <3>6. SubSeq(s, 1, i) = SubSeq(s, 1, i - 1) \o <<c>>
      <4>. DEFINE a == SubSeq(s, 1, i)
                  b == SubSeq(s, 1, i - 1)
      <4>1. a \in Seq(Bytes) /\ Len(a) = i /\ \A j \in 1..i : a[j] = s[j]
        BY <1>2, <3>1
      <4>2. b \in Seq(Bytes) /\ Len(b) = i - 1 /\ \A j \in 1..(i - 1) : b[j] = s[j]
        BY <1>2, <3>1
      <4>. HIDE DEF a, b
      <4>3. /\ b \o <<c>> \in Seq(Bytes) /\ Len(b \o <<c>>) = i
            /\ \A j \in 1..i : (b \o <<c>>)[j] = IF j = i THEN c ELSE b[j]
        BY <3>1, <3>3, <4>2
      <4>4. \A j \in 1..i : (b \o <<c>>)[j] = a[j]
        BY <3>1, <4>1, <4>2, <4>3 DEF c
      <4>5. a = b \o <<c>>
        BY <4>1, <4>3, <4>4, SeqEqual
      <4>. QED
        BY <4>5 DEF a, b
    <3>7. SubSeq(s, 1, i - 1) \in Seq(Bytes)
      BY <1>2, <3>1
    <3>. HIDE DEF e
    <3>8. ASSUME NEW u \in Seq(Bytes) PROVE Decoded(enc[i] \o u) = SubSeq(s, 1, i) \o Decoded(u)
      <4>1. enc[i] \o u = enc[i - 1] \o (e \o u) /\ e \o u \in Seq(Bytes)
        <5>1. enc[i - 1] \in Seq(Bytes)
          BY <3>2
        <5>2. e \o u \in Seq(Bytes)
          BY <3>4
        <5>3. (enc[i - 1] \o e) \o u = enc[i - 1] \o (e \o u)
          BY <3>4, <5>1, JoinBytes
        <5>. QED
          BY <3>5, <5>2, <5>3, Zenon
      <4>2. Decoded(enc[i] \o u) = SubSeq(s, 1, i - 1) \o Decoded(e \o u)
        BY <3>2, <4>1
      <4>3. Decoded(e \o u) = <<c>> \o Decoded(u)
        BY <3>3, EncodedByteDecoded DEF e
      <4>4. <<c>> \in Seq(Bytes)
        BY <3>3
      <4>5. SubSeq(s, 1, i - 1) \o (<<c>> \o Decoded(u)) = SubSeq(s, 1, i) \o Decoded(u)
        <5>1. Decoded(u) \in Seq(Bytes)
          BY <1>5
        <5>2. (SubSeq(s, 1, i - 1) \o <<c>>) \o Decoded(u)
                 = SubSeq(s, 1, i - 1) \o (<<c>> \o Decoded(u))
          BY <3>7, <4>4, <5>1, JoinBytes
        <5>. QED
          BY <3>6, <5>2, Zenon
      <4>. QED
        BY <4>2, <4>3, <4>5
    <3>9. enc[i] \in Seq(Bytes)
      BY <3>2, <3>4, <3>5
    <3>. QED
      BY <3>8, <3>9
  <2>. QED
    BY <2>1, <2>2
<1>7. Nat \subseteq S
  <2>. HIDE DEF S
  <2>. QED
    BY <1>6, NatInduct
<1>8. Done(n)
  <2>1. n \in S
    BY <1>2, <1>7
  <2>. HIDE DEF Done
  <2>. QED
    BY <1>2, <2>1
<1>9. enc[n] \o <<>> = enc[n] /\ SubSeq(s, 1, n) \o <<>> = s /\ <<>> \in Seq(Bytes)
  <2>1. SubSeq(s, 1, n) = s
    OBVIOUS
  <2>2. enc[n] \in Seq(Bytes)
    BY <1>8
  <2>. QED
    BY <2>1, <2>2
<1>10. Decoded(enc[n]) = s
  BY <1>8, <1>9, DecodedEmpty
<1>. QED
  BY <1>1, <1>8, <1>10

-----------------------------------------------------------------------------
(* The copy of the body. *)

\* Where a C string ends: at its first NUL, or where its memory does.
LEMMA CStringEnd ==
    ASSUME NEW s \in Seq(Bytes)
    PROVE  \/ /\ \A i \in 1..Len(s) : s[i] # NUL
              /\ CString(s) = s
           \/ \E e \in 1..Len(s) : /\ s[e] = NUL
                                   /\ CString(s) \in Seq(Bytes)
                                   /\ Len(CString(s)) = e - 1
                                   /\ \A i \in 1..(e - 1) : CString(s)[i] = s[i]
                                   /\ \A i \in 1..(e - 1) : s[i] # NUL
<1>. DEFINE ends == {i \in 1..Len(s) : s[i] = NUL}
<1>1. CASE ends = {}
  BY <1>1 DEF CString
<1>2. CASE ends # {}
  <2>. DEFINE e == Min(ends)
  <2>1. e \in 1..Len(s) /\ s[e] = NUL /\ \A i \in 1..(e - 1) : s[i] # NUL
    <3>1. ends \in SUBSET Nat
      OBVIOUS
    <3>2. e \in ends /\ \A i \in ends : e <= i
      <4>. HIDE DEF ends
      <4>. QED
        BY <1>2, <3>1, MinIsLeast
    <3>3. e \in 1..Len(s) /\ s[e] = NUL
      BY <3>2, Zenon
    <3>4. \A i \in 1..Len(s) : s[i] = NUL => e <= i
      BY <3>2, Zenon
    <3>. HIDE DEF e
    <3>. QED
      BY <3>3, <3>4
  <2>2. CString(s) = SubSeq(s, 1, e - 1)
    BY <1>2, Zenon DEF CString
  <2>. HIDE DEF e
  <2>3. e - 1 \in Nat /\ \A i \in 1..(e - 1) : i \in 1..Len(s)
    BY <2>1
  <2>4. /\ SubSeq(s, 1, e - 1) \in Seq(Bytes)
        /\ Len(SubSeq(s, 1, e - 1)) = e - 1
        /\ \A i \in 1..(e - 1) : SubSeq(s, 1, e - 1)[i] = s[i]
    BY <2>1, <2>3
  <2>. QED
    BY <2>1, <2>2, <2>4
<1>. QED
  BY <1>1, <1>2

\* The copy is shorter than the body only by what a NUL in it cut off; otherwise
\* it begins with the whole body.
LEMMA CopyOfBody ==
    ASSUME body \in Seq(Bytes)
    PROVE  /\ Copy \in Seq(Bytes)
           /\ Len(Copy) < Len(body) => \E i \in 1..(Len(body) - 1) : body[i] = NUL
           /\ Len(body) <= Len(Copy) => SubSeq(Copy, 1, Len(body)) = body
           /\ \A i \in 1..Len(body) : i <= Len(Copy) => Copy[i] = body[i]
<1>0. NUL \in Bytes /\ Len(body) \in Nat
  BY DEF NUL, Bytes
<1>1. CASE CString(body) = body
  <2>1. Copy \in Seq(Bytes) /\ Len(Copy) = Len(body) + 1
        /\ \A i \in 1..Len(body) : Copy[i] = body[i]
    BY <1>0, <1>1 DEF Copy
  <2>2. SubSeq(Copy, 1, Len(body)) \in Seq(Bytes)
        /\ Len(SubSeq(Copy, 1, Len(body))) = Len(body)
        /\ \A i \in 1..Len(body) : SubSeq(Copy, 1, Len(body))[i] = body[i]
    BY <1>0, <2>1
  <2>3. SubSeq(Copy, 1, Len(body)) = body
    BY <2>2
  <2>4. \A i \in 1..Len(body) : i <= Len(Copy) => Copy[i] = body[i]
    BY <2>1
  <2>. QED
    BY <1>0, <2>1, <2>3, <2>4
<1>2. ASSUME NEW e \in 1..Len(body), body[e] = NUL, CString(body) \in Seq(Bytes),
             Len(CString(body)) = e - 1, \A i \in 1..(e - 1) : CString(body)[i] = body[i]
      PROVE  /\ Copy \in Seq(Bytes)
             /\ Len(Copy) < Len(body) => \E i \in 1..(Len(body) - 1) : body[i] = NUL
             /\ Len(body) <= Len(Copy) => SubSeq(Copy, 1, Len(body)) = body
             /\ \A i \in 1..Len(body) : i <= Len(Copy) => Copy[i] = body[i]
  <2>1. /\ Copy \in Seq(Bytes) /\ Len(Copy) = e
        /\ \A i \in 1..e : Copy[i] = body[i]
    BY <1>0, <1>2 DEF Copy
  <2>2. Len(Copy) < Len(body) => e \in 1..(Len(body) - 1)
    BY <1>0, <2>1
  <2>3. ASSUME Len(body) <= Len(Copy) PROVE SubSeq(Copy, 1, Len(body)) = body
    <3>1. e = Len(body)
      BY <1>0, <2>1, <2>3
    <3>2. Copy = body
      BY <2>1, <3>1
    <3>. QED
      BY <3>2
  <2>4. \A i \in 1..Len(body) : i <= Len(Copy) => Copy[i] = body[i]
    BY <1>0, <2>1
  <2>. QED
    BY <1>2, <2>1, <2>2, <2>3, <2>4
<1>. QED
  BY <1>1, <1>2, CStringEnd

\* A copy as long as the body was cut off by no NUL before the body's last byte.
LEMMA WholeCopy ==
    ASSUME body \in Seq(Bytes), Len(body) <= Len(Copy)
    PROVE  ~NulInside
<1>1. CASE \A i \in 1..Len(body) : body[i] # NUL
  BY <1>1 DEF NulInside
<1>2. ASSUME NEW e \in 1..Len(body), CString(body) \in Seq(Bytes),
             Len(CString(body)) = e - 1, \A i \in 1..(e - 1) : body[i] # NUL
      PROVE  ~NulInside
  <2>1. Len(Copy) = e
    BY <1>2 DEF Copy
  <2>2. e = Len(body)
    BY <1>2, <2>1
  <2>. QED
    BY <1>2, <2>2 DEF NulInside
<1>. QED
  BY <1>1, <1>2, CStringEnd

-----------------------------------------------------------------------------
(* One turn of laure_parse_qs. *)

\* Where the field at p ends, and that the copy has the body's bytes up to there.
LEMMA FieldEndIs ==
    ASSUME body \in Seq(Bytes), p \in 1..Len(body), ~ReadsPast
    PROVE  /\ FieldEnd \in p..(Len(body) + 1)
           /\ \A i \in p..(FieldEnd - 1) : i <= Len(Copy) /\ Copy[i] = body[i] /\ body[i] # Amp
           /\ FieldEnd <= Len(body) => body[FieldEnd] = Amp
<1>. DEFINE n == Len(body)
            amps == {k \in p..n : k <= Len(Copy) /\ Copy[k] = Amp}
<1>1. /\ n \in Nat /\ Len(Copy) \in Nat
      /\ \A i \in 1..n : i <= Len(Copy) => Copy[i] = body[i]
  BY CopyOfBody
<1>2. Places(Amp, p, n + 1) = amps
  <2>1. (n + 1) - 1 = n
    BY <1>1
  <2>. QED
    BY <2>1 DEF Places
<1>3. FieldEnd = IF amps = {} THEN n + 1 ELSE Min(amps)
  BY <1>2 DEF FieldEnd
<1>4. CASE amps = {}
  <2>1. FieldEnd = n + 1 /\ n <= Len(Copy)
    BY <1>1, <1>3, <1>4 DEF ReadsPast
  <2>. HIDE DEF n
  <2>2. \A i \in p..((n + 1) - 1) : i \in 1..n /\ i <= Len(Copy) /\ i \in p..n
    BY <1>1, <2>1 DEF n
  <2>3. \A i \in p..n : i <= Len(Copy) => Copy[i] # Amp
    BY <1>4
  <2>. QED
    BY <1>1, <2>1, <2>2, <2>3 DEF n
<1>5. CASE amps # {}
  <2>. DEFINE e == Min(amps)
  <2>1. e \in amps /\ \A k \in amps : e <= k
    <3>1. amps \in SUBSET Nat
      OBVIOUS
    <3>. HIDE DEF amps
    <3>. QED
      BY <1>5, <3>1, MinIsLeast
  <2>2. FieldEnd = e
    BY <1>3, <1>5
  <2>. HIDE DEF e
  <2>3. e \in p..n /\ e <= Len(Copy) /\ Copy[e] = Amp
    BY <2>1
  <2>4. ASSUME NEW i \in p..(e - 1) PROVE i <= Len(Copy) /\ Copy[i] = body[i] /\ body[i] # Amp
    <3>1. i \in p..n /\ i \in 1..n /\ i <= Len(Copy) /\ ~(e <= i)
      BY <1>1, <2>3
    <3>2. i \notin amps
      BY <2>1, <3>1
    <3>. QED
      BY <1>1, <3>1, <3>2
  <2>5. body[e] = Amp
    BY <1>1, <2>3
  <2>6. e \in p..(n + 1)
    BY <1>1, <2>3
  <2>. QED
    BY <2>2, <2>4, <2>5, <2>6
<1>. QED
  BY <1>4, <1>5

\* The same piece of the copy and of the body.
LEMMA SamePiece ==
    ASSUME body \in Seq(Bytes), p \in 1..Len(body), ~ReadsPast,
           NEW j \in (p - 1)..(FieldEnd - 1)
    PROVE  /\ SubSeq(Copy, p, j) = SubSeq(body, p, j)
           /\ SubSeq(body, p, j) \in Seq(Bytes)
<1>1. /\ FieldEnd \in p..(Len(body) + 1) /\ Len(body) \in Nat
      /\ \A i \in p..(FieldEnd - 1) : i <= Len(Copy) /\ Copy[i] = body[i]
  BY FieldEndIs
<1>2. \A i \in p..j : i \in 1..Len(body) /\ i \in p..(FieldEnd - 1)
  BY <1>1
<1>3. \A i \in p..j : body[i] \in Bytes
  BY <1>2
<1>4. \A i \in p..j : Copy[i] = body[i]
  BY <1>1, <1>2
<1>5. p \in Int /\ j \in Int
  BY <1>1
<1>. DEFINE a == SubSeq(Copy, p, j)
            b == SubSeq(body, p, j)
<1>6. /\ a \in Seq(Bytes) /\ Len(a) = IF p <= j THEN (j - p) + 1 ELSE 0
      /\ \A i \in 1..((j - p) + 1) : a[i] = Copy[(p + i) - 1]
  <2>1. \A i \in p..j : Copy[i] \in Bytes
    BY <1>3, <1>4
  <2>. QED
    BY <1>5, <2>1, SubSeqProperties
<1>7. /\ b \in Seq(Bytes) /\ Len(b) = IF p <= j THEN (j - p) + 1 ELSE 0
      /\ \A i \in 1..((j - p) + 1) : b[i] = body[(p + i) - 1]
  BY <1>3, <1>5, SubSeqProperties
<1>. HIDE DEF a, b
<1>8. ASSUME NEW i \in 1..Len(a) PROVE a[i] = b[i]
  <2>1. i \in 1..((j - p) + 1) /\ (p + i) - 1 \in p..j
    BY <1>5, <1>6
  <2>. QED
    BY <1>4, <1>6, <1>7, <2>1
<1>9. a = b
  BY <1>6, <1>7, <1>8, SeqEqual
<1>. QED
  BY <1>7, <1>9 DEF a, b

\* What a turn of the loop takes for the field is the field, with its own name,
\* and for its value bytes of it.
LEMMA FieldIs ==
    ASSUME body \in Seq(Bytes), p \in 1..Len(body), ~ReadsPast, p < FieldEnd
    PROVE  /\ Field(FieldEnd).name = Name(<<p, FieldEnd - 1>>)
           /\ ValueOf(<<p, FieldEnd - 1>>, CString(Field(FieldEnd).val))
<1>. DEFINE end == FieldEnd
            f == <<p, end - 1>>
            eqs == {k \in p..(end - 1) : k <= Len(Copy) /\ Copy[k] = Equals}
            eq == IF eqs = {} THEN end ELSE Min(eqs)
            vl == IF eqs = {} THEN 0 ELSE end - eq - 1
<1>1. /\ end \in p..(Len(body) + 1) /\ Len(body) \in Nat
      /\ \A i \in p..(end - 1) : i <= Len(Copy) /\ Copy[i] = body[i]
  BY FieldEndIs
<1>2. Places(Equals, p, end) = eqs
  BY DEF Places
<1>3. /\ Field(end).name = UrlDecode(SubSeq(Copy, p, eq - 1))
      /\ Field(end).val = UrlDecode(SubSeq(Copy, p, p + vl - 1))
  BY <1>2 DEF Field
<1>. HIDE DEF end
<1>4. /\ eq \in p..end /\ (eqs = {} <=> eq = end)
      /\ \A i \in p..(eq - 1) : body[i] # Equals
      /\ eq < end => body[eq] = Equals
  <2>1. CASE eqs = {}
    <3>1. eq = end
      BY <2>1
    <3>2. \A i \in p..(end - 1) : body[i] # Equals
      BY <1>1, <2>1
    <3>. HIDE DEF eq, eqs
    <3>. QED
      BY <1>1, <2>1, <3>1, <3>2
  <2>2. CASE eqs # {}
    <3>1. eqs \in SUBSET Nat
      BY <1>1
    <3>2. eq = Min(eqs)
      BY <2>2
    <3>3. eq \in eqs /\ \A k \in eqs : eq <= k
      <4>. HIDE DEF eqs, eq
      <4>. QED
        BY <2>2, <3>1, <3>2, MinIsLeast
    <3>. HIDE DEF eq
    <3>4. eq \in p..(end - 1) /\ body[eq] = Equals
      BY <1>1, <3>3
    <3>5. ASSUME NEW i \in p..(eq - 1) PROVE body[i] # Equals
      <4>1. i \in p..(end - 1) /\ ~(eq <= i)
        BY <1>1, <3>4
      <4>2. i \notin eqs
        BY <3>3, <4>1
      <4>. QED
        BY <1>1, <4>1, <4>2
    <3>. HIDE DEF eqs
    <3>. QED
      BY <1>1, <2>2, <3>4, <3>5
  <2>. QED
    BY <2>1, <2>2
<1>5. vl = IF eq = end THEN 0 ELSE end - eq - 1
  BY <1>4
<1>. HIDE DEF eq, vl, eqs
<1>6. NameEnd(f) = eq - 1
  <2>. DEFINE S == {j \in (p - 1)..(end - 1) : \A i \in p..j : body[i] # Equals}
  <2>1. NameEnd(f) = Max(S)
    BY DEF NameEnd
  <2>2. eq - 1 \in S
    BY <1>1, <1>4
  <2>3. ASSUME NEW j \in S PROVE eq - 1 >= j
    <3>1. j \in (p - 1)..(end - 1) /\ \A i \in p..j : body[i] # Equals
      OBVIOUS
    <3>2. ~(eq - 1 >= j) => eq \in p..j /\ eq < end
      BY <1>1, <1>4, <3>1
    <3>. QED
      BY <1>4, <3>1, <3>2
  <2>4. S \subseteq Int /\ eq - 1 \in Int
    BY <1>1, <1>4
  <2>. HIDE DEF S
  <2>5. Max(S) = eq - 1
    <3>1. \A x \in S : (\A y \in S : x >= y) => x = eq - 1
      BY <2>2, <2>3, <2>4
    <3>. QED
      BY <2>2, <2>3, <3>1 DEF Max
  <2>. QED
    BY <2>1, <2>5
<1>7. Field(end).name = Name(f)
  <2>1. eq - 1 \in (p - 1)..(end - 1)
    BY <1>1, <1>4
  <2>2. SubSeq(Copy, p, eq - 1) = SubSeq(body, p, eq - 1) /\ SubSeq(body, p, eq - 1) \in Seq(Bytes)
    BY <2>1, SamePiece DEF end
  <2>3. Field(end).name = Decoded(SubSeq(body, p, eq - 1))
    BY <1>3, <2>2, LoopIsDecoded
  <2>. QED
    BY <1>6, <2>3 DEF Name
<1>8. ValueOf(f, CString(Field(end).val))
  <2>1. vl \in 0..(end - p) /\ p + vl - 1 \in (p - 1)..(end - 1)
    BY <1>1, <1>4, <1>5
  <2>2. /\ SubSeq(Copy, p, p + vl - 1) = SubSeq(body, p, p + vl - 1)
        /\ SubSeq(body, p, p + vl - 1) \in Seq(Bytes)
    BY <2>1, SamePiece DEF end
  <2>3. Field(end).val = Decoded(SubSeq(body, p, p + vl - 1))
    BY <1>3, <2>2, LoopIsDecoded
  <2>4. f[1] = p /\ f[2] = end - 1
    OBVIOUS
  <2>5. vl = IF NameEnd(f) = f[2] THEN 0 ELSE f[2] - NameEnd(f) - 1
    BY <1>1, <1>4, <1>5, <1>6
  <2>6. p \in f[1]..(f[2] + 1 - vl)
    BY <1>1, <2>1
  <2>. HIDE DEF f
  <2>. QED
    BY <2>3, <2>5, <2>6 DEF ValueOf
<1>. QED
  BY <1>7, <1>8 DEF end

\* A turn of the loop parses one more field, or none where two & meet.
LEMMA OneFieldMore ==
    ASSUME body \in Seq(Bytes), PlaceOK, p <= Len(body), ~ReadsPast, body' = body,
           p' = FieldEnd + 1
    PROVE  /\ FieldsParsed' = FieldsParsed \cup {f \in {<<p, FieldEnd - 1>>} : p < FieldEnd}
           /\ \A f \in FieldsParsed : f[1] < p
           /\ PlaceOK'
<1>. DEFINE n == Len(body)
            end == FieldEnd
            new == <<p, end - 1>>
            IsField(f) == /\ f[1] <= f[2]
                          /\ f[1] = 1 \/ body[f[1] - 1] = Amp
                          /\ f[2] = n \/ body[f[2] + 1] = Amp
                          /\ \A i \in f[1]..f[2] : body[i] # Amp
<1>0. n \in Nat /\ p \in 1..n
  BY DEF PlaceOK
<1>1. /\ end \in p..(n + 1)
      /\ \A i \in p..(end - 1) : body[i] # Amp
      /\ end <= n => body[end] = Amp
  BY <1>0, FieldEndIs
<1>2. p = 1 \/ body[p - 1] = Amp
  BY <1>0 DEF PlaceOK
<1>3. /\ FieldsParsed = {f \in (1..n) \X (1..n) : IsField(f) /\ f[2] + 1 < p}
      /\ FieldsParsed' = {f \in (1..n) \X (1..n) : IsField(f) /\ f[2] + 1 < end + 1}
  BY DEF FieldsParsed
<1>4. p' = end + 1 /\ body' = body
  OBVIOUS
<1>. HIDE DEF end, n
<1>5. PlaceOK'
  <2>1. p' \in 1..(n + 2)
    BY <1>0, <1>1, <1>4
  <2>2. CASE end <= n
    BY <1>0, <1>1, <1>4, <2>1, <2>2 DEF PlaceOK, n
  <2>3. CASE end = n + 1
    BY <1>0, <1>1, <1>4, <2>1, <2>3 DEF PlaceOK, n
  <2>. QED
    BY <1>0, <1>1, <2>2, <2>3
<1>6. ASSUME NEW a \in 1..n, NEW b \in 1..n, IsField(<<a, b>>), b + 1 < end + 1
      PROVE  b + 1 < p \/ (a = p /\ b = end - 1)
  <2>0. /\ a <= b /\ (a = 1 \/ body[a - 1] = Amp) /\ (b = n \/ body[b + 1] = Amp)
        /\ \A i \in a..b : body[i] # Amp
    BY <1>6
  <2>. SUFFICES ASSUME ~(b + 1 < p) PROVE a = p /\ b = end - 1
    OBVIOUS
  <2>1. b # p - 1
    BY <1>0, <1>2, <2>0
  <2>2. a >= p
    <3>1. a < p => p > 1 /\ p - 1 \in a..b
      BY <1>0, <2>1
    <3>. QED
      BY <1>0, <1>2, <2>0, <3>1
  <2>3. a = p
    <3>1. a # p => a # 1 /\ a - 1 \in p..(end - 1)
      BY <1>0, <1>1, <1>6, <2>0, <2>2
    <3>. QED
      BY <1>1, <2>0, <3>1
  <2>4. b = end - 1
    <3>1. b # end - 1 => b # n /\ b + 1 \in p..(end - 1)
      BY <1>0, <1>1, <1>6, <2>0, <2>2
    <3>. QED
      BY <1>1, <2>0, <3>1
  <2>. QED
    BY <2>3, <2>4
<1>7. ASSUME p < end PROVE new \in (1..n) \X (1..n) /\ IsField(new) /\ (end - 1) + 1 < end + 1
  <2>1. p \in 1..n /\ end - 1 \in 1..n /\ p <= end - 1 /\ (end - 1) + 1 < end + 1
    BY <1>0, <1>1, <1>7
  <2>2. p = 1 \/ body[p - 1] = Amp
    BY <1>2
  <2>3. end - 1 = n \/ body[(end - 1) + 1] = Amp
    <3>1. (end - 1) + 1 = end /\ (end <= n \/ end - 1 = n)
      BY <1>0, <1>1
    <3>. QED
      BY <1>1, <3>1
  <2>4. new[1] = p /\ new[2] = end - 1
    OBVIOUS
  <2>. QED
    BY <1>1, <2>1, <2>2, <2>3, <2>4
<1>8. ASSUME NEW a \in 1..n, NEW b \in 1..n, IsField(<<a, b>>), b + 1 < p
      PROVE  b + 1 < end + 1 /\ a < p
  BY <1>0, <1>1, <1>8
<1>9. ASSUME NEW a \in 1..n, NEW b \in 1..n
      PROVE  (IsField(<<a, b>>) /\ b + 1 < end + 1)
                <=> ((IsField(<<a, b>>) /\ b + 1 < p) \/ (p < end /\ <<a, b>> = new))
  <2>1. (IsField(<<a, b>>) /\ b + 1 < end + 1 /\ ~(b + 1 < p)) => p < end /\ <<a, b>> = new
    <3>1. ASSUME IsField(<<a, b>>), b + 1 < end + 1, ~(b + 1 < p)
          PROVE  a = p /\ b = end - 1 /\ p < end
      <4>1. a = p /\ b = end - 1
        BY <1>6, <3>1
      <4>2. a <= b
        BY <3>1
      <4>. QED
        BY <1>0, <1>1, <4>1, <4>2
    <3>. HIDE DEF IsField
    <3>. QED
      BY <3>1
  <2>2. p < end /\ <<a, b>> = new => IsField(<<a, b>>) /\ b + 1 < end + 1
    <3>1. <<a, b>> = new => b = end - 1
      OBVIOUS
    <3>. HIDE DEF IsField, new
    <3>. QED
      BY <1>7, <3>1
  <2>. HIDE DEF IsField, new
  <2>. QED
    BY <1>8, <2>1, <2>2
<1>10. /\ \A a, b \in 1..n : <<a, b>> \in FieldsParsed <=> IsField(<<a, b>>) /\ b + 1 < p
       /\ \A a, b \in 1..n : <<a, b>> \in FieldsParsed' <=> IsField(<<a, b>>) /\ b + 1 < end + 1
  BY <1>3
<1>11. /\ \A f \in FieldsParsed : f = <<f[1], f[2]>> /\ f[1] \in 1..n /\ f[2] \in 1..n
       /\ \A f \in FieldsParsed' : f = <<f[1], f[2]>> /\ f[1] \in 1..n /\ f[2] \in 1..n
  BY <1>3
<1>12. p < end => p \in 1..n /\ end - 1 \in 1..n
  BY <1>0, <1>1
<1>. HIDE DEF IsField
<1>13. FieldsParsed' = FieldsParsed \cup {f \in {new} : p < end}
  <2>1. ASSUME NEW f \in FieldsParsed' PROVE f \in FieldsParsed \cup {g \in {new} : p < end}
    BY <1>9, <1>10, <1>11
  <2>2. ASSUME NEW f \in FieldsParsed PROVE f \in FieldsParsed'
    BY <1>9, <1>10, <1>11
  <2>3. p < end => new \in FieldsParsed'
    BY <1>9, <1>10, <1>12
  <2>. QED
    BY <2>1, <2>2, <2>3
<1>14. \A f \in FieldsParsed : f[1] < p
  BY <1>8, <1>10, <1>11
<1>. QED
  BY <1>5, <1>13, <1>14 DEF end

\* The fields stored stay those of the form, each with bytes of its last field.
LEMMA ParseKeepsFields ==
    ASSUME body \in Seq(Bytes), PlaceOK, FieldsExact, ParseField
    PROVE  FieldsExact'
<1>. DEFINE end == FieldEnd
            new == <<p, end - 1>>
            k0 == CString(Field(end).name)
            v0 == CString(Field(end).val)
<1>0. /\ body' = body /\ p' = end + 1 /\ p <= Len(body) /\ ~ReadsPast
      /\ fields' = IF Field(end).name # <<>> THEN SetTake(fields, Field(end).name, Field(end).val)
                   ELSE fields
  BY DEF ParseField
<1>1. p \in 1..Len(body)
  BY <1>0 DEF PlaceOK
<1>2. /\ FieldsParsed' = FieldsParsed \cup {f \in {new} : p < end}
      /\ \A f \in FieldsParsed : f[1] < p
  BY <1>0, OneFieldMore
<1>3. /\ \A f : Name(f)' = Name(f)
      /\ \A f, v : ValueOf(f, v)' = ValueOf(f, v)
  BY <1>0 DEF Name, NameEnd, ValueOf
<1>4. p < end => /\ Field(end).name = Name(new)
                 /\ ValueOf(new, v0)
  BY <1>0, <1>1, FieldIs
<1>5. end \in p..(Len(body) + 1) /\ Len(body) \in Nat
  BY <1>0, <1>1, FieldEndIs
<1>6. Field(end).name # <<>> => p < end
  <2>. SUFFICES ASSUME end = p PROVE Field(end).name = <<>>
    BY <1>1, <1>5
  <2>1. Places(Equals, p, end) = {}
    BY <1>1 DEF Places
  <2>2. Field(end).name = UrlDecode(SubSeq(Copy, p, end - 1))
    BY <2>1 DEF Field
  <2>3. SubSeq(Copy, p, end - 1) = <<>>
    BY <1>1, SubSeqEmpty
  <2>. QED
    BY <2>2, <2>3, LoopIsDecoded, DecodedEmpty, EmptySeq
<1>7. /\ NamesExact <=> DOMAIN fields = {CString(Name(f)) : f \in {g \in FieldsParsed : Name(g) # <<>>}}
      /\ NamesExact' <=> DOMAIN fields' = {CString(Name(f)) : f \in {g \in FieldsParsed' : Name(g) # <<>>}}
  BY <1>3 DEF NamesExact
<1>8. \A k : /\ Named(k) = {f \in FieldsParsed : Name(f) # <<>> /\ CString(Name(f)) = k}
             /\ Named(k)' = {f \in FieldsParsed' : Name(f) # <<>> /\ CString(Name(f)) = k}
  BY <1>3 DEF Named
<1>9. ValuesOwn' <=> \A k \in DOMAIN fields' : \E f \in Named(k)' :
                        (\A g \in Named(k)' : g[1] <= f[1]) /\ ValueOf(f, fields'[k])
  BY <1>3 DEF ValuesOwn
<1>10. NamesExact /\ ValuesOwn
  BY DEF FieldsExact
<1>. HIDE DEF end, new
<1>11. CASE Field(end).name = <<>>
  <2>1. fields' = fields
    BY <1>0, <1>11
  <2>2. {g \in FieldsParsed' : Name(g) # <<>>} = {g \in FieldsParsed : Name(g) # <<>>}
    BY <1>2, <1>4, <1>11
  <2>3. NamesExact'
    BY <1>7, <1>10, <2>1, <2>2
  <2>4. \A k : Named(k)' = Named(k)
    BY <1>8, <2>2
  <2>5. ValuesOwn'
    BY <1>9, <1>10, <2>1, <2>4 DEF ValuesOwn
  <2>. QED
    BY <2>3, <2>5 DEF FieldsExact
<1>12. CASE Field(end).name # <<>>
  <2>1. p < end /\ Field(end).name = Name(new) /\ Name(new) # <<>> /\ ValueOf(new, v0)
    BY <1>4, <1>6, <1>12
  <2>2. /\ DOMAIN fields' = DOMAIN fields \cup {k0}
        /\ \A k \in DOMAIN fields' : fields'[k] = IF k = k0 THEN v0 ELSE fields[k]
    BY <1>0, <1>12 DEF SetTake
  <2>3. k0 = CString(Name(new))
    BY <2>1
  <2>. HIDE DEF k0, v0
  <2>4. FieldsParsed' = FieldsParsed \cup {new}
    BY <1>2, <2>1
  <2>5. {g \in FieldsParsed' : Name(g) # <<>>} = {g \in FieldsParsed : Name(g) # <<>>} \cup {new}
    BY <2>1, <2>4
  <2>6. NamesExact'
    <3>1. DOMAIN fields = {CString(Name(f)) : f \in {g \in FieldsParsed : Name(g) # <<>>}}
      BY <1>7, <1>10
    <3>2. DOMAIN fields' = {CString(Name(f)) : f \in {g \in FieldsParsed' : Name(g) # <<>>}}
      BY <2>2, <2>3, <2>5, <3>1
    <3>. QED
      BY <1>7, <3>2
  <2>7. ASSUME NEW k \in DOMAIN fields'
        PROVE  \E f \in Named(k)' : (\A g \in Named(k)' : g[1] <= f[1]) /\ ValueOf(f, fields'[k])
    <3>1. CASE k = k0
      <4>1. new \in Named(k)'
        BY <1>8, <2>1, <2>3, <2>4, <3>1
      <4>2. ASSUME NEW g \in Named(k)' PROVE g[1] <= new[1]
        <5>1. new[1] = p
          BY DEF new
        <5>2. g \in FieldsParsed \/ g = new
          BY <1>8, <2>4
        <5>3. g \in FieldsParsed => g[1] \in Nat
          BY DEF FieldsParsed
        <5>. QED
          BY <1>1, <1>2, <5>1, <5>2, <5>3
      <4>3. ValueOf(new, fields'[k])
        BY <2>1, <2>2, <3>1
      <4>. QED
        BY <4>1, <4>2, <4>3
    <3>2. CASE k # k0
      <4>1. Named(k)' = Named(k)
        BY <1>8, <2>3, <2>4, <3>2
      <4>2. k \in DOMAIN fields /\ fields'[k] = fields[k]
        BY <2>2, <3>2
      <4>. QED
        BY <1>10, <4>1, <4>2 DEF ValuesOwn
    <3>. QED
      BY <3>1, <3>2
  <2>8. ValuesOwn'
    BY <1>9, <2>7
  <2>. QED
    BY <2>6, <2>8 DEF FieldsExact
<1>. QED
  BY <1>11, <1>12

-----------------------------------------------------------------------------
(* The invariant. *)

LEMMA InitInv == Init => FormInv
<1>. SUFFICES ASSUME Init PROVE FormInv
  OBVIOUS
<1>1. PICK k \in 0..MaxLen : body \in [1..k -> Alphabet]
  BY DEF Init, Strings
<1>2. k \in Nat
  BY <1>1, MaxLenAssumption
<1>3. body \in Seq(Bytes)
  <2>1. body \in [1..k -> Bytes]
    BY <1>1, AlphabetAssumption
  <2>. QED
    BY <1>2, <2>1
<1>4. PlaceOK
  BY <1>3 DEF Init, PlaceOK
<1>5. FieldsExact
  <2>1. DOMAIN fields = {} /\ p = 1
    BY DEF Init
  <2>2. FieldsParsed = {}
    BY <2>1 DEF FieldsParsed
  <2>. QED
    BY <2>1, <2>2 DEF FieldsExact, NamesExact, ValuesOwn
<1>6. BodyExact
  BY DEF Init, BodyExact
<1>. QED
  BY <1>3, <1>4, <1>5, <1>6 DEF Init, FormInv, KnownReadPast

\* The fields are as exact as they were where a step leaves them and the place alone.
LEMMA FieldsStay ==
    ASSUME PlaceOK, FieldsExact, UNCHANGED <<body, p, fields>>
    PROVE  PlaceOK' /\ FieldsExact'
<1>1. FieldsParsed' = FieldsParsed /\ \A f : Name(f)' = Name(f)
  BY DEF FieldsParsed, Name, NameEnd
<1>2. \A k : Named(k)' = Named(k)
  BY <1>1 DEF Named
<1>3. \A f, v : ValueOf(f, v)' = ValueOf(f, v)
  BY DEF ValueOf, NameEnd
<1>. QED
  BY <1>1, <1>2, <1>3 DEF PlaceOK, FieldsExact, NamesExact, ValuesOwn

LEMMA StepInv == FormInv /\ [Next]_vars => FormInv'
<1>. SUFFICES ASSUME FormInv, [Next]_vars PROVE FormInv'
  OBVIOUS
<1>. USE DEF FormInv
<1>1. CASE ParseField
  <2>1. PlaceOK'
    BY <1>1, OneFieldMore DEF ParseField
  <2>2. FieldsExact'
    BY <1>1, ParseKeepsFields
  <2>. QED
    BY <1>1, <2>1, <2>2 DEF ParseField, BodyExact, KnownReadPast, NulInside
<1>2. CASE ParsePast
  <2>1. Len(Copy) < Len(body) /\ UNCHANGED <<body, p, fields, got>>
    BY <1>2 DEF ParsePast, ReadsPast
  <2>2. BodyExact' /\ KnownReadPast'
    BY <2>1, CopyOfBody DEF BodyExact, KnownReadPast, NulInside
  <2>. QED
    BY <2>1, <2>2, FieldsStay
<1>3. CASE GetBody
  <2>0. UNCHANGED <<body, p, fields>>
    BY <1>3 DEF GetBody
  <2>1. CASE Len(body) <= Len(Copy)
    <3>1. got' = <<body>> /\ UNCHANGED <<body, fault>>
      BY <1>3, <2>1, CopyOfBody DEF GetBody
    <3>2. BodyExact' /\ KnownReadPast'
      BY <2>1, <3>1, WholeCopy DEF BodyExact, KnownReadPast, NulInside
    <3>. QED
      BY <2>0, <3>2, FieldsStay
  <2>2. CASE ~(Len(body) <= Len(Copy))
    <3>1. Len(Copy) < Len(body)
      BY <2>2, CopyOfBody
    <3>2. UNCHANGED <<body, got>>
      BY <1>3, <2>2 DEF GetBody
    <3>3. BodyExact' /\ KnownReadPast'
      BY <3>1, <3>2, CopyOfBody DEF BodyExact, KnownReadPast, NulInside
    <3>. QED
      BY <2>0, <3>3, FieldsStay
  <2>. QED
    BY <2>1, <2>2
<1>4. CASE Terminated \/ UNCHANGED vars
  <2>1. UNCHANGED vars
    BY <1>4 DEF Terminated
  <2>2. BodyExact' /\ KnownReadPast'
    BY <2>1 DEF vars, BodyExact, KnownReadPast, NulInside
  <2>. QED
    BY <2>1, <2>2, FieldsStay DEF vars
<1>. QED
  BY <1>1, <1>2, <1>3, <1>4 DEF Next

\* The body, the fields parsed of it, what getBody returned of it and the reads
\* past the copy, for a body of any bytes and any length (http_server.c:180,
\* http_server.c:306, laure_parse_qs).
THEOREM Invariant == Spec => []FormInv
  BY InitInv, StepInv, PTL DEF Spec

\* laure_url_decode decodes every string as its reference definition says, well
\* formed or not, and gives back what was encoded.
THEOREM DecodesExactly == Spec => []DecodeExact
<1>1. FormInv => DecodeExact
  BY LoopIsDecoded, EncodedDecoded DEF FormInv, DecodeExact
<1>. QED
  BY <1>1, Invariant, PTL

\* laure_parse_qs stores exactly the names that the form has, each with bytes of
\* its own last field, wherever the fields begin and end in the body.
THEOREM FieldsOfTheForm == Spec => []FieldsExact
<1>1. FormInv => FieldsExact
  BY DEF FormInv
<1>. QED
  BY <1>1, Invariant, PTL

\* What getBody gives the script from within its copy is the body as it came, of
\* any bytes and any length, but with no NUL before the last byte.
THEOREM BodyAsItCame == Spec => []BodyExact
<1>1. FormInv => BodyExact
  BY DEF FormInv
<1>. QED
  BY <1>1, Invariant, PTL

\* Neither laure_parse_qs nor getBody looks past the copy that estrdup made of
\* the body, unless there is a NUL before the body's last byte.
THEOREM ReadsPastKnown == Spec => []KnownReadPast
<1>1. FormInv => KnownReadPast
  BY DEF FormInv
<1>. QED
  BY <1>1, Invariant, PTL

=============================================================================
