-------------------------- MODULE SubsequenceProofs --------------------------
(* What sorting, filtering, removing duplicates and flattening return. *)
EXTENDS Subsequences, SequencesExt, SequenceTheorems, FunctionTheorems, FiniteSetTheorems, TLAPS

-----------------------------------------------------------------------------
(* Strict total orders on a finite set. *)

(* How many elements of D are below i. *)
Below(D, B, i) == {j \in D : <<j, i>> \in B}
Rank(D, B, i) == Cardinality(Below(D, B, i))

StrictTotal(D, B) ==
    /\ \A i \in D : <<i, i>> \notin B
    /\ \A i, j, k \in D : <<i, j>> \in B /\ <<j, k>> \in B => <<i, k>> \in B
    /\ \A i, j \in D : i = j \/ <<i, j>> \in B \/ <<j, i>> \in B

LEMMA RankGrows ==
    ASSUME NEW D, IsFiniteSet(D), NEW B, StrictTotal(D, B),
           NEW i \in D, NEW j \in D, <<i, j>> \in B
    PROVE  Rank(D, B, i) < Rank(D, B, j)
<1>1. IsFiniteSet(Below(D, B, j)) /\ IsFiniteSet(Below(D, B, i))
  BY FS_Subset DEF Below
<1>2. Below(D, B, i) \in SUBSET Below(D, B, j)
  BY DEF StrictTotal, Below
<1>3. i \in Below(D, B, j) /\ i \notin Below(D, B, i)
  BY DEF StrictTotal, Below
<1>4. /\ Cardinality(Below(D, B, i)) <= Cardinality(Below(D, B, j))
      /\ Cardinality(Below(D, B, j)) # Cardinality(Below(D, B, i))
  BY <1>1, <1>2, <1>3, FS_Subset
<1>5. Cardinality(Below(D, B, i)) \in Nat /\ Cardinality(Below(D, B, j)) \in Nat
  BY <1>1, FS_CardinalityType
<1> QED
  BY <1>4, <1>5 DEF Rank

(* Each rank up to the number of elements belongs to an element. *)
LEMMA RanksFill ==
    ASSUME NEW D, IsFiniteSet(D), NEW B, StrictTotal(D, B)
    PROVE  /\ \A i \in D : Rank(D, B, i) \in 0..(Cardinality(D) - 1)
           /\ \A p \in 0..(Cardinality(D) - 1) : \E i \in D : Rank(D, B, i) = p
<1> DEFINE n == Cardinality(D)
           f == [i \in D |-> Rank(D, B, i)]
<1>1. n \in Nat
  BY FS_CardinalityType
<1>2. ASSUME NEW i \in D
      PROVE  Rank(D, B, i) \in 0..(n - 1)
  <2>1. Below(D, B, i) \in SUBSET (D \ {i})
    BY DEF Below, StrictTotal
  <2>2. IsFiniteSet(D \ {i}) /\ Cardinality(D \ {i}) = n - 1
    BY FS_RemoveElement
  <2>3. Cardinality(Below(D, B, i)) <= n - 1 /\ IsFiniteSet(Below(D, B, i))
    BY <2>1, <2>2, FS_Subset
  <2>4. Cardinality(Below(D, B, i)) \in Nat
    BY <2>3, FS_CardinalityType
  <2> HIDE DEF n
  <2> QED
    BY <1>1, <2>3, <2>4 DEF Rank
<1>3. \A i, j \in D : Rank(D, B, i) = Rank(D, B, j) => i = j
  <2> SUFFICES ASSUME NEW i \in D, NEW j \in D, i # j
               PROVE  Rank(D, B, i) # Rank(D, B, j)
    OBVIOUS
  <2>1. <<i, j>> \in B \/ <<j, i>> \in B
    BY DEF StrictTotal
  <2>2. Rank(D, B, i) \in Nat /\ Rank(D, B, j) \in Nat
    BY <1>1, <1>2
  <2> QED
    BY <2>1, <2>2, RankGrows
<1>4. f \in Injection(D, 0..(n - 1))
  <2>1. f \in [D -> 0..(n - 1)]
    BY <1>2
  <2>2. \A i, j \in D : f[i] = f[j] => i = j
    BY <1>3
  <2> QED
    BY <2>1, <2>2, Fun_IsInj
<1>5. IsFiniteSet(0..(n - 1)) /\ Cardinality(0..(n - 1)) = n
  <2> HIDE DEF n
  <2>1. 0 \in Int /\ n - 1 \in Int
    BY <1>1
  <2>2. /\ IsFiniteSet(0..(n - 1))
        /\ Cardinality(0..(n - 1)) = IF 0 > n - 1 THEN 0 ELSE (n - 1) - 0 + 1
    BY <2>1, FS_Interval
  <2> QED
    BY <1>1, <2>2
<1>6. f \in Surjection(D, 0..(n - 1))
  <2> HIDE DEF f
  <2> QED
    BY <1>4, <1>5, FS_Injection
<1>7. \A p \in 0..(n - 1) : \E i \in D : f[i] = p
  <2> HIDE DEF f, n
  <2> DEFINE T == 0..(n - 1)
  <2>1. f \in Surjection(D, T)
    BY <1>6
  <2> HIDE DEF T
  <2>2. \A p \in T : \E i \in D : f[i] = p
    BY <2>1, Fun_SurjectionProperties
  <2> QED
    BY <2>2 DEF T
<1> QED
  BY <1>2, <1>7

LEMMA LeastNatural ==
    ASSUME NEW T, T \subseteq Nat, T # {}
    PROVE  \E x \in T : \A y \in T : x <= y
<1>1. PICK m \in T : TRUE
  OBVIOUS
<1> DEFINE D == {y \in T : y <= m}
           B == {e \in D \X D : e[1] < e[2]}
<1>2. IsFiniteSet(D)
  <2>1. D \in SUBSET Nat /\ m \in Nat /\ \A y \in D : y <= m
    OBVIOUS
  <2> QED
    BY <2>1, FS_BoundedSetOfNaturals
<1>3. StrictTotal(D, B)
  BY DEF StrictTotal
<1>4. Cardinality(D) \in Nat /\ Cardinality(D) # 0
  <2>1. m \in D
    OBVIOUS
  <2> QED
    BY <1>2, <2>1, FS_CardinalityType, FS_EmptySet
<1>5. PICK x \in D : Rank(D, B, x) = 0
  <2> HIDE DEF D, B
  <2> QED
    BY <1>2, <1>3, <1>4, RanksFill
<1>6. Below(D, B, x) = {}
  BY <1>2, <1>5, FS_Subset, FS_EmptySet DEF Rank, Below
<1>7. \A y \in D : ~(y < x)
  <2>1. \A y \in D : <<y, x>> \notin B
    <3> HIDE DEF D, B
    <3> QED
      BY <1>6 DEF Below
  <2> QED
    BY <2>1
<1>8. x \in Nat /\ x <= m
  OBVIOUS
<1>9. \A y \in T : x <= y
  BY <1>7, <1>8
<1> QED
  BY <1>9

(* AtRank lists the elements, each once, in order. *)
LEMMA RanksList ==
    ASSUME NEW D, IsFiniteSet(D), NEW B, StrictTotal(D, B), NEW n \in Nat, n = Cardinality(D)
    PROVE  /\ \A p \in 1..n : AtRank(D, B, p) \in D
           /\ \A i \in D : \E p \in 1..n : AtRank(D, B, p) = i
           /\ \A p, q \in 1..n : p < q => <<AtRank(D, B, p), AtRank(D, B, q)>> \in B
<1>1. /\ \A i \in D : Rank(D, B, i) \in 0..(n - 1)
      /\ \A p \in 0..(n - 1) : \E i \in D : Rank(D, B, i) = p
  BY RanksFill
<1>2. ASSUME NEW p \in 1..n
      PROVE  AtRank(D, B, p) \in D /\ Rank(D, B, AtRank(D, B, p)) = p - 1
  <2>1. p - 1 \in 0..(n - 1)
    OBVIOUS
  <2>2. PICK i \in D : Rank(D, B, i) = p - 1
    BY <1>1, <2>1
  <2>3. \E j \in D : Cardinality({m \in D : <<m, j>> \in B}) = p - 1
    BY <2>2 DEF Rank, Below
  <2>4. /\ AtRank(D, B, p) \in D
        /\ Cardinality({m \in D : <<m, AtRank(D, B, p)>> \in B}) = p - 1
    BY <2>3, Zenon DEF AtRank
  <2> QED
    BY <2>4 DEF Rank, Below
<1>3. ASSUME NEW i \in D, NEW j \in D, i # j
      PROVE  Rank(D, B, i) # Rank(D, B, j)
  <2>1. <<i, j>> \in B \/ <<j, i>> \in B
    BY <1>3 DEF StrictTotal
  <2>2. Rank(D, B, i) \in Nat /\ Rank(D, B, j) \in Nat
    BY <1>1
  <2> QED
    BY <2>1, <2>2, RankGrows
<1>4. ASSUME NEW i \in D
      PROVE  \E p \in 1..n : AtRank(D, B, p) = i
  <2>1. PICK r \in 0..(n - 1) : r = Rank(D, B, i)
    BY <1>1
  <2>2. r + 1 \in 1..n /\ (r + 1) - 1 = r
    OBVIOUS
  <2>3. AtRank(D, B, r + 1) \in D /\ Rank(D, B, AtRank(D, B, r + 1)) = r
    BY <1>2, <2>2
  <2> QED
    BY <1>3, <2>1, <2>2, <2>3
<1>5. ASSUME NEW p \in 1..n, NEW q \in 1..n, p < q
      PROVE  <<AtRank(D, B, p), AtRank(D, B, q)>> \in B
  <2>1. PICK i \in D : i = AtRank(D, B, p)
    BY <1>2
  <2>2. PICK j \in D : j = AtRank(D, B, q)
    BY <1>2
  <2>3. Rank(D, B, i) = p - 1 /\ Rank(D, B, j) = q - 1
    BY <1>2, <2>1, <2>2
  <2>4. p - 1 < q - 1 /\ ~(q - 1 < p - 1) /\ p - 1 # q - 1
    BY <1>5
  <2>5. i # j /\ <<j, i>> \notin B
    BY <2>3, <2>4, RankGrows
  <2>6. <<i, j>> \in B
    BY <2>5 DEF StrictTotal
  <2> QED
    BY <2>1, <2>2, <2>6
<1> QED
  BY <1>2, <1>4, <1>5

-----------------------------------------------------------------------------
(* Subsequences. *)

(* The numbers of a finite set, in order. *)
LEMMA OrderOfNumbers ==
    ASSUME NEW S, S \subseteq Nat, IsFiniteSet(S), NEW n \in Nat, n = Cardinality(S)
    PROVE  /\ InOrder(S) \in [1..n -> S]
           /\ \A i \in S : \E p \in 1..n : InOrder(S)[p] = i
           /\ \A p, q \in 1..n : p < q => InOrder(S)[p] < InOrder(S)[q]
<1>1. \A i, j \in S : <<i, j>> \in Increasing(S) <=> i < j
  BY DEF Increasing
<1>2. StrictTotal(S, Increasing(S))
  BY <1>1 DEF StrictTotal
<1>3. /\ \A p \in 1..n : AtRank(S, Increasing(S), p) \in S
      /\ \A i \in S : \E p \in 1..n : AtRank(S, Increasing(S), p) = i
      /\ \A p, q \in 1..n :
            p < q => <<AtRank(S, Increasing(S), p), AtRank(S, Increasing(S), q)>> \in Increasing(S)
  BY <1>2, RanksList
<1>4. InOrder(S) = [p \in 1..n |-> AtRank(S, Increasing(S), p)]
  BY DEF InOrder
<1>5. /\ InOrder(S) \in [1..n -> S]
      /\ \A i \in S : \E p \in 1..n : InOrder(S)[p] = i
  BY <1>3, <1>4
<1>6. ASSUME NEW p \in 1..n, NEW q \in 1..n, p < q
      PROVE  InOrder(S)[p] < InOrder(S)[q]
  <2>1. PICK i \in S, j \in S : i = InOrder(S)[p] /\ j = InOrder(S)[q]
    BY <1>5
  <2>2. <<i, j>> \in Increasing(S)
    BY <1>3, <1>4, <1>6, <2>1
  <2> QED
    BY <1>1, <2>1, <2>2
<1> QED
  BY <1>5, <1>6

(* What is left of a sequence keeps its order. *)
IsKeeping(n, s, keep, place) ==
    /\ n \in Nat
    /\ place \in [1..n -> keep]
    /\ Subsequence(s, keep) = [p \in 1..n |-> s[place[p]]]
    /\ \A i \in keep : \E p \in 1..n : place[p] = i
    /\ \A p, q \in 1..n : p < q => place[p] < place[q]

LEMMA Keeps ==
    ASSUME NEW S, NEW s \in Seq(S), NEW keep, keep \subseteq DOMAIN s
    PROVE  /\ Subsequence(s, keep) \in Seq(S)
           /\ \E n, place : IsKeeping(n, s, keep, place)
<1>1. PICK m \in Nat : m = Len(s)
  BY LenProperties
<1>2. DOMAIN s = 1..m /\ s \in [1..m -> S]
  BY <1>1, LenProperties
<1>3. keep \subseteq Nat /\ IsFiniteSet(keep)
  <2>1. IsFiniteSet(1..m)
    BY FS_Interval
  <2>2. keep \in SUBSET (1..m)
    BY <1>2
  <2> QED
    BY <2>1, <2>2, FS_Subset
<1>4. PICK n \in Nat : n = Cardinality(keep)
  BY <1>3, FS_CardinalityType
<1>5. PICK place : place = InOrder(keep)
  OBVIOUS
<1>6. /\ place \in [1..n -> keep]
      /\ \A i \in keep : \E p \in 1..n : place[p] = i
      /\ \A p, q \in 1..n : p < q => place[p] < place[q]
  BY <1>3, <1>4, <1>5, OrderOfNumbers
<1>7. Subsequence(s, keep) = [p \in 1..n |-> s[place[p]]]
  BY <1>4, <1>5 DEF Subsequence
<1>8. [p \in 1..n |-> s[place[p]]] \in [1..n -> S]
  BY <1>2, <1>6
<1>9. Subsequence(s, keep) \in Seq(S)
  BY <1>7, <1>8, SeqDef
<1>10. IsKeeping(n, s, keep, place)
  BY <1>6, <1>7 DEF IsKeeping
<1> QED
  BY <1>9, <1>10

(* Only one function lists numbers in order. *)
LEMMA OrderIs ==
    ASSUME NEW S, S \subseteq Nat, NEW n \in Nat, NEW g \in [1..n -> S],
           \A i \in S : \E p \in 1..n : g[p] = i,
           \A p, q \in 1..n : p < q => g[p] < g[q]
    PROVE  IsFiniteSet(S) /\ Cardinality(S) = n /\ InOrder(S) = g
<1>1. g \in Bijection(1..n, S)
  <2>1. \A p, q \in 1..n : g[p] = g[q] => p = q
    <3> SUFFICES ASSUME NEW p \in 1..n, NEW q \in 1..n, p # q
                 PROVE  g[p] # g[q]
      OBVIOUS
    <3>1. p < q \/ q < p
      OBVIOUS
    <3>2. g[p] \in Nat /\ g[q] \in Nat
      OBVIOUS
    <3> QED
      BY <3>1, <3>2
  <2>2. g \in Injection(1..n, S)
    BY <2>1, Fun_IsInj
  <2>3. g \in Surjection(1..n, S)
    BY Fun_IsSurj
  <2> QED
    BY <2>2, <2>3 DEF Bijection
<1>2. IsFiniteSet(1..n) /\ Cardinality(1..n) = n
  BY FS_Interval
<1>3. IsFiniteSet(S) /\ Cardinality(S) = n
  <2>1. ExistsBijection(1..n, S)
    BY <1>1 DEF ExistsBijection
  <2> QED
    BY <1>2, <2>1, FS_Bijection
<1>4. PICK h : h = InOrder(S)
  OBVIOUS
<1>5. /\ h \in [1..n -> S]
      /\ \A i \in S : \E p \in 1..n : h[p] = i
      /\ \A p, q \in 1..n : p < q => h[p] < h[q]
  <2>1. /\ InOrder(S) \in [1..n -> S]
        /\ \A i \in S : \E p \in 1..n : InOrder(S)[p] = i
        /\ \A p, q \in 1..n : p < q => InOrder(S)[p] < InOrder(S)[q]
    BY <1>3, OrderOfNumbers
  <2> QED
    BY <1>4, <2>1
<1> DEFINE T == {p \in 1..n : h[p] # g[p]}
<1>6. ASSUME T # {} PROVE FALSE
  <2>1. T \subseteq Nat
    OBVIOUS
  <2>2. PICK p \in T : \A q \in T : p <= q
    BY <1>6, <2>1, LeastNatural
  <2>3. p \in 1..n /\ h[p] # g[p] /\ h[p] \in S /\ g[p] \in S
    BY <1>5
  <2>4. PICK q \in 1..n : g[q] = h[p]
    BY <2>3
  <2>5. PICK r \in 1..n : h[r] = g[p]
    BY <1>5, <2>3
  <2>6. h[p] \in Nat /\ g[p] \in Nat
    BY <2>3
  <2>7. q # p /\ r # p
    BY <2>3, <2>4, <2>5
  <2>8. CASE q < p
    <3>1. h[q] = g[q]
      BY <2>2, <2>3, <2>8
    <3>2. h[q] < h[p]
      BY <1>5, <2>3, <2>8
    <3> QED
      BY <2>4, <2>6, <3>1, <3>2
  <2>9. CASE r < p
    <3>1. h[r] = g[r]
      BY <2>2, <2>3, <2>9
    <3>2. g[r] < g[p]
      BY <2>3, <2>9
    <3> QED
      BY <2>5, <2>6, <3>1, <3>2
  <2>10. CASE p < q /\ p < r
    <3>1. g[p] < g[q] /\ h[p] < h[r]
      BY <1>5, <2>3, <2>10
    <3> QED
      BY <2>4, <2>5, <2>6, <3>1
  <2> QED
    BY <2>3, <2>7, <2>8, <2>9, <2>10
<1>7. h = g
  BY <1>5, <1>6
<1> QED
  BY <1>3, <1>4, <1>7

LEMMA KeepingIs ==
    ASSUME NEW s, NEW keep, keep \subseteq Nat, NEW n \in Nat, NEW place \in [1..n -> keep],
           \A i \in keep : \E p \in 1..n : place[p] = i,
           \A p, q \in 1..n : p < q => place[p] < place[q]
    PROVE  IsKeeping(n, s, keep, place)
<1>1. Cardinality(keep) = n /\ InOrder(keep) = place
  BY OrderIs
<1>2. Subsequence(s, keep) = [p \in 1..n |-> s[place[p]]]
  BY <1>1 DEF Subsequence
<1> QED
  BY <1>2 DEF IsKeeping

(* The rest of a sequence has no part in its subsequence. *)
LEMMA KeptAlone ==
    ASSUME NEW S, NEW s \in Seq(S), NEW t, NEW keep, keep \subseteq DOMAIN s,
           \A i \in keep : s[i] = t[i]
    PROVE  Subsequence(s, keep) = Subsequence(t, keep)
<1>1. PICK n, place : IsKeeping(n, s, keep, place)
  BY Keeps
<1>2. DOMAIN s \subseteq Nat
  BY LenProperties
<1>3. IsKeeping(n, t, keep, place)
  <2>1. keep \subseteq Nat
    BY <1>2
  <2>2. /\ n \in Nat /\ place \in [1..n -> keep]
        /\ \A i \in keep : \E p \in 1..n : place[p] = i
        /\ \A p, q \in 1..n : p < q => place[p] < place[q]
    BY <1>1 DEF IsKeeping
  <2> QED
    BY <2>1, <2>2, KeepingIs
<1>4. \A p \in 1..n : s[place[p]] = t[place[p]]
  BY <1>1 DEF IsKeeping
<1> QED
  BY <1>1, <1>3, <1>4 DEF IsKeeping

LEMMA NothingKept == ASSUME NEW s PROVE Subsequence(s, {}) = <<>>
<1>1. Subsequence(s, {}) = [p \in 1..0 |-> s[InOrder({})[p]]]
  BY FS_EmptySet DEF Subsequence
<1> QED
  BY <1>1

LEMMA OneMoreKept ==
    ASSUME NEW S, NEW s \in Seq(S), NEW keep, keep \subseteq DOMAIN s, NEW i \in DOMAIN s,
           \A j \in keep : j < i
    PROVE  Subsequence(s, keep \cup {i}) = Append(Subsequence(s, keep), s[i])
<1>1. PICK n, place : IsKeeping(n, s, keep, place)
  BY Keeps
<1>2. DOMAIN s \subseteq Nat /\ s[i] \in S
  BY LenProperties, ElementOfSeq
<1>3. n \in Nat /\ place \in [1..n -> keep]
  BY <1>1 DEF IsKeeping
<1>4. PICK m \in Nat : m = n + 1
  BY <1>3
<1> DEFINE more == [p \in 1..m |-> IF p = m THEN i ELSE place[p]]
<1>5. \A p \in 1..n : p \in 1..m /\ more[p] = place[p]
  BY <1>3, <1>4
<1>6. m \in 1..m /\ more[m] = i
  <2>1. m \in 1..m
    BY <1>3, <1>4
  <2> QED
    BY <2>1
<1>7. \A p \in 1..m : p = m \/ p \in 1..n
  BY <1>3, <1>4
<1>8. more \in [1..m -> keep \cup {i}]
  BY <1>3, <1>5, <1>6, <1>7
<1> HIDE DEF more
<1>9. \A j \in keep \cup {i} : \E p \in 1..m : more[p] = j
  BY <1>1, <1>5, <1>6 DEF IsKeeping
<1>10. ASSUME NEW p \in 1..m, NEW q \in 1..m, p < q
       PROVE  more[p] < more[q]
  <2>1. p \in 1..n
    BY <1>3, <1>4, <1>10
  <2>2. CASE q = m
    BY <1>3, <1>5, <1>6, <2>1, <2>2
  <2>3. CASE q # m
    <3>1. q \in 1..n
      BY <1>7, <2>3
    <3> QED
      BY <1>1, <1>5, <1>10, <2>1, <3>1 DEF IsKeeping
  <2> QED
    BY <2>2, <2>3
<1>11. IsKeeping(m, s, keep \cup {i}, more)
  <2>1. keep \cup {i} \subseteq Nat
    BY <1>2
  <2> QED
    BY <1>8, <1>9, <1>10, <2>1, KeepingIs
<1>12. PICK kept : kept = Subsequence(s, keep)
  OBVIOUS
<1>13. kept \in Seq(S) /\ Len(kept) = n /\ \A p \in 1..n : kept[p] = s[place[p]]
  <2>1. kept \in Seq(S)
    BY <1>12, Keeps
  <2>2. kept = [p \in 1..n |-> s[place[p]]]
    BY <1>1, <1>12 DEF IsKeeping
  <2>3. DOMAIN kept = 1..n
    BY <2>2
  <2> QED
    BY <1>3, <2>1, <2>2, <2>3, LenProperties
<1>14. PICK longer : longer = Append(kept, s[i])
  OBVIOUS
<1>15. /\ longer \in Seq(S) /\ Len(longer) = m
       /\ \A p \in 1..n : longer[p] = kept[p]
       /\ longer[m] = s[i]
  BY <1>2, <1>3, <1>4, <1>13, <1>14, AppendProperties
<1>16. longer = [p \in 1..m |-> longer[p]]
  BY <1>4, <1>15, LenProperties
<1>17. \A p \in 1..m : longer[p] = s[more[p]]
  BY <1>5, <1>6, <1>7, <1>13, <1>15
<1>18. Subsequence(s, keep \cup {i}) = [p \in 1..m |-> s[more[p]]]
  BY <1>11 DEF IsKeeping
<1> QED
  BY <1>12, <1>14, <1>16, <1>17, <1>18

(* The places in L, moved behind the first k, with those in K. *)
Behind(K, k, L) == K \cup {k + j : j \in L}

(* A subsequence of a concatenation is that of its parts. *)
LEMMA KeptOfBoth ==
    ASSUME NEW S, NEW s \in Seq(S), NEW t \in Seq(S),
           NEW K, K \subseteq DOMAIN s, NEW L, L \subseteq DOMAIN t
    PROVE  Subsequence(s \o t, Behind(K, Len(s), L)) = Subsequence(s, K) \o Subsequence(t, L)
<1> DEFINE keep == K \cup {Len(s) + j : j \in L}
<1>1. PICK m, a : IsKeeping(m, s, K, a)
  BY Keeps
<1>2. PICK n, b : IsKeeping(n, t, L, b)
  BY Keeps
<1>3. m \in Nat /\ n \in Nat /\ a \in [1..m -> K] /\ b \in [1..n -> L]
  BY <1>1, <1>2 DEF IsKeeping
<1>4. PICK k \in Nat : k = Len(s) /\ DOMAIN s = 1..k
  BY LenProperties
<1>5. PICK l \in Nat : l = Len(t) /\ DOMAIN t = 1..l
  BY LenProperties
<1> DEFINE both == [p \in 1..(m + n) |-> IF p <= m THEN a[p] ELSE k + b[p - m]]
<1>6. \A p \in 1..m : p \in 1..(m + n) /\ both[p] = a[p] /\ a[p] \in K /\ a[p] \in 1..k
  BY <1>3, <1>4
<1>7. \A q \in 1..n : m + q \in 1..(m + n) /\ both[m + q] = k + b[q] /\ b[q] \in L /\ b[q] \in 1..l
  BY <1>3, <1>5
<1>8. \A p \in 1..(m + n) : p \in 1..m \/ \E q \in 1..n : p = m + q
  <2> SUFFICES ASSUME NEW p \in 1..(m + n), p \notin 1..m PROVE \E q \in 1..n : p = m + q
    OBVIOUS
  <2>1. p - m \in 1..n /\ p = m + (p - m)
    BY <1>3
  <2> QED
    BY <2>1
<1>9. both \in [1..(m + n) -> keep]
  <2>1. ASSUME NEW p \in 1..(m + n) PROVE both[p] \in keep
    <3>1. CASE p \in 1..m
      <4>1. both[p] \in K
        BY <1>6, <3>1
      <4> QED
        BY <4>1
    <3>2. CASE p \notin 1..m
      <4>1. PICK q \in 1..n : p = m + q
        BY <1>8, <3>2
      <4>2. b[q] \in L /\ both[p] = k + b[q]
        BY <1>7, <4>1
      <4>3. both[p] \in {Len(s) + j : j \in L}
        BY <1>4, <4>2
      <4> QED
        BY <4>3
    <3> QED
      BY <3>1, <3>2
  <2> QED
    BY <2>1
<1> HIDE DEF both
<1>10. \A i \in keep : \E p \in 1..(m + n) : both[p] = i
  <2>1. \A i \in K : \E p \in 1..m : a[p] = i
    BY <1>1 DEF IsKeeping
  <2>2. \A j \in L : \E q \in 1..n : b[q] = j
    BY <1>2 DEF IsKeeping
  <2> QED
    BY <1>4, <1>6, <1>7, <2>1, <2>2
<1>11. ASSUME NEW p \in 1..(m + n), NEW q \in 1..(m + n), p < q
       PROVE  both[p] < both[q]
  <2>1. CASE p \in 1..m /\ q \in 1..m
    BY <1>1, <1>6, <1>11, <2>1 DEF IsKeeping
  <2>2. CASE p \in 1..m /\ q \notin 1..m
    <3>1. PICK j \in 1..n : q = m + j
      BY <1>8, <2>2
    <3>2. both[p] \in 1..k /\ b[j] \in 1..l /\ both[q] = k + b[j]
      BY <1>6, <1>7, <2>2, <3>1
    <3> QED
      BY <3>2
  <2>3. CASE p \notin 1..m
    <3>1. PICK i \in 1..n : p = m + i
      BY <1>8, <2>3
    <3>2. q \notin 1..m
      BY <1>3, <1>11, <3>1
    <3>3. PICK j \in 1..n : q = m + j
      BY <1>8, <3>2
    <3>4. i < j
      BY <1>3, <1>11, <3>1, <3>3
    <3>5. b[i] < b[j]
      BY <1>2, <3>4 DEF IsKeeping
    <3>6. /\ both[p] = k + b[i] /\ both[q] = k + b[j]
          /\ b[i] \in 1..l /\ b[j] \in 1..l
      BY <1>7, <3>1, <3>3
    <3> QED
      BY <3>5, <3>6
  <2> QED
    BY <2>1, <2>2, <2>3
<1>12. keep \subseteq Nat
  BY <1>4, <1>5
<1> HIDE DEF keep
<1>13. PICK r \in Nat : r = m + n
  BY <1>3
<1>14. IsKeeping(r, s \o t, keep, both)
  BY <1>9, <1>10, <1>11, <1>12, <1>13, KeepingIs
<1>15. Subsequence(s \o t, keep) = [p \in 1..(m + n) |-> (s \o t)[both[p]]]
  BY <1>13, <1>14 DEF IsKeeping
<1>16. /\ \A i \in 1..k : (s \o t)[i] = s[i]
       /\ \A j \in 1..l : (s \o t)[k + j] = t[j]
  <2> SUFFICES /\ \A i \in 1..k : (s \o t)[i] = s[i]
               /\ \A j \in 1..l : k + j \in (k + 1)..(k + l) /\ (k + j) - k = j
    BY <1>4, <1>5, ConcatProperties
  <2> QED
    BY <1>4, <1>5, ConcatProperties
<1>17. PICK u : u = Subsequence(s, K)
  OBVIOUS
<1>18. PICK v : v = Subsequence(t, L)
  OBVIOUS
<1>19. u \in Seq(S) /\ u = [p \in 1..m |-> s[a[p]]]
  BY <1>1, <1>17, Keeps DEF IsKeeping
<1>20. v \in Seq(S) /\ v = [q \in 1..n |-> t[b[q]]]
  BY <1>2, <1>18, Keeps DEF IsKeeping
<1>21. Len(u) = m /\ Len(v) = n
  <2>1. DOMAIN u = 1..m /\ DOMAIN v = 1..n
    BY <1>19, <1>20
  <2> QED
    BY <1>3, <1>19, <1>20, <2>1, LenProperties
<1>22. PICK w : w = u \o v
  OBVIOUS
<1>23. /\ w \in Seq(S) /\ Len(w) = m + n
       /\ \A p \in 1..m : w[p] = u[p]
       /\ \A q \in 1..n : w[m + q] = v[q]
  <2>1. /\ w \in Seq(S) /\ Len(w) = m + n
        /\ \A p \in 1..(m + n) : w[p] = IF p <= m THEN u[p] ELSE v[p - m]
    <3>1. u \in Seq(S) /\ v \in Seq(S)
      BY <1>19, <1>20
    <3> QED
      BY <1>21, <1>22, <3>1, ConcatProperties
  <2>2. \A p \in 1..m : p \in 1..(m + n) /\ p <= m
    BY <1>3
  <2>3. \A q \in 1..n : m + q \in 1..(m + n) /\ ~(m + q <= m) /\ (m + q) - m = q
    BY <1>3
  <2> QED
    BY <2>1, <2>2, <2>3
<1>24. w = [p \in 1..(m + n) |-> w[p]]
  BY <1>23, LenProperties
<1>25. \A p \in 1..(m + n) : w[p] = (s \o t)[both[p]]
  <2>1. \A p \in 1..m : w[p] = (s \o t)[both[p]]
    BY <1>6, <1>16, <1>19, <1>23
  <2>2. ASSUME NEW q \in 1..n PROVE w[m + q] = (s \o t)[both[m + q]]
    <3>1. both[m + q] = k + b[q] /\ b[q] \in 1..l
      BY <1>7
    <3>2. (s \o t)[k + b[q]] = t[b[q]]
      BY <1>16, <3>1
    <3> QED
      BY <1>20, <1>23, <3>1, <3>2
  <2> QED
    BY <1>8, <2>1, <2>2
<1>26. w = [p \in 1..(m + n) |-> (s \o t)[both[p]]]
  BY <1>24, <1>25
<1>27. Subsequence(s \o t, keep) = Subsequence(s, K) \o Subsequence(t, L)
  BY <1>15, <1>17, <1>18, <1>22, <1>26
<1> QED
  BY <1>27 DEF keep, Behind

(* The places in D whose element of s is in G. *)
Having(s, D, G) == {i \in D : s[i] \in G}

(* Keeping the elements of G of what was kept. *)
LEMMA KeptTwice ==
    ASSUME NEW S, NEW s \in Seq(S), NEW K, K \subseteq DOMAIN s, NEW G,
           NEW u, u = Subsequence(s, K)
    PROVE  Subsequence(u, Having(u, DOMAIN u, G)) = Subsequence(s, Having(s, K, G))
<1> DEFINE P == {p \in DOMAIN u : u[p] \in G}
           I == {i \in K : s[i] \in G}
<1>1. PICK m, a : IsKeeping(m, s, K, a)
  BY Keeps
<1>2. m \in Nat /\ a \in [1..m -> K] /\ u = [p \in 1..m |-> s[a[p]]]
  BY <1>1 DEF IsKeeping
<1>3. DOMAIN u = 1..m /\ u \in Seq(S)
  BY <1>2, Keeps
<1>4. PICK n, b : IsKeeping(n, u, P, b)
  <2>1. P \subseteq DOMAIN u
    OBVIOUS
  <2> QED
    BY <1>3, <2>1, Keeps
<1>5. n \in Nat /\ b \in [1..n -> P] /\ Subsequence(u, P) = [q \in 1..n |-> u[b[q]]]
  BY <1>4 DEF IsKeeping
<1>6. \A q \in 1..n : b[q] \in 1..m /\ u[b[q]] = s[a[b[q]]] /\ a[b[q]] \in K /\ s[a[b[q]]] \in G
  BY <1>2, <1>3, <1>5
<1> DEFINE c == [q \in 1..n |-> a[b[q]]]
<1>7. c \in [1..n -> I]
  BY <1>6
<1>8. \A q \in 1..n : c[q] = a[b[q]]
  OBVIOUS
<1> HIDE DEF c
<1>9. \A i \in I : \E q \in 1..n : c[q] = i
  <2> SUFFICES ASSUME NEW i \in I PROVE \E q \in 1..n : c[q] = i
    OBVIOUS
  <2>1. PICK p \in 1..m : a[p] = i
    BY <1>1 DEF IsKeeping
  <2>2. p \in P
    BY <1>2, <1>3, <2>1
  <2>3. PICK q \in 1..n : b[q] = p
    BY <1>4, <2>2 DEF IsKeeping
  <2> QED
    BY <1>8, <2>1, <2>3
<1>10. ASSUME NEW p \in 1..n, NEW q \in 1..n, p < q
       PROVE  c[p] < c[q]
  <2>1. b[p] < b[q]
    BY <1>4, <1>10 DEF IsKeeping
  <2>2. b[p] \in 1..m /\ b[q] \in 1..m
    BY <1>6
  <2>3. a[b[p]] < a[b[q]]
    BY <1>1, <2>1, <2>2 DEF IsKeeping
  <2> QED
    BY <1>8, <2>3
<1>11. I \subseteq Nat
  BY LenProperties
<1> HIDE DEF I
<1>12. IsKeeping(n, s, I, c)
  BY <1>5, <1>7, <1>9, <1>10, <1>11, KeepingIs
<1>13. Subsequence(s, I) = [q \in 1..n |-> s[c[q]]]
  BY <1>12 DEF IsKeeping
<1>14. \A q \in 1..n : s[c[q]] = u[b[q]]
  BY <1>6, <1>8
<1> QED
  BY <1>5, <1>13, <1>14 DEF P, I, Having

-----------------------------------------------------------------------------
(* Flattening. *)

Flattening(rows, n, f) ==
    f = [i \in 1..n |-> IF i = 1 THEN rows[i] ELSE f[i - 1] \o rows[i]]

LEMMA FlatteningsAgree ==
    ASSUME NEW rows, NEW more, NEW m \in Nat, NEW n \in Nat, m <= n, NEW f, NEW g,
           Flattening(rows, m, f), Flattening(more, n, g), \A i \in 1..m : rows[i] = more[i]
    PROVE  \A i \in 1..m : f[i] = g[i]
<1> DEFINE T == {i \in 1..m : f[i] # g[i]}
<1>1. ASSUME T # {} PROVE FALSE
  <2>1. T \subseteq Nat
    OBVIOUS
  <2>2. PICK i \in T : \A j \in T : i <= j
    BY <1>1, <2>1, LeastNatural
  <2>3. i \in 1..m /\ i \in 1..n /\ f[i] # g[i]
    OBVIOUS
  <2>4. f[i] = IF i = 1 THEN rows[i] ELSE f[i - 1] \o rows[i]
    BY <2>3 DEF Flattening
  <2>5. g[i] = IF i = 1 THEN more[i] ELSE g[i - 1] \o more[i]
    BY <2>3 DEF Flattening
  <2>6. CASE i = 1
    BY <2>3, <2>4, <2>5, <2>6
  <2>7. CASE i # 1
    <3>1. i - 1 \in 1..m /\ i - 1 \notin T
      BY <2>2, <2>3, <2>7
    <3> QED
      BY <2>3, <2>4, <2>5, <2>7, <3>1
  <2> QED
    BY <2>6, <2>7
<1> QED
  BY <1>1

LEMMA FlatteningExists ==
    ASSUME NEW rows, NEW n \in Nat
    PROVE  \E f : Flattening(rows, n, f)
<1> DEFINE T == {k \in Nat : ~\E f : Flattening(rows, k, f)}
<1>1. ASSUME T # {} PROVE FALSE
  <2>1. PICK k \in T : \A j \in T : k <= j
    BY <1>1, LeastNatural
  <2>2. CASE k = 0
    <3>1. Flattening(rows, 0, [i \in 1..0 |-> 0])
      BY DEF Flattening
    <3> QED
      BY <2>2, <3>1
  <2>3. CASE k # 0
    <3>1. k - 1 \in Nat /\ k - 1 \notin T
      BY <2>1, <2>3
    <3>2. PICK f : Flattening(rows, k - 1, f)
      BY <3>1
    <3> DEFINE g == [i \in 1..k |-> IF i = k /\ k # 1 THEN f[k - 1] \o rows[k]
                                    ELSE IF i = 1 THEN rows[1] ELSE f[i]]
    <3>3. \A i \in 1..(k - 1) : f[i] = IF i = 1 THEN rows[i] ELSE f[i - 1] \o rows[i]
      BY <3>2 DEF Flattening
    <3>4. \A i \in 1..(k - 1) : g[i] = f[i]
      BY <3>3
    <3>5. ASSUME NEW i \in 1..k
          PROVE  g[i] = IF i = 1 THEN rows[i] ELSE g[i - 1] \o rows[i]
      <4>1. CASE i = 1
        BY <4>1
      <4>2. CASE i # 1
        <5>1. i - 1 \in 1..(k - 1)
          BY <4>2
        <5>2. g[i - 1] = f[i - 1]
          BY <3>4, <5>1
        <5>3. g[i] = f[i - 1] \o rows[i]
          <6>1. CASE i = k
            BY <4>2, <6>1
          <6>2. CASE i # k
            <7>1. i \in 1..(k - 1)
              BY <6>2
            <7> QED
              BY <3>3, <3>4, <4>2, <7>1
          <6> QED
            BY <6>1, <6>2
        <5> QED
          BY <4>2, <5>2, <5>3
      <4> QED
        BY <4>1, <4>2
    <3>6. g = [i \in 1..k |-> g[i]]
      OBVIOUS
    <3> HIDE DEF g
    <3>7. Flattening(rows, k, g)
      BY <3>5, <3>6 DEF Flattening
    <3> QED
      BY <3>7
  <2> QED
    BY <2>2, <2>3
<1> QED
  BY <1>1

LEMMA FlattenIs ==
    ASSUME NEW rows, NEW n \in Nat, n = Len(rows), n # 0
    PROVE  \E f : Flattening(rows, n, f) /\ FlattenSeq(rows) = f[n]
<1> DEFINE F == CHOOSE f : Flattening(rows, n, f)
<1>1. Flattening(rows, n, F)
  BY FlatteningExists, Zenon
<1>2. FlattenSeq(rows) = F[n]
  BY Zenon DEF FlattenSeq, Flattening
<1> QED
  BY <1>1, <1>2

(* Rows are flattened one after the other. *)
LEMMA FlattenNothing == FlattenSeq(<<>>) = <<>>
BY DEF FlattenSeq

LEMMA FlattenTyped ==
    ASSUME NEW S, NEW rows \in Seq(Seq(S))
    PROVE  FlattenSeq(rows) \in Seq(S)
<1>1. PICK n \in Nat : n = Len(rows) /\ DOMAIN rows = 1..n /\ \A i \in 1..n : rows[i] \in Seq(S)
  BY LenProperties, ElementOfSeq
<1>2. CASE n = 0
  BY <1>1, <1>2, FlattenNothing, EmptySeq
<1>3. CASE n # 0
  <2>1. PICK f : Flattening(rows, n, f) /\ FlattenSeq(rows) = f[n]
    BY <1>1, <1>3, FlattenIs
  <2> DEFINE T == {i \in 1..n : f[i] \notin Seq(S)}
  <2>2. ASSUME T # {} PROVE FALSE
    <3>1. T \subseteq Nat
      OBVIOUS
    <3>2. PICK i \in T : \A j \in T : i <= j
      BY <2>2, <3>1, LeastNatural
    <3>3. f[i] = IF i = 1 THEN rows[i] ELSE f[i - 1] \o rows[i]
      BY <2>1 DEF Flattening
    <3>4. CASE i = 1
      BY <1>1, <3>3, <3>4
    <3>5. CASE i # 1
      <4>1. i - 1 \in 1..n /\ i - 1 \notin T
        BY <3>2, <3>5
      <4>2. f[i - 1] \in Seq(S) /\ rows[i] \in Seq(S)
        BY <1>1, <4>1
      <4> QED
        BY <3>3, <3>5, <4>2, ConcatProperties
    <3> QED
      BY <3>4, <3>5
  <2> QED
    BY <1>3, <2>1, <2>2
<1> QED
  BY <1>2, <1>3

LEMMA FlattenAppend ==
    ASSUME NEW S, NEW rows \in Seq(Seq(S)), NEW row \in Seq(S)
    PROVE  FlattenSeq(Append(rows, row)) = FlattenSeq(rows) \o row
<1>1. PICK n \in Nat : n = Len(rows) /\ DOMAIN rows = 1..n
  BY LenProperties
<1> DEFINE more == Append(rows, row)
<1>0. PICK m \in Nat : m = n + 1
  OBVIOUS
<1>2. /\ Len(more) = m
      /\ \A i \in 1..n : more[i] = rows[i]
      /\ more[m] = row
  BY <1>0, <1>1, AppendProperties
<1> HIDE DEF more
<1>3. PICK g : Flattening(more, m, g) /\ FlattenSeq(more) = g[m]
  BY <1>0, <1>2, FlattenIs
<1>4. g[m] = IF m = 1 THEN more[m] ELSE g[n] \o more[m]
  <2>1. m \in 1..m /\ m - 1 = n
    BY <1>0
  <2>2. g[m] = IF m = 1 THEN more[m] ELSE g[m - 1] \o more[m]
    BY <1>3, <2>1 DEF Flattening
  <2> QED
    BY <2>1, <2>2
<1>5. CASE n = 0
  <2>1. rows = <<>>
    BY <1>1, <1>5, EmptySeq
  <2>2. <<>> \o row = row
    BY ConcatEmptySeq
  <2> QED
    BY <1>0, <1>2, <1>3, <1>4, <1>5, <2>1, <2>2, FlattenNothing DEF more
<1>6. CASE n # 0
  <2>1. PICK f : Flattening(rows, n, f) /\ FlattenSeq(rows) = f[n]
    BY <1>1, <1>6, FlattenIs
  <2>2. f[n] = g[n]
    <3>1. n <= m /\ n \in 1..n /\ \A i \in 1..n : rows[i] = more[i]
      BY <1>0, <1>2, <1>6
    <3>2. n \in Nat /\ m \in Nat
      BY <1>0, <1>1
    <3>3. Flattening(rows, n, f) /\ Flattening(more, m, g)
      BY <1>3, <2>1
    <3>4. \A i \in 1..n : f[i] = g[i]
      BY <3>1, <3>2, <3>3, FlatteningsAgree
    <3> QED
      BY <3>1, <3>4
  <2> QED
    BY <1>0, <1>2, <1>3, <1>4, <1>6, <2>1, <2>2 DEF more
<1> QED
  BY <1>5, <1>6

(* Row by row. *)
LEMMA FlattenRows ==
    ASSUME NEW S, NEW rows \in Seq(Seq(S))
    PROVE  /\ FlattenSeq(SubSeq(rows, 1, 0)) = <<>>
           /\ SubSeq(rows, 1, Len(rows)) = rows
           /\ \A k \in 1..Len(rows) :
                 /\ FlattenSeq(SubSeq(rows, 1, k - 1)) \in Seq(S)
                 /\ rows[k] \in Seq(S)
                 /\ FlattenSeq(SubSeq(rows, 1, k))
                      = FlattenSeq(SubSeq(rows, 1, k - 1)) \o rows[k]
<1>1. PICK n \in Nat : n = Len(rows) /\ DOMAIN rows = 1..n
  BY LenProperties
<1>2. FlattenSeq(SubSeq(rows, 1, 0)) = <<>>
  <2>1. SubSeq(rows, 1, 0) = <<>>
    BY SubSeqEmpty
  <2> QED
    BY <2>1, FlattenNothing
<1>3. SubSeq(rows, 1, Len(rows)) = rows
  BY SubSeqFull
<1>4. ASSUME NEW k \in 1..n
      PROVE  /\ FlattenSeq(SubSeq(rows, 1, k - 1)) \in Seq(S)
             /\ rows[k] \in Seq(S)
             /\ FlattenSeq(SubSeq(rows, 1, k)) = FlattenSeq(SubSeq(rows, 1, k - 1)) \o rows[k]
  <2>1. rows[k] \in Seq(S)
    BY <1>1, ElementOfSeq
  <2>2. SubSeq(rows, 1, k - 1) \in Seq(Seq(S))
    <3>1. \A i \in 1..(k - 1) : rows[i] \in Seq(S)
      BY <1>1, ElementOfSeq
    <3> QED
      BY <3>1, SubSeqProperties
  <2>3. SubSeq(rows, 1, k) = Append(SubSeq(rows, 1, k - 1), rows[k])
    BY <1>1, SubSeqRecursiveSecond
  <2> QED
    BY <2>1, <2>2, <2>3, FlattenTyped, FlattenAppend
<1> QED
  BY <1>1, <1>2, <1>3, <1>4

(* Of p rows of length m, the i-th has a place of its own. *)
LEMMA PlaceBefore ==
    ASSUME NEW m \in Nat, NEW p \in Nat, NEW i \in 1..p, NEW j \in 1..m
    PROVE  (i - 1) * m + j \in 1..(p * m)
<1>1. PICK a \in Nat : a = i - 1
  OBVIOUS
<1>2. PICK d \in Nat : d = p - i
  OBVIOUS
<1>3. p = a + 1 + d
  BY <1>1, <1>2
<1>4. PICK b \in Nat : b = a * m
  OBVIOUS
<1>5. PICK e \in Nat : e = d * m
  OBVIOUS
<1>6. (a + 1 + d) * m = a * m + m + d * m
  OBVIOUS
<1>7. p * m = b + m + e
  BY <1>3, <1>4, <1>5, <1>6
<1>8. b + j \in 1..(b + m + e)
  OBVIOUS
<1> QED
  BY <1>1, <1>4, <1>7, <1>8

(* The first p rows, of length m each, lie side by side in f. *)
SideBySide(f, rows, p, m) ==
    /\ Len(f) = p * m
    /\ \A i \in 1..p, j \in 1..m : f[(i - 1) * m + j] = rows[i][j]

(* So they do with a row more. *)
LEMMA OneMoreRow ==
    ASSUME NEW S, NEW f \in Seq(S), NEW rows, NEW m \in Nat, NEW p \in Nat,
           SideBySide(f, rows, p, m), rows[p + 1] \in Seq(S), Len(rows[p + 1]) = m
    PROVE  SideBySide(f \o rows[p + 1], rows, p + 1, m)
<1>1. PICK row \in Seq(S) : row = rows[p + 1] /\ Len(row) = m
  OBVIOUS
<1>2. PICK x \in Nat : x = p * m
  OBVIOUS
<1>3. (p + 1) * m = x + m
  <2>1. (p + 1) * m = p * m + m
    OBVIOUS
  <2> QED
    BY <1>2, <2>1
<1>4. Len(f) = x
  BY <1>2 DEF SideBySide
<1>5. PICK g : g = f \o row
  OBVIOUS
<1>6. /\ Len(g) = x + m
      /\ \A q \in 1..(x + m) : g[q] = IF q <= x THEN f[q] ELSE row[q - x]
  <2>1. /\ Len(f \o row) = Len(f) + Len(row)
        /\ \A q \in 1..(Len(f) + Len(row)) :
              (f \o row)[q] = IF q <= Len(f) THEN f[q] ELSE row[q - Len(f)]
    BY ConcatProperties
  <2> QED
    BY <1>1, <1>4, <1>5, <2>1
<1>7. ASSUME NEW i \in 1..(p + 1), NEW j \in 1..m
      PROVE  g[(i - 1) * m + j] = rows[i][j]
  <2>1. CASE i \in 1..p
    <3>1. PICK y : y = (i - 1) * m + j
      OBVIOUS
    <3>2. y \in 1..x
      BY <1>2, <2>1, <3>1, PlaceBefore
    <3>3. f[y] = rows[i][j]
      BY <2>1, <3>1 DEF SideBySide
    <3>4. g[y] = f[y]
      BY <1>6, <3>2
    <3> QED
      BY <3>1, <3>3, <3>4
  <2>2. CASE i \notin 1..p
    <3>1. i - 1 = p /\ i = p + 1
      BY <2>2
    <3>2. x + j \in 1..(x + m) /\ ~(x + j <= x) /\ (x + j) - x = j
      OBVIOUS
    <3>3. g[x + j] = row[j]
      BY <1>6, <3>2
    <3>4. (i - 1) * m = x
      BY <1>2, <3>1
    <3> QED
      BY <1>1, <3>1, <3>3, <3>4
  <2> QED
    BY <2>1, <2>2
<1> QED
  BY <1>1, <1>3, <1>5, <1>6, <1>7 DEF SideBySide

(* Rows of one length. *)
LEMMA FlattenRectangle ==
    ASSUME NEW S, NEW rows \in Seq(Seq(S)), NEW m \in Nat,
           \A i \in DOMAIN rows : Len(rows[i]) = m
    PROVE  /\ Len(FlattenSeq(rows)) = Len(rows) * m
           /\ \A i \in DOMAIN rows, j \in 1..m : FlattenSeq(rows)[(i - 1) * m + j] = rows[i][j]
<1>1. PICK n \in Nat : n = Len(rows) /\ DOMAIN rows = 1..n
  BY LenProperties
<1> DEFINE flat(k) == FlattenSeq(SubSeq(rows, 1, k))
           Good(k) == SideBySide(flat(k), rows, k, m)
           T == {k \in 0..n : ~Good(k)}
<1>2. flat(0) = <<>> /\ SubSeq(rows, 1, n) = rows
  BY <1>1, FlattenRows
<1>3. \A k \in 1..n : flat(k - 1) \in Seq(S) /\ rows[k] \in Seq(S)
                      /\ flat(k) = flat(k - 1) \o rows[k]
  BY <1>1, FlattenRows
<1> HIDE DEF flat
<1>4. ASSUME T # {} PROVE FALSE
  <2>1. T \subseteq Nat
    OBVIOUS
  <2>2. PICK k \in T : \A l \in T : k <= l
    BY <1>4, <2>1, LeastNatural
  <2>3. CASE k = 0
    BY <1>2, <2>3 DEF SideBySide
  <2>4. CASE k # 0
    <3>1. PICK p \in 0..n : p \in Nat /\ p = k - 1 /\ p + 1 = k /\ k \in 1..n
      BY <2>4
    <3>2. Good(p)
      BY <2>2, <3>1
    <3>3. flat(p) \in Seq(S) /\ rows[k] \in Seq(S) /\ flat(k) = flat(p) \o rows[k]
      BY <1>3, <3>1
    <3>4. Len(rows[k]) = m
      BY <1>1, <3>1
    <3>5. Good(k)
      BY <3>1, <3>2, <3>3, <3>4, OneMoreRow
    <3> QED
      BY <2>2, <3>5
  <2> QED
    BY <2>3, <2>4
<1>5. Good(n)
  <2>1. n \in 0..n
    BY <1>1
  <2> QED
    BY <1>4, <2>1
<1> QED
  BY <1>1, <1>2, <1>5 DEF flat, SideBySide

(* Rows with nothing in them may be left out. *)
LEMMA FlattenWithoutEmpty ==
    ASSUME NEW S, NEW rows \in Seq(Seq(S)), NEW keep, keep \subseteq DOMAIN rows,
           \A i \in DOMAIN rows \ keep : rows[i] = <<>>
    PROVE  FlattenSeq(Subsequence(rows, keep)) = FlattenSeq(rows)
<1>1. PICK n \in Nat : n = Len(rows) /\ DOMAIN rows = 1..n
  BY LenProperties
<1> DEFINE flat(k) == FlattenSeq(SubSeq(rows, 1, k))
           kept(k) == {i \in keep : i <= k}
           Good(k) == FlattenSeq(Subsequence(rows, kept(k))) = flat(k)
           T == {k \in 0..n : ~Good(k)}
<1>2. flat(0) = <<>> /\ SubSeq(rows, 1, n) = rows
  BY <1>1, FlattenRows
<1>3. \A k \in 1..n : flat(k - 1) \in Seq(S) /\ rows[k] \in Seq(S)
                      /\ flat(k) = flat(k - 1) \o rows[k]
  BY <1>1, FlattenRows
<1> HIDE DEF flat
<1>4. ASSUME T # {} PROVE FALSE
  <2>1. T \subseteq Nat
    OBVIOUS
  <2>2. PICK k \in T : \A l \in T : k <= l
    BY <1>4, <2>1, LeastNatural
  <2>3. CASE k = 0
    <3>1. kept(0) = {}
      BY <1>1
    <3> QED
      BY <1>2, <2>3, <3>1, NothingKept, FlattenNothing
  <2>4. CASE k # 0
    <3>1. PICK p \in 0..n : p = k - 1 /\ k \in 1..n
      BY <2>4
    <3>2. Good(p)
      BY <2>2, <3>1
    <3>3. flat(p) \in Seq(S) /\ rows[k] \in Seq(S) /\ flat(k) = flat(p) \o rows[k]
      BY <1>3, <3>1
    <3>4. CASE k \in keep
      <4>1. kept(k) = kept(p) \cup {k}
        BY <1>1, <3>1, <3>4
      <4>2. kept(p) \subseteq DOMAIN rows /\ k \in DOMAIN rows /\ \A i \in kept(p) : i < k
        BY <1>1, <3>1
      <4> HIDE DEF kept
      <4>3. Subsequence(rows, kept(k)) = Append(Subsequence(rows, kept(p)), rows[k])
        BY <4>1, <4>2, OneMoreKept
      <4>4. Subsequence(rows, kept(p)) \in Seq(Seq(S))
        BY <4>2, Keeps
      <4>5. FlattenSeq(Subsequence(rows, kept(k))) = FlattenSeq(Subsequence(rows, kept(p))) \o rows[k]
        BY <3>3, <4>3, <4>4, FlattenAppend
      <4> QED
        BY <2>2, <3>2, <3>3, <4>5
    <3>5. CASE k \notin keep
      <4>1. kept(k) = kept(p)
        BY <1>1, <3>1, <3>5
      <4>2. rows[k] = <<>>
        BY <1>1, <3>1, <3>5
      <4>3. flat(k) = flat(p)
        BY <3>3, <4>2, ConcatEmptySeq
      <4> QED
        BY <2>2, <3>2, <4>1, <4>3
    <3> QED
      BY <3>4, <3>5
  <2> QED
    BY <2>3, <2>4
<1>5. Good(n)
  <2>1. n \in 0..n
    BY <1>1
  <2> QED
    BY <1>4, <2>1
<1>6. kept(n) = keep
  BY <1>1
<1> QED
  BY <1>2, <1>5, <1>6 DEF flat
=============================================================================
