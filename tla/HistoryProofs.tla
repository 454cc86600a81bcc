---------------------------- MODULE HistoryProofs ----------------------------
(***************************************************************************)
(* Proofs about the run history.  Everything rests on what At makes of a    *)
(* list: the elements at some places, in their order.                       *)
(***************************************************************************)
EXTENDS History, FiniteSetTheorems, SequenceTheorems, FunctionTheorems, TLAPS

-----------------------------------------------------------------------------
(* Enumerations of places.                                                  *)

Places(K) == \E n \in Nat : K \subseteq 1..n
Enumerates(p, m, K) ==
    /\ Places(K) /\ m \in Nat /\ p \in [1..m -> K]
    /\ \A i, k \in 1..m : i < k => p[i] < p[k]
    /\ \A x \in K : \E k \in 1..m : p[k] = x

Rank(K, i) == Cardinality({j \in K : j <= i})

LEMMA PlacesFinite ==
    ASSUME NEW K, Places(K)
    PROVE  /\ IsFiniteSet(K) /\ Cardinality(K) \in Nat /\ K \subseteq Nat
           /\ \A L \in SUBSET K : Places(L) /\ IsFiniteSet(L) /\ Cardinality(L) \in 0..Cardinality(K)
<1>1. PICK n \in Nat : K \subseteq 1..n
  BY DEF Places
<1>2. IsFiniteSet(K) /\ K \subseteq Nat
  <2>1. IsFiniteSet(1..n)
    BY FS_Interval
  <2>2. IsFiniteSet(K)
    BY <1>1, <2>1, FS_Subset
  <2> QED
    BY <1>1, <2>2
<1>3. Cardinality(K) \in Nat
  BY <1>2, FS_CardinalityType
<1>4. ASSUME NEW L \in SUBSET K PROVE Places(L) /\ IsFiniteSet(L) /\ Cardinality(L) \in 0..Cardinality(K)
  <2>1. IsFiniteSet(L) /\ Cardinality(L) <= Cardinality(K)
    BY <1>2, FS_Subset
  <2>2. Cardinality(L) \in Nat
    BY <2>1, FS_CardinalityType
  <2>3. Places(L)
    BY <1>1 DEF Places
  <2> QED
    BY <1>3, <2>1, <2>2, <2>3
<1> QED
  BY <1>2, <1>3, <1>4

LEMMA RankGrows ==
    ASSUME NEW K, Places(K)
    PROVE  /\ \A i \in K : Rank(K, i) \in 1..Cardinality(K)
           /\ \A i, k \in K : i < k => Rank(K, i) < Rank(K, k)
<1> DEFINE Upto(i) == {j \in K : j <= i}
<1>1. \A i \in K : Upto(i) \in SUBSET K /\ IsFiniteSet(Upto(i)) /\ Cardinality(Upto(i)) \in 0..Cardinality(K)
  BY PlacesFinite
<1>2. Cardinality(K) \in Nat /\ \A i \in K : i \in Int
  BY PlacesFinite
<1>3. ASSUME NEW i \in K PROVE Cardinality(Upto(i)) \in 1..Cardinality(K)
  <2>1. i \in Upto(i)
    BY <1>2
  <2>2. Cardinality(Upto(i)) # 0
    BY <1>1, <2>1, FS_EmptySet
  <2> QED
    BY <1>1, <1>2, <2>2
<1>4. ASSUME NEW i \in K, NEW k \in K, i < k PROVE Cardinality(Upto(i)) < Cardinality(Upto(k))
  <2>1. Upto(i) \in SUBSET Upto(k) /\ k \in Upto(k) /\ k \notin Upto(i)
    <3>1. i \in Int /\ k \in Int /\ ~(k <= i) /\ k <= k
      BY <1>2, <1>4
    <3>2. \A j \in K : j <= i => j <= k
      BY <1>2, <1>4, <3>1
    <3> QED
      BY <3>1, <3>2
  <2>2. Cardinality(Upto(i)) <= Cardinality(Upto(k)) /\ Cardinality(Upto(k)) # Cardinality(Upto(i))
    BY <1>1, <2>1, FS_Subset
  <2> QED
    BY <1>1, <1>2, <2>2
<1> QED
  BY <1>3, <1>4 DEF Rank

LEMMA InOrderEnumerates ==
    ASSUME NEW K, Places(K)
    PROVE  Enumerates(InOrder(K), Cardinality(K), K)
<1>1. PICK m : m = Cardinality(K)
  OBVIOUS
<1>2. m \in Nat /\ IsFiniteSet(K)
  BY <1>1, PlacesFinite
<1>3. \A i \in K : Rank(K, i) \in 1..m
  BY <1>1, RankGrows
<1>4. \A i, k \in K : i < k => Rank(K, i) < Rank(K, k)
  BY RankGrows
<1>5. PICK f : f = [i \in K |-> Rank(K, i)]
  OBVIOUS
<1>6. f \in [K -> 1..m]
  BY <1>3, <1>5
<1>7. \A i, k \in K : f[i] = f[k] => i = k
  <2> SUFFICES ASSUME NEW i \in K, NEW k \in K, i # k PROVE f[i] # f[k]
    OBVIOUS
  <2>1. i \in Int /\ k \in Int
    BY PlacesFinite
  <2>2. i < k \/ k < i
    BY <2>1
  <2>3. Rank(K, i) \in Nat /\ Rank(K, k) \in Nat
    BY <1>2, <1>3
  <2>4. Rank(K, i) # Rank(K, k)
    BY <1>4, <2>2, <2>3
  <2> QED
    BY <1>5, <2>4
<1>8. f \in Injection(K, 1..m)
  BY <1>6, <1>7 DEF Injection, IsInjective
<1>9. IsFiniteSet(1..m) /\ Cardinality(1..m) = m
  BY <1>2, FS_Interval
<1>10. f \in Surjection(K, 1..m)
  BY <1>1, <1>8, <1>9, FS_Injection
<1>11. \A r \in 1..m : \E i \in K : Rank(K, i) = r
  BY <1>5, <1>10 DEF Surjection
<1>12. PICK p : p = InOrder(K)
  OBVIOUS
<1>13. ASSUME NEW r \in 1..m PROVE p[r] \in K /\ Rank(K, p[r]) = r
  <2>1. p[r] = CHOOSE i \in K : Rank(K, i) = r
    BY <1>1, <1>12 DEF InOrder, Rank
  <2> QED
    BY <1>11, <2>1
<1>14. p \in [1..m -> K]
  <2>1. PICK q : q = [r \in 1..m |-> CHOOSE i \in K : Rank(K, i) = r]
    OBVIOUS
  <2>3. p = q
    BY <1>1, <1>12, <2>1 DEF InOrder, Rank
  <2>4. q = [r \in 1..m |-> q[r]]
    BY <2>1
  <2> QED
    BY <1>13, <2>3, <2>4
<1>15. \A i \in K : i \in Int
  BY PlacesFinite
<1>16. ASSUME NEW i \in 1..m, NEW k \in 1..m, i < k PROVE p[i] < p[k]
  <2>1. p[i] \in K /\ p[k] \in K /\ Rank(K, p[i]) = i /\ Rank(K, p[k]) = k
    BY <1>13
  <2>2. p[i] \in Int /\ p[k] \in Int /\ p[i] # p[k]
    <3>1. i # k
      BY <1>2, <1>16
    <3> QED
      BY <1>15, <2>1, <3>1
  <2>3. ~(p[k] < p[i])
    <3>1. ~(k < i)
      BY <1>2, <1>16
    <3> QED
      BY <1>4, <2>1, <3>1
  <2> QED
    BY <2>2, <2>3
<1>17. ASSUME NEW x \in K PROVE p[Rank(K, x)] = x /\ Rank(K, x) \in 1..m
  <2>1. PICK r : r = Rank(K, x)
    OBVIOUS
  <2>2. r \in 1..m /\ p[r] \in K /\ Rank(K, p[r]) = r
    BY <1>3, <1>13, <2>1
  <2>3. f[p[r]] = f[x]
    BY <1>5, <2>1, <2>2
  <2> QED
    BY <1>7, <2>1, <2>2, <2>3
<1> QED
  BY <1>1, <1>2, <1>12, <1>14, <1>16, <1>17 DEF Enumerates

LEMMA SameOrder ==
    ASSUME NEW p, NEW m, NEW K, Enumerates(p, m, K)
    PROVE  /\ m \in Nat /\ Places(K) /\ \A k \in 1..m : p[k] \in K /\ p[k] \in Nat
           /\ \A i, k \in 1..m : (i < k <=> p[i] < p[k]) /\ (i <= k <=> p[i] <= p[k]) /\ (i = k <=> p[i] = p[k])
           /\ \A x \in K : \E k \in 1..m : p[k] = x
<1>1. m \in Nat /\ Places(K) /\ p \in [1..m -> K] /\ (\A x \in K : \E k \in 1..m : p[k] = x)
  BY DEF Enumerates
<1>2. \A i, k \in 1..m : i < k => p[i] < p[k]
  BY DEF Enumerates
<1>3. \A k \in 1..m : p[k] \in K /\ p[k] \in Nat
  BY <1>1, PlacesFinite
<1>4. ASSUME NEW i \in 1..m, NEW k \in 1..m
      PROVE  (i < k <=> p[i] < p[k]) /\ (i <= k <=> p[i] <= p[k]) /\ (i = k <=> p[i] = p[k])
  <2>1. PICK x, y : x = p[i] /\ y = p[k]
    OBVIOUS
  <2>2. x \in Int /\ y \in Int /\ i \in Int /\ k \in Int
    BY <1>1, <1>3, <2>1
  <2>3. (i < k => x < y) /\ (k < i => y < x) /\ (i = k => x = y)
    BY <1>2, <2>1
  <2>4. (i < k <=> x < y) /\ (i <= k <=> x <= y) /\ (i = k <=> x = y)
    BY <2>2, <2>3
  <2> QED
    BY <2>1, <2>4
<1> QED
  BY <1>1, <1>3, <1>4

\* Places that an enumeration takes to one another are as many.
Matches(p, m, K, A, B) == A \subseteq 1..m /\ B \subseteq K /\ \A k \in 1..m : k \in A <=> p[k] \in B

LEMMA Matched ==
    ASSUME NEW p, NEW m, NEW K, Enumerates(p, m, K),
           NEW A, NEW B, Matches(p, m, K, A, B)
    PROVE  Cardinality(A) = Cardinality(B)
<1>1. /\ m \in Nat /\ \A x \in K : \E k \in 1..m : p[k] = x
      /\ \A i, k \in 1..m : i = k <=> p[i] = p[k]
  BY SameOrder
<1>2. A \subseteq 1..m /\ B \subseteq K /\ \A k \in 1..m : k \in A <=> p[k] \in B
  BY DEF Matches
<1>3. IsFiniteSet(A)
  <2>1. IsFiniteSet(1..m)
    BY <1>1, FS_Interval
  <2> QED
    BY <1>2, <2>1, FS_Subset
<1>4. PICK f : f = [k \in A |-> p[k]]
  OBVIOUS
<1>5. f \in [A -> B]
  BY <1>2, <1>4
<1>6. \A i, k \in A : f[i] = f[k] => i = k
  BY <1>1, <1>2, <1>4
<1>7. \A y \in B : \E k \in A : f[k] = y
  BY <1>1, <1>2, <1>4
<1>8. f \in Bijection(A, B)
  BY <1>5, <1>6, <1>7 DEF Bijection, Injection, Surjection, IsInjective
<1>9. ExistsBijection(A, B)
  BY <1>8 DEF ExistsBijection
<1> QED
  BY <1>3, <1>9, FS_Bijection

LEMMA EnumerationRanks ==
    ASSUME NEW p, NEW m, NEW K, Enumerates(p, m, K)
    PROVE  m = Cardinality(K) /\ \A k \in 1..m : Rank(K, p[k]) = k
<1>1. /\ m \in Nat /\ \A k \in 1..m : p[k] \in K
      /\ \A i, k \in 1..m : i <= k <=> p[i] <= p[k]
  BY SameOrder
<1>2. m = Cardinality(K)
  <2>1. Cardinality(1..m) = Cardinality(K)
    <3>1. \A k \in 1..m : k \in 1..m <=> p[k] \in K
      BY <1>1
    <3>2. PICK A, B : A = 1..m /\ B = K
      OBVIOUS
    <3>3. Matches(p, m, K, A, B)
      BY <3>1, <3>2 DEF Matches
    <3>4. Cardinality(A) = Cardinality(B)
      BY <3>3, Matched
    <3> QED
      BY <3>2, <3>4
  <2>2. Cardinality(1..m) = m
    BY <1>1, FS_Interval
  <2> QED
    BY <2>1, <2>2
<1>3. ASSUME NEW k \in 1..m PROVE Rank(K, p[k]) = k
  <2>1. PICK B : B = {j \in K : j <= p[k]}
    OBVIOUS
  <2>2. 1..k \subseteq 1..m /\ k \in Nat
    BY <1>1
  <2>3. \A i \in 1..m : i \in 1..k <=> p[i] \in B
    <3>1. \A i \in 1..m : i \in 1..k <=> i <= k
      BY <1>1
    <3> QED
      BY <1>1, <2>1, <3>1
  <2>4. Cardinality(1..k) = Cardinality(B)
    <3>1. Matches(p, m, K, 1..k, B)
      BY <2>1, <2>2, <2>3 DEF Matches
    <3> QED
      BY <3>1, Matched
  <2>5. Cardinality(1..k) = k
    BY <2>2, FS_Interval
  <2> QED
    BY <2>1, <2>4, <2>5 DEF Rank
<1> QED
  BY <1>2, <1>3

LEMMA OneOrder ==
    ASSUME NEW p, NEW m, NEW K, Enumerates(p, m, K),
           NEW q, Enumerates(q, m, K)
    PROVE  p = q
<1>1. m \in Nat /\ Places(K) /\ p \in [1..m -> K] /\ q \in [1..m -> K]
  BY DEF Enumerates
<1>2. ASSUME NEW k \in 1..m PROVE p[k] = q[k]
  <2>1. PICK x, y : x = p[k] /\ y = q[k]
    OBVIOUS
  <2>2. x \in K /\ y \in K /\ x \in Int /\ y \in Int
    <3>1. K \subseteq Nat
      BY <1>1, PlacesFinite
    <3> QED
      BY <1>1, <2>1, <3>1
  <2>3. Rank(K, x) = k /\ Rank(K, y) = k /\ k \in Int
    BY <2>1, EnumerationRanks
  <2>4. (x < y => Rank(K, x) < Rank(K, y)) /\ (y < x => Rank(K, y) < Rank(K, x))
    BY <1>1, <2>2, RankGrows
  <2> QED
    BY <2>1, <2>2, <2>3, <2>4
<1> QED
  BY <1>1, <1>2

\* An order of some of the places in an order.
LEMMA Composed ==
    ASSUME NEW p, NEW m, NEW K, Enumerates(p, m, K),
           NEW L, NEW q, NEW l, Enumerates(q, l, L),
           NEW M, Matches(p, m, K, L, M),
           NEW f, f = [k \in 1..l |-> p[q[k]]]
    PROVE  Enumerates(f, l, M)
<1>1. /\ m \in Nat /\ Places(K) /\ \A k \in 1..m : p[k] \in K
      /\ \A i, k \in 1..m : i < k <=> p[i] < p[k]
      /\ \A x \in K : \E k \in 1..m : p[k] = x
  BY SameOrder
<1>2. L \subseteq 1..m /\ M \subseteq K /\ \A k \in 1..m : k \in L <=> p[k] \in M
  BY DEF Matches
<1>3. /\ l \in Nat /\ \A k \in 1..l : q[k] \in L /\ q[k] \in 1..m
      /\ \A i, k \in 1..l : i < k <=> q[i] < q[k]
      /\ \A x \in L : \E k \in 1..l : q[k] = x
  BY <1>1, <1>2, SameOrder
<1>4. f \in [1..l -> M]
  BY <1>3, <1>2
<1>5. \A i, k \in 1..l : i < k => f[i] < f[k]
  BY <1>1, <1>3
<1>6. ASSUME NEW x \in M PROVE \E k \in 1..l : f[k] = x
  <2>1. PICK i \in 1..m : p[i] = x
    BY <1>1, <1>2
  <2>2. PICK k \in 1..l : q[k] = i
    BY <1>3, <1>2, <2>1
  <2> QED
    BY <2>1, <2>2
<1>7. Places(M)
  BY <1>1, <1>2, PlacesFinite
<1> QED
  BY <1>3, <1>4, <1>5, <1>6, <1>7 DEF Enumerates

-----------------------------------------------------------------------------
(* Parts of lists, and what retention leaves of one.                        *)

\* r has the elements of s at the places K; p[k] is the place of the k-th.
Part(s, p, K, r) ==
    /\ K \subseteq DOMAIN s /\ Enumerates(p, Len(r), K)
    /\ \A k \in 1..Len(r) : r[k] = s[p[k]]

Young(s, now) == {i \in DOMAIN s : s[i].time >= now - MaxAge}
Later(s, now, i) == {j \in Young(s, now) : j >= i /\ s[j].name = s[i].name}
Lasting(s, now) == {i \in Young(s, now) : Cardinality(Later(s, now, i)) <= MaxRuns}

LEMMA AtIs ==
    ASSUME NEW S, NEW s \in Seq(S), NEW K, K \subseteq DOMAIN s, NEW r, r = At(s, K)
    PROVE  /\ r \in Seq(S) /\ DOMAIN r = 1..Len(r) /\ Len(r) \in Nat /\ Len(r) = Cardinality(K)
           /\ Part(s, InOrder(K), K, r)
<1>1. PICK n \in Nat : n = Len(s) /\ DOMAIN s = 1..n
  BY LenProperties
<1>2. Places(K)
  BY <1>1 DEF Places
<1>3. PICK p, m : p = InOrder(K) /\ m = Cardinality(K)
  OBVIOUS
<1>4. Enumerates(p, m, K)
  BY <1>2, <1>3, InOrderEnumerates
<1>5. m \in Nat /\ \A k \in 1..m : p[k] \in DOMAIN s
  BY <1>4 DEF Enumerates
<1>6. r = [k \in 1..m |-> s[p[k]]]
  BY <1>3 DEF At
<1>7. \A k \in 1..m : s[p[k]] \in S
  BY <1>1, <1>5, ElementOfSeq
<1>8. r \in Seq(S) /\ Len(r) = m /\ DOMAIN r = 1..m
  BY <1>5, <1>6, <1>7
<1> QED
  BY <1>3, <1>4, <1>5, <1>6, <1>8 DEF Part

\* A part of a part is a part.
LEMMA PartOfPart ==
    ASSUME NEW s, NEW p, NEW K, NEW y, Part(s, p, K, y),
           NEW q, NEW L, NEW r, Part(y, q, L, r), NEW M, Matches(p, Len(y), K, L, M)
    PROVE  \E f : Part(s, f, M, r)
<1>1. PICK m, l : m = Len(y) /\ l = Len(r)
  OBVIOUS
<1>2. Enumerates(p, m, K) /\ K \subseteq DOMAIN s /\ \A k \in 1..m : y[k] = s[p[k]]
  BY <1>1 DEF Part
<1>3. Enumerates(q, l, L) /\ \A k \in 1..l : r[k] = y[q[k]]
  BY <1>1 DEF Part
<1>4. L \subseteq 1..m /\ M \subseteq K
  BY <1>1 DEF Matches
<1>5. PICK f : f = [k \in 1..l |-> p[q[k]]]
  OBVIOUS
<1>6. Enumerates(f, l, M)
  BY <1>1, <1>2, <1>3, <1>5, Composed
<1>7. \A k \in 1..l : r[k] = s[f[k]]
  <2>1. \A k \in 1..l : q[k] \in 1..m
    BY <1>3, <1>4, SameOrder
  <2> QED
    BY <1>2, <1>3, <1>5, <2>1
<1> QED
  BY <1>1, <1>2, <1>4, <1>6, <1>7 DEF Part

LEMMA RetainIs ==
    ASSUME NEW s \in Seq(Entries), NEW now \in Int, NEW r, r = Retain(s, now)
    PROVE  /\ r \in Seq(Entries) /\ DOMAIN r = 1..Len(r) /\ Len(r) \in Nat
           /\ \E p : Part(s, p, Lasting(s, now), r)
<1>1. PICK Y, M : Y = Young(s, now) /\ M = Lasting(s, now)
  OBVIOUS
<1>2. PICK y : y = YoungEnough(s, now)
  OBVIOUS
<1>3. PICK p, m : p = InOrder(Y) /\ m = Len(y)
  OBVIOUS
<1>4. Y \subseteq DOMAIN s /\ M \subseteq Y /\ \A i \in Y : i \in M <=> Cardinality(Later(s, now, i)) <= MaxRuns
  BY <1>1 DEF Young, Lasting
<1>5. y = At(s, Y)
  BY <1>1, <1>2 DEF YoungEnough, Young
<1>6. y \in Seq(Entries) /\ DOMAIN y = 1..m /\ m \in Nat /\ Part(s, p, Y, y)
  BY <1>3, <1>4, <1>5, AtIs
<1>7. Enumerates(p, m, Y) /\ \A k \in 1..m : y[k] = s[p[k]]
  BY <1>3, <1>6 DEF Part
<1>8. (\A k \in 1..m : p[k] \in Y) /\ \A i, k \in 1..m : i <= k <=> p[i] <= p[k]
  BY <1>7, SameOrder
<1>9. ASSUME NEW k \in 1..m
      PROVE  Cardinality(Seen(y, k)) = Cardinality(Later(s, now, p[k]))
  <2>1. PICK A, B : A = Seen(y, k) /\ B = Later(s, now, p[k])
    OBVIOUS
  <2>2. A = {j \in 1..m : j >= k /\ y[j].name = y[k].name}
    BY <1>6, <2>1 DEF Seen
  <2>3. B = {j \in Y : j >= p[k] /\ s[j].name = s[p[k]].name}
    BY <1>1, <2>1 DEF Later
  <2>4. \A j \in 1..m : j \in A <=> p[j] \in B
    <3>1. \A j \in 1..m : j >= k <=> p[j] >= p[k]
      <4>1. \A j \in 1..m : p[j] \in Nat /\ j \in Nat
        BY <1>7, SameOrder
      <4> QED
        BY <1>8, <4>1
    <3> QED
      BY <1>7, <1>8, <2>2, <2>3, <3>1
  <2>5. Matches(p, m, Y, A, B)
    BY <2>2, <2>3, <2>4 DEF Matches
  <2> QED
    BY <1>7, <2>1, <2>5, Matched
<1>10. PICK L : L = {k \in DOMAIN y : Cardinality(Seen(y, k)) <= MaxRuns}
  OBVIOUS
<1>11. PICK q, l : q = InOrder(L) /\ l = Len(r)
  OBVIOUS
<1>12. L \subseteq DOMAIN y /\ r = At(y, L)
  BY <1>2, <1>10 DEF Retain, Newest
<1>13. r \in Seq(Entries) /\ DOMAIN r = 1..l /\ l \in Nat /\ Part(y, q, L, r)
  BY <1>6, <1>11, <1>12, AtIs
<1>14. Enumerates(q, l, L) /\ \A k \in 1..l : r[k] = y[q[k]]
  BY <1>11, <1>13 DEF Part
<1>15. Matches(p, m, Y, L, M)
  BY <1>4, <1>6, <1>8, <1>9, <1>10 DEF Matches
<1>16. Matches(p, Len(y), Y, L, M)
  BY <1>3, <1>15
<1>17. \E f : Part(s, f, M, r)
  BY <1>6, <1>13, <1>16, PartOfPart
<1> QED
  BY <1>1, <1>11, <1>13, <1>17

\* Of each name at most MaxRuns last, and no fewer if one that is young does not.
LEMMA LastingFew ==
    ASSUME NEW s \in Seq(Entries), NEW now \in Int, NEW name,
           NEW N, N = {i \in Lasting(s, now) : s[i].name = name}
    PROVE  /\ Cardinality(N) \in Nat /\ Cardinality(N) <= MaxRuns
           /\ \A i \in Young(s, now) : s[i].name = name /\ i \notin Lasting(s, now) => Cardinality(N) = MaxRuns
<1>1. MaxRuns \in Nat /\ MaxRuns > 0
  BY HistoryAssumption DEF HistoryAssumption
<1>2. PICK Z : Z = {i \in Young(s, now) : s[i].name = name}
  OBVIOUS
<1>3. PICK n \in Nat : DOMAIN s = 1..n
  BY LenProperties
<1>4. Places(Z)
  BY <1>2, <1>3 DEF Young, Places
<1>5. PICK p, m : p = InOrder(Z) /\ m = Cardinality(Z)
  OBVIOUS
<1>6. Enumerates(p, m, Z)
  BY <1>4, <1>5, InOrderEnumerates
<1>7. /\ m \in Nat /\ (\A k \in 1..m : p[k] \in Z /\ p[k] \in Nat) /\ (\A x \in Z : \E k \in 1..m : p[k] = x)
      /\ \A i, k \in 1..m : i <= k <=> p[i] <= p[k]
  BY <1>6, SameOrder
<1>8. ASSUME NEW k \in 1..m PROVE Cardinality(Later(s, now, p[k])) = m - k + 1
  <2>1. PICK B : B = Later(s, now, p[k])
    OBVIOUS
  <2>2. B = {j \in Z : j >= p[k]}
    BY <1>2, <1>7, <2>1 DEF Later
  <2>3. \A j \in 1..m : j \in k..m <=> p[j] \in B
    <3>1. \A j \in 1..m : j \in k..m <=> k <= j
      BY <1>7
    <3>2. \A j \in 1..m : p[j] >= p[k] <=> p[k] <= p[j]
      BY <1>7
    <3> QED
      BY <1>7, <2>2, <3>1, <3>2
  <2>4. k..m \subseteq 1..m
    BY <1>7
  <2>5. Matches(p, m, Z, k..m, B)
    BY <2>2, <2>3, <2>4 DEF Matches
  <2>6. Cardinality(k..m) = Cardinality(B)
    BY <1>6, <2>5, Matched
  <2>7. Cardinality(k..m) = m - k + 1
    BY <1>7, FS_Interval
  <2> QED
    BY <2>1, <2>6, <2>7
<1>9. \A k \in 1..m : p[k] \in N <=> m - k + 1 <= MaxRuns
  BY <1>2, <1>7, <1>8 DEF Lasting
<1>10. PICK first \in 1..(m + 1) : (m <= MaxRuns => first = 1) /\ (m > MaxRuns => first = m - MaxRuns + 1)
  <2>1. CASE m <= MaxRuns
    <3>1. 1 \in 1..(m + 1) /\ ~(m > MaxRuns)
      BY <1>1, <1>7, <2>1
    <3> QED
      BY <2>1, <3>1
  <2>2. CASE ~(m <= MaxRuns)
    <3>1. m - MaxRuns + 1 \in 1..(m + 1)
      BY <1>1, <1>7, <2>2
    <3> QED
      BY <2>2, <3>1
  <2> QED
    BY <2>1, <2>2
<1>11. \A k \in 1..m : k \in first..m <=> m - k + 1 <= MaxRuns
  BY <1>1, <1>7, <1>10
<1>12. first..m \subseteq 1..m /\ N \subseteq Z
  BY <1>2, <1>7, <1>10 DEF Lasting
<1>13. Matches(p, m, Z, first..m, N)
  BY <1>9, <1>11, <1>12 DEF Matches
<1>14. Cardinality(N) = Cardinality(first..m)
  BY <1>6, <1>13, Matched
<1>15. Cardinality(first..m) = m - first + 1
  <2>1. first \in Int /\ m \in Int /\ first <= m + 1
    BY <1>7, <1>10
  <2>2. Cardinality(first..m) = IF first > m THEN 0 ELSE m - first + 1
    BY <2>1, FS_Interval
  <2> QED
    BY <2>1, <2>2
<1>16. ASSUME NEW i \in Young(s, now), s[i].name = name, i \notin Lasting(s, now)
       PROVE  m > MaxRuns
  <2>1. PICK k \in 1..m : p[k] = i
    BY <1>2, <1>7, <1>16
  <2>2. ~(m - k + 1 <= MaxRuns)
    BY <1>8, <1>16, <2>1 DEF Lasting
  <2> QED
    BY <1>1, <1>7, <2>2
<1>17. Cardinality(N) \in Nat /\ Cardinality(N) <= MaxRuns /\ (m > MaxRuns => Cardinality(N) = MaxRuns)
  <2>1. Cardinality(N) = m - first + 1
    BY <1>14, <1>15
  <2> QED
    BY <1>1, <1>7, <1>10, <2>1
<1> QED
  BY <1>16, <1>17

LEMMA RetainCounts ==
    ASSUME NEW s \in Seq(Entries), NEW now \in Int, NEW r, r = Retain(s, now), NEW name
    PROVE  /\ Count(r, name) \in Nat /\ Count(r, name) <= MaxRuns
           /\ \A i \in Young(s, now) : s[i].name = name /\ i \notin Lasting(s, now) => Count(r, name) = MaxRuns
<1>1. PICK N : N = {i \in Lasting(s, now) : s[i].name = name}
  OBVIOUS
<1>2. DOMAIN r = 1..Len(r)
  BY RetainIs
<1>3. PICK p : Part(s, p, Lasting(s, now), r)
  BY RetainIs
<1>4. Enumerates(p, Len(r), Lasting(s, now)) /\ \A k \in 1..Len(r) : r[k] = s[p[k]]
  BY <1>3 DEF Part
<1>5. \A k \in 1..Len(r) : p[k] \in Lasting(s, now)
  BY <1>4, SameOrder
<1>6. PICK A : A = Named(r, name)
  OBVIOUS
<1>7. Matches(p, Len(r), Lasting(s, now), A, N)
  BY <1>1, <1>2, <1>4, <1>5, <1>6 DEF Matches, Named
<1>8. Count(r, name) = Cardinality(N)
  BY <1>4, <1>6, <1>7, Matched DEF Count
<1> QED
  BY <1>1, <1>8, LastingFew

\* An entry that is in the list and not in what is left of it is too old, or enough of
\* its name are left.
LEMMA RetainLoses ==
    ASSUME NEW s \in Seq(Entries), NEW now \in Int, NEW r, r = Retain(s, now), NEW e, Within(s, e)
    PROVE  Within(r, e) \/ TooOld(e, now) \/ Count(r, e.name) = MaxRuns
<1>1. PICK i \in DOMAIN s : s[i] = e
  BY DEF Within
<1>2. PICK p : Part(s, p, Lasting(s, now), r)
  BY RetainIs
<1>3. DOMAIN r = 1..Len(r)
  BY RetainIs
<1>4. e.time \in Int /\ now - MaxAge \in Int
  <2>1. e \in Entries
    BY <1>1, ElementOfSeq, LenProperties
  <2>2. e.time \in Times
    BY <2>1 DEF Entries
  <2>3. \A t \in Times : t \in Int
    BY HistoryAssumption DEF HistoryAssumption
  <2>4. e.time \in Int
    BY <2>2, <2>3
  <2>5. MaxAge \in Int
    BY HistoryAssumption DEF HistoryAssumption
  <2>6. now - MaxAge \in Int
    BY <2>5
  <2> QED
    BY <2>4, <2>6
<1>5. CASE i \in Lasting(s, now)
  <2>1. PICK k \in 1..Len(r) : p[k] = i
    BY <1>2, <1>5, SameOrder DEF Part
  <2>2. r[k] = e
    BY <1>1, <1>2, <2>1 DEF Part
  <2> QED
    BY <1>3, <2>2 DEF Within
<1>6. CASE i \notin Lasting(s, now) /\ i \in Young(s, now)
  BY <1>1, <1>6, RetainCounts
<1>7. CASE i \notin Young(s, now)
  BY <1>1, <1>4, <1>7 DEF Young, TooOld
<1> QED
  BY <1>5, <1>6, <1>7

\* The entry at the end is left if it is young.
LEMMA RetainEnds ==
    ASSUME NEW s \in Seq(Entries), NEW now \in Int, NEW r, r = Retain(s, now), s # <<>>,
           s[Len(s)].time >= now - MaxAge
    PROVE  r # <<>> /\ r[Len(r)] = s[Len(s)]
<1>1. PICK n : n = Len(s)
  OBVIOUS
<1>2. n \in Nat /\ n > 0 /\ DOMAIN s = 1..n
  BY <1>1, LenProperties, EmptySeq
<1>3. n \in Young(s, now) /\ Young(s, now) \subseteq 1..n
  BY <1>1, <1>2 DEF Young
<1>4. n \in Lasting(s, now)
  <2>1. Later(s, now, n) = {n}
    BY <1>2, <1>3 DEF Later
  <2>2. Cardinality(Later(s, now, n)) = 1
    BY <2>1, FS_Singleton
  <2> QED
    BY <1>3, <2>2, HistoryAssumption DEF Lasting, HistoryAssumption
<1>5. PICK p : Part(s, p, Lasting(s, now), r)
  BY RetainIs
<1>6. PICK l : l = Len(r)
  OBVIOUS
<1>7. /\ l \in Nat /\ Lasting(s, now) \subseteq 1..n
      /\ \A k \in 1..l : p[k] \in Lasting(s, now)
      /\ \A i, k \in 1..l : i < k <=> p[i] < p[k]
  BY <1>3, <1>5, <1>6, SameOrder DEF Part, Lasting
<1>8. PICK k \in 1..l : p[k] = n
  BY <1>4, <1>5, <1>6, SameOrder DEF Part
<1>9. k = l
  <2>1. l \in 1..l /\ p[l] \in 1..n
    BY <1>7
  <2>2. ~(k < l)
    BY <1>2, <1>7, <1>8, <2>1
  <2> QED
    BY <1>7, <2>2
<1>10. r[l] = s[n] /\ l > 0
  BY <1>5, <1>6, <1>7, <1>8, <1>9 DEF Part
<1>11. r # <<>>
  BY <1>6, <1>10
<1> QED
  BY <1>1, <1>6, <1>10, <1>11

-----------------------------------------------------------------------------
(* The invariant.                                                           *)

Asking == {"runs", "append"}
Saving == {"save", "write", "replace"}

\* Entries are of runs that were set out to be recorded; the run that a job is asking
\* the trend of has no entry yet.
Dated(s, numbers, labels) ==
    \A i \in DOMAIN s : LET job == s[i].id[1]
                        IN  /\ s[i].id[2] <= numbers[job]
                            /\ labels[job] \in Asking => s[i].id[2] < numbers[job]
Ordered(s) ==
    \A i, k \in 1..Len(s) : i < k /\ s[i].id[1] = s[k].id[1] => s[i].id[2] < s[k].id[2]
Limited(s) == \A name \in Names : Count(s, name) <= MaxRuns
Sound(s, numbers, labels) == s \in Seq(Entries) /\ Dated(s, numbers, labels) /\ Ordered(s)

\* What a job is about to save, and what it has written.
ToldTrends == [previous : Scores, delta : Int \cup {NoScore}, runs : Nat]
Ending(j) == loaded[j] # <<>> /\ loaded[j][Len(loaded[j])].id = <<j, made[j]>> /\ loaded[j][Len(loaded[j])].time = when[j]
Carries(j) ==
    /\ Sound(loaded[j], made, pc)
    /\ temp[j] \notin {Absent, Torn} => Sound(temp[j], made, pc) /\ Limited(temp[j])
    /\ pc[j] = "replace" => temp[j] = Retain(loaded[j], when[j])
    /\ pc[j] \in Saving /\ Recording(j) => Ending(j)
    /\ pc[j] \in Asking => Recording(j) /\ made[j] > 0
    /\ pc[j] = "runs" => trend[j] \in ToldTrends
    /\ pc[j] = "idle" => ~Recording(j)

HistoryInv ==
    /\ TypeOK /\ StoreWhole
    /\ Sound(Load, made, pc) /\ Limited(Load)
    /\ \A j \in Jobs : Carries(j)

Onward(numbers, labels, numbers2, labels2) ==
    \A k \in Jobs : \/ numbers2[k] = numbers[k] /\ (labels2[k] \in Asking => labels[k] \in Asking)
                    \/ numbers2[k] = numbers[k] + 1

LEMMA EntryOf ==
    ASSUME NEW s \in Seq(Entries), NEW i \in DOMAIN s
    PROVE  /\ s[i] \in Entries /\ s[i].id[1] \in Jobs /\ s[i].id[2] \in Nat
           /\ s[i].name \in Names /\ s[i].score \in Scores \cup {NoScore}
<1>1. s[i] \in Entries
  BY ElementOfSeq, LenProperties
<1>2. s[i].id \in Jobs \X (1..MaxRecords) /\ s[i].name \in Names /\ s[i].score \in Scores \cup {NoScore}
  BY <1>1 DEF Entries, Ids
<1> QED
  BY <1>1, <1>2

LEMMA SoundOnward ==
    ASSUME NEW numbers \in [Jobs -> Nat], NEW labels, NEW numbers2, NEW labels2,
           Onward(numbers, labels, numbers2, labels2), NEW s, Sound(s, numbers, labels)
    PROVE  Sound(s, numbers2, labels2)
<1>1. s \in Seq(Entries) /\ Ordered(s)
  BY DEF Sound
<1>2. ASSUME NEW i \in DOMAIN s
      PROVE  /\ s[i].id[2] <= numbers2[s[i].id[1]]
             /\ labels2[s[i].id[1]] \in Asking => s[i].id[2] < numbers2[s[i].id[1]]
  <2>1. PICK k, n : k = s[i].id[1] /\ n = s[i].id[2]
    OBVIOUS
  <2>2. k \in Jobs /\ n \in Nat /\ numbers[k] \in Nat
    BY <1>1, <2>1, EntryOf
  <2>3. n <= numbers[k] /\ (labels[k] \in Asking => n < numbers[k])
    BY <2>1 DEF Sound, Dated
  <2>4. n <= numbers2[k] /\ (labels2[k] \in Asking => n < numbers2[k])
    BY <2>2, <2>3 DEF Onward
  <2> QED
    BY <2>1, <2>4
<1> QED
  BY <1>1, <1>2 DEF Sound, Dated

LEMMA RetainSound ==
    ASSUME NEW s, NEW numbers, NEW labels, Sound(s, numbers, labels), NEW now \in Int, NEW r, r = Retain(s, now)
    PROVE  Sound(r, numbers, labels) /\ Limited(r) /\ r \notin {Absent, Torn}
<1>1. s \in Seq(Entries)
  BY DEF Sound
<1>2. r \in Seq(Entries) /\ DOMAIN r = 1..Len(r) /\ Len(r) \in Nat
  BY <1>1, RetainIs
<1>3. PICK p : Part(s, p, Lasting(s, now), r)
  BY <1>1, RetainIs
<1>4. /\ Lasting(s, now) \subseteq DOMAIN s /\ (\A k \in 1..Len(r) : r[k] = s[p[k]])
      /\ \A k \in 1..Len(r) : p[k] \in Lasting(s, now)
      /\ \A i, k \in 1..Len(r) : i < k <=> p[i] < p[k]
  BY <1>3, SameOrder DEF Part
<1>5. DOMAIN s = 1..Len(s)
  BY <1>1, LenProperties
<1>6. Dated(r, numbers, labels)
  BY <1>2, <1>4 DEF Sound, Dated
<1>7. Ordered(r)
  <2> SUFFICES ASSUME NEW i \in 1..Len(r), NEW k \in 1..Len(r), i < k, r[i].id[1] = r[k].id[1]
               PROVE  r[i].id[2] < r[k].id[2]
    BY DEF Ordered
  <2>1. PICK a, b : a = p[i] /\ b = p[k]
    OBVIOUS
  <2>2. a \in 1..Len(s) /\ b \in 1..Len(s) /\ a < b /\ r[i] = s[a] /\ r[k] = s[b]
    BY <1>4, <1>5, <2>1
  <2> QED
    BY <2>2 DEF Sound, Ordered
<1>8. Limited(r)
  BY <1>1, RetainCounts DEF Limited
<1>9. r \notin {Absent, Torn}
  BY <1>2, FileAssumption DEF FileAssumption
<1> QED
  BY <1>2, <1>6, <1>7, <1>8, <1>9 DEF Sound

Appended(j, numbers, labels, labels2, s, e, r) ==
    /\ numbers \in [Jobs -> Nat] /\ Sound(s, numbers, labels)
    /\ labels[j] \in Asking /\ labels2[j] \notin Asking
    /\ \A k \in Jobs : k # j => labels2[k] = labels[k]
    /\ e \in Entries /\ e.id = <<j, numbers[j]>>
    /\ r = Append(s, e)

\* The entry of the run that a job has asked the trend of goes last.
LEMMA AppendSound ==
    ASSUME NEW j \in Jobs, NEW numbers, NEW labels, NEW labels2, NEW s, NEW e, NEW r,
           Appended(j, numbers, labels, labels2, s, e, r)
    PROVE  Sound(r, numbers, labels2) /\ r # <<>> /\ r[Len(r)] = e
<1>0. /\ numbers \in [Jobs -> Nat] /\ Sound(s, numbers, labels)
      /\ labels[j] \in Asking /\ labels2[j] \notin Asking
      /\ \A k \in Jobs : k # j => labels2[k] = labels[k]
      /\ e \in Entries /\ e.id = <<j, numbers[j]>>
      /\ r = Append(s, e)
  BY DEF Appended
<1>1. s \in Seq(Entries) /\ Dated(s, numbers, labels) /\ Ordered(s)
  BY <1>0 DEF Sound
<1>2. PICK n : n = Len(s)
  OBVIOUS
<1>3. n \in Nat /\ DOMAIN s = 1..n
  BY <1>1, <1>2, LenProperties
<1>4. r \in Seq(Entries) /\ Len(r) = n + 1 /\ r[n + 1] = e /\ \A i \in 1..n : r[i] = s[i]
  BY <1>0, <1>1, <1>2, AppendProperties
<1>5. DOMAIN r = 1..(n + 1)
  BY <1>4, LenProperties
<1>6. r[n + 1].id[1] = j /\ r[n + 1].id[2] = numbers[j]
  BY <1>0, <1>4
<1>7. ASSUME NEW i \in 1..n
      PROVE  /\ r[i].id[1] \in Jobs /\ r[i].id[2] \in Nat /\ r[i].id[2] <= numbers[r[i].id[1]]
             /\ r[i].id[1] = j => r[i].id[2] < numbers[j]
             /\ labels2[r[i].id[1]] \in Asking => r[i].id[2] < numbers[r[i].id[1]]
  <2>1. r[i] = s[i] /\ i \in DOMAIN s
    BY <1>3, <1>4
  <2>2. PICK k, x : k = r[i].id[1] /\ x = r[i].id[2]
    OBVIOUS
  <2>3. k \in Jobs /\ x \in Nat
    BY <1>1, <2>1, <2>2, EntryOf
  <2>4. x <= numbers[k] /\ (labels[k] \in Asking => x < numbers[k])
    BY <1>1, <2>1, <2>2 DEF Dated
  <2>5. (k = j => x < numbers[j]) /\ (labels2[k] \in Asking => x < numbers[k])
    BY <1>0, <2>3, <2>4
  <2> QED
    BY <2>2, <2>3, <2>4, <2>5
<1>8. Dated(r, numbers, labels2)
  <2> SUFFICES ASSUME NEW i \in 1..(n + 1)
               PROVE  /\ r[i].id[2] <= numbers[r[i].id[1]]
                      /\ labels2[r[i].id[1]] \in Asking => r[i].id[2] < numbers[r[i].id[1]]
    BY <1>5 DEF Dated
  <2>1. CASE i \in 1..n
    BY <1>7, <2>1
  <2>2. CASE i = n + 1
    <3>1. PICK k, x : k = r[i].id[1] /\ x = r[i].id[2]
      OBVIOUS
    <3>2. k = j /\ x = numbers[j] /\ numbers[j] \in Nat
      BY <1>0, <1>6, <2>2, <3>1
    <3>3. x <= numbers[k] /\ ~(labels2[k] \in Asking)
      BY <1>0, <3>2
    <3> QED
      BY <3>1, <3>3
  <2> QED
    BY <1>3, <2>1, <2>2
<1>9. Ordered(r)
  <2> SUFFICES ASSUME NEW i \in 1..(n + 1), NEW k \in 1..(n + 1), i < k, r[i].id[1] = r[k].id[1]
               PROVE  r[i].id[2] < r[k].id[2]
    BY <1>4 DEF Ordered
  <2>1. i \in 1..n
    BY <1>3
  <2>2. CASE k \in 1..n
    BY <1>1, <1>2, <1>4, <2>1, <2>2 DEF Ordered
  <2>3. CASE k = n + 1
    BY <1>6, <1>7, <2>1, <2>3
  <2> QED
    BY <1>3, <2>2, <2>3
<1>10. r # <<>>
  BY <1>3, <1>4
<1> QED
  BY <1>4, <1>8, <1>9, <1>10 DEF Sound

-----------------------------------------------------------------------------
(* What reading gives.                                                      *)

LEMMA LoadIs ==
    ASSUME TypeOK, Readable
    PROVE  Load \in Seq(Entries)
  BY EmptySeq DEF TypeOK, Readable, Load

LEMMA ReadingTypes ==
    ASSUME TypeOK, Readable, NEW name
    PROVE  /\ Len(EntriesOf(name)) \in Nat /\ Scored(name) \in Seq(Entries)
           /\ Scored(name) # <<>> => Scored(name)[Len(Scored(name))].score \in Scores
<1>1. PICK named : named = EntriesOf(name)
  OBVIOUS
<1>2. named \in Seq(Entries) /\ DOMAIN named = 1..Len(named) /\ Len(named) \in Nat
  <2>1. Load \in Seq(Entries)
    BY LoadIs
  <2>2. Named(Load, name) \subseteq DOMAIN Load
    BY DEF Named
  <2> QED
    BY <1>1, <2>1, <2>2, AtIs DEF EntriesOf
<1>3. PICK K : K = {i \in DOMAIN named : named[i].score # NoScore}
  OBVIOUS
<1>4. PICK scored : scored = Scored(name)
  OBVIOUS
<1>5. scored = At(named, K)
  BY <1>1, <1>3, <1>4 DEF Scored
<1>6. scored \in Seq(Entries) /\ Len(scored) \in Nat /\ Part(named, InOrder(K), K, scored)
  BY <1>2, <1>3, <1>5, AtIs
<1>7. ASSUME scored # <<>> PROVE scored[Len(scored)].score \in Scores
  <2>1. PICK l : l = Len(scored)
    OBVIOUS
  <2>2. l \in 1..l
    BY <1>6, <1>7, <2>1, EmptySeq
  <2>3. PICK i \in K : scored[l] = named[i]
    BY <1>6, <2>1, <2>2, SameOrder DEF Part
  <2>4. named[i].score \in Scores \cup {NoScore} /\ named[i].score # NoScore
    BY <1>2, <1>3, EntryOf
  <2> QED
    BY <2>1, <2>3, <2>4
<1> QED
  BY <1>1, <1>2, <1>4, <1>6, <1>7

LEMMA RunTypes ==
    ASSUME TypeOK, NEW j \in Jobs, Recording(j)
    PROVE  run[j].name \in Names /\ run[j].score \in Scores \cup {NoScore}
  BY DEF TypeOK, Recording

-----------------------------------------------------------------------------
(* What a step of one job leaves to the others.                             *)

Apart(k) ==
    /\ temp'[k] = temp[k] /\ pc'[k] = pc[k] /\ run'[k] = run[k] /\ trend'[k] = trend[k]
    /\ loaded'[k] = loaded[k] /\ when'[k] = when[k] /\ made'[k] = made[k]

LEMMA StepApart ==
    ASSUME TypeOK, NEW j \in Jobs, JobNext(j), NEW k \in Jobs, k # j
    PROVE  Apart(k)
<1> USE DEF TypeOK, Apart
<1>1. CASE ReadLatest(j)
  BY <1>1 DEF ReadLatest, Goto
<1>2. CASE ReadRuns(j)
  BY <1>2 DEF ReadRuns, Goto
<1>3. CASE ReadAndAppend(j)
  BY <1>3 DEF ReadAndAppend, Goto
<1>4. CASE Prune(j)
  BY <1>4 DEF Prune, Goto
<1>5. CASE MakeTemp(j)
  BY <1>5 DEF MakeTemp, Goto
<1>6. CASE WriteTemp(j)
  BY <1>6 DEF WriteTemp, Goto
<1>7. CASE Replace(j)
  BY <1>7 DEF Replace, Forget, Goto
<1>8. CASE SaveFails(j)
  BY <1>8 DEF SaveFails, Forget, Goto
<1>9. CASE Killed(j)
  BY <1>9 DEF Killed, Forget, Goto
<1> QED
  BY <1>1, <1>2, <1>3, <1>4, <1>5, <1>6, <1>7, <1>8, <1>9 DEF JobNext

LEMMA StepOnward ==
    ASSUME TypeOK, NEW j \in Jobs, JobNext(j)
    PROVE  Onward(made, pc, made', pc')
<1>1. \A k \in Jobs : k # j => made'[k] = made[k] /\ pc'[k] = pc[k]
  BY StepApart DEF Apart
<1>2. made'[j] = made[j] + 1 \/ (made'[j] = made[j] /\ (pc'[j] \in Asking => pc[j] \in Asking))
  <2> USE DEF TypeOK, Asking, Goto
  <2>1. CASE ReadLatest(j)
    BY <2>1 DEF ReadLatest
  <2>2. CASE ReadRuns(j)
    BY <2>2 DEF ReadRuns
  <2>3. CASE ReadAndAppend(j)
    BY <2>3 DEF ReadAndAppend
  <2>4. CASE Prune(j)
    BY <2>4 DEF Prune
  <2>5. CASE MakeTemp(j) \/ WriteTemp(j)
    BY <2>5 DEF MakeTemp, WriteTemp
  <2>6. CASE Replace(j) \/ SaveFails(j) \/ Killed(j)
    BY <2>6 DEF Replace, SaveFails, Killed, Forget
  <2> QED
    BY <2>1, <2>2, <2>3, <2>4, <2>5, <2>6 DEF JobNext
<1> QED
  BY <1>1, <1>2 DEF Onward

LEMMA OthersCarry ==
    ASSUME TypeOK, NEW j \in Jobs, JobNext(j), NEW k \in Jobs, k # j, Carries(k)
    PROVE  Carries(k)'
<1>1. Apart(k)
  BY StepApart
<1>2. Sound(loaded[k], made', pc')
  <2>1. made \in [Jobs -> Nat] /\ Onward(made, pc, made', pc')
    BY StepOnward DEF TypeOK
  <2> QED
    BY <2>1, SoundOnward DEF Carries
<1>3. ASSUME temp[k] \notin {Absent, Torn} PROVE Sound(temp[k], made', pc') /\ Limited(temp[k])
  <2>1. made \in [Jobs -> Nat] /\ Onward(made, pc, made', pc')
    BY StepOnward DEF TypeOK
  <2> QED
    BY <1>3, <2>1, SoundOnward DEF Carries
<1> QED
  BY <1>1, <1>2, <1>3 DEF Apart, Carries, Recording, Ending

-----------------------------------------------------------------------------
(* Types.                                                                   *)

LEMMA DeltaType ==
    ASSUME NEW score \in Scores \cup {NoScore}, NEW previous \in Scores
    PROVE  Delta(score, previous) \in Int \cup {NoScore}
<1>1. \A x \in Scores : x \in Int
  BY HistoryAssumption DEF HistoryAssumption
<1>2. CASE score = NoScore
  BY <1>2 DEF Delta
<1>3. CASE score # NoScore
  <2>1. score \in Int /\ previous \in Int
    BY <1>1, <1>3
  <2>2. score - previous \in Int
    BY <2>1
  <2> QED
    BY <1>3, <2>2 DEF Delta
<1> QED
  BY <1>2, <1>3

LEMMA ForgetTypes ==
    ASSUME TypeOK, NEW j \in Jobs, Forget(j)
    PROVE  /\ pc' \in [Jobs -> {"idle", "runs", "append", "save", "write", "replace"}]
           /\ run' \in [Jobs -> {NoRun} \cup [name : Names, score : Scores \cup {NoScore}]]
           /\ trend' \in [Jobs -> Trends] /\ loaded' \in [Jobs -> Seq(Entries)] /\ when' \in [Jobs -> Int]
           /\ pc'[j] = "idle" /\ \A k \in Jobs : k # j => pc'[k] = pc[k]
<1>1. <<>> \in Seq(Entries) /\ NoTrend \in Trends
  BY EmptySeq DEF Trends
<1> QED
  BY <1>1 DEF TypeOK, Forget, Goto

LEMMA MadeTypes ==
    ASSUME TypeOK, NEW j \in Jobs, made[j] < plan[j], made' = [made EXCEPT ![j] = @ + 1]
    PROVE  made' \in [Jobs -> Nat] /\ \A k \in Jobs : made'[k] <= plan[k]
<1>1. PICK m, p : m = made[j] /\ p = plan[j]
  OBVIOUS
<1>2. m \in Nat /\ p \in Nat /\ m < p
  <2>1. plan \in [Jobs -> 0..MaxRecords] /\ MaxRecords \in Nat
    BY HistoryAssumption DEF TypeOK, HistoryAssumption
  <2>2. plan[j] \in 0..MaxRecords
    BY <2>1
  <2> QED
    BY <1>1, <2>1, <2>2 DEF TypeOK
<1>3. made' = [made EXCEPT ![j] = m + 1] /\ m + 1 \in Nat /\ m + 1 <= p
  BY <1>1, <1>2
<1>4. made \in [Jobs -> Nat] /\ \A k \in Jobs : made[k] <= plan[k]
  BY DEF TypeOK
<1>5. made' \in [Jobs -> Nat] /\ made'[j] = m + 1 /\ \A k \in Jobs : k # j => made'[k] = made[k]
  BY <1>3, <1>4
<1> QED
  BY <1>1, <1>3, <1>4, <1>5

LEMMA EntryType ==
    ASSUME TypeOK, NEW j \in Jobs, Recording(j), made[j] > 0, NEW now \in Times,
           NEW e, e = [id |-> <<j, made[j]>>, name |-> run[j].name, score |-> run[j].score, time |-> now]
    PROVE  e \in Entries /\ e.id = <<j, made[j]>> /\ e.time = now
<1>1. PICK m : m = made[j]
  OBVIOUS
<1>2. m \in 1..MaxRecords
  <2>1. plan \in [Jobs -> 0..MaxRecords] /\ MaxRecords \in Nat
    BY HistoryAssumption DEF TypeOK, HistoryAssumption
  <2>2. PICK p : p = plan[j]
    OBVIOUS
  <2>3. p \in 0..MaxRecords /\ m \in Nat /\ m <= p /\ m > 0
    BY <1>1, <2>1, <2>2 DEF TypeOK
  <2> QED
    BY <2>1, <2>3
<1>3. <<j, m>> \in Ids
  BY <1>2 DEF Ids
<1>4. run[j].name \in Names /\ run[j].score \in Scores \cup {NoScore}
  BY RunTypes
<1> QED
  BY <1>1, <1>3, <1>4 DEF Entries

LEMMA RunsSet ==
    ASSUME NEW t \in ToldTrends, NEW n \in Nat
    PROVE  [t EXCEPT !.runs = n] \in ToldTrends
  BY DEF ToldTrends

\* A file that a job is about to rename is complete.
LEMMA WrittenWhole ==
    ASSUME TypeOK, NEW j \in Jobs
    PROVE  /\ Retain(loaded[j], when[j]) \in Seq(Entries)
           /\ Retain(loaded[j], when[j]) \notin {Absent, Torn}
<1>1. loaded[j] \in Seq(Entries) /\ when[j] \in Int
  BY DEF TypeOK
<1>2. Retain(loaded[j], when[j]) \in Seq(Entries)
  BY <1>1, RetainIs
<1> QED
  BY <1>2, FileAssumption DEF FileAssumption

LEMMA TypesStep ==
    ASSUME TypeOK, NEW j \in Jobs, Carries(j), JobNext(j), UNCHANGED plan
    PROVE  TypeOK'
<1>1. ToldTrends \subseteq Trends
  BY DEF ToldTrends, Trends
<1>2. \A now \in Times : now \in Int
  BY HistoryAssumption DEF HistoryAssumption
<1>3. CASE ReadLatest(j)
  <2>1. PICK name \in Names, score \in Scores \cup {NoScore} :
          /\ run' = [run EXCEPT ![j] = [name |-> name, score |-> score]]
          /\ \/ Goto(j, "append") /\ UNCHANGED trend
             \/ /\ Scored(name) # <<>> /\ Goto(j, "runs")
                /\ trend' = [trend EXCEPT ![j] =
                               [previous |-> Scored(name)[Len(Scored(name))].score,
                                delta    |-> Delta(score, Scored(name)[Len(Scored(name))].score),
                                runs     |-> 0]]
    BY <1>3 DEF ReadLatest
  <2>2. trend' \in [Jobs -> Trends]
    <3>1. CASE UNCHANGED trend
      BY <3>1 DEF TypeOK
    <3>2. CASE ~UNCHANGED trend
      <4>1. PICK p : p = Scored(name)[Len(Scored(name))].score
        OBVIOUS
      <4>2. Scored(name) # <<>> /\ trend' = [trend EXCEPT ![j] = [previous |-> p, delta |-> Delta(score, p), runs |-> 0]]
        BY <2>1, <3>2, <4>1
      <4>3. p \in Scores
        BY <1>3, <4>1, <4>2, ReadingTypes DEF ReadLatest
      <4>4. Delta(score, p) \in Int \cup {NoScore}
        BY <4>3, DeltaType
      <4>5. [previous |-> p, delta |-> Delta(score, p), runs |-> 0] \in Trends
        BY <4>3, <4>4 DEF Trends
      <4> QED
        BY <4>2, <4>5 DEF TypeOK
    <3> QED
      BY <3>1, <3>2
  <2>3. run' \in [Jobs -> {NoRun} \cup [name : Names, score : Scores \cup {NoScore}]]
    BY <2>1 DEF TypeOK
  <2>4. made' \in [Jobs -> Nat] /\ \A k \in Jobs : made'[k] <= plan'[k]
    BY <1>3, MadeTypes DEF ReadLatest
  <2>5. /\ pc' \in [Jobs -> {"idle", "runs", "append", "save", "write", "replace"}]
        /\ pc'[j] \in {"append", "runs"} /\ \A k \in Jobs : k # j => pc'[k] = pc[k]
    BY <2>1 DEF TypeOK, Goto
  <2>6. UNCHANGED <<store, temp, loaded, when, told>>
    BY <1>3 DEF ReadLatest
  <2> QED
    BY <2>2, <2>3, <2>4, <2>5, <2>6 DEF TypeOK
<1>4. CASE ReadRuns(j)
  <2>1. PICK n : n = Len(EntriesOf(run[j].name))
    OBVIOUS
  <2>2. n \in Nat /\ trend[j] \in ToldTrends
    BY <1>4, <2>1, ReadingTypes DEF ReadRuns, Carries
  <2>3. trend' = [trend EXCEPT ![j] = [trend[j] EXCEPT !.runs = n]]
    BY <1>4, <2>1 DEF ReadRuns
  <2>4. [trend[j] EXCEPT !.runs = n] \in Trends
    BY <1>1, <2>2, RunsSet
  <2>5. trend' \in [Jobs -> Trends]
    BY <2>3, <2>4 DEF TypeOK
  <2> QED
    BY <1>4, <2>5 DEF TypeOK, ReadRuns, Goto
<1>5. CASE ReadAndAppend(j)
  <2>1. PICK now \in Times :
          /\ when' = [when EXCEPT ![j] = now]
          /\ loaded' = [loaded EXCEPT ![j] =
               Append(Load, [id |-> <<j, made[j]>>, name |-> run[j].name, score |-> run[j].score, time |-> now])]
    BY <1>5 DEF ReadAndAppend
  <2>2. PICK e : e = [id |-> <<j, made[j]>>, name |-> run[j].name, score |-> run[j].score, time |-> now]
    OBVIOUS
  <2>3. e \in Entries /\ Load \in Seq(Entries)
    BY <1>5, <2>2, EntryType, LoadIs DEF ReadAndAppend, Carries, Asking
  <2>4. Append(Load, e) \in Seq(Entries) /\ now \in Int
    BY <1>2, <2>3, AppendProperties
  <2>5. when' \in [Jobs -> Int] /\ loaded' \in [Jobs -> Seq(Entries)]
    BY <2>1, <2>2, <2>4 DEF TypeOK
  <2> QED
    BY <1>5, <2>5 DEF TypeOK, ReadAndAppend, Goto
<1>6. CASE Prune(j)
  <2>1. PICK now \in Times : when' = [when EXCEPT ![j] = now]
    BY <1>6 DEF Prune
  <2>2. now \in Int /\ Load \in Seq(Entries)
    BY <1>2, <1>6, LoadIs DEF Prune
  <2>3. when' \in [Jobs -> Int] /\ loaded' \in [Jobs -> Seq(Entries)]
    BY <1>6, <2>1, <2>2 DEF TypeOK, Prune
  <2> QED
    BY <1>6, <2>3 DEF TypeOK, Prune, Goto
<1>7. CASE MakeTemp(j)
  BY <1>7, FileAssumption DEF TypeOK, MakeTemp, Goto, FileAssumption
<1>8. CASE WriteTemp(j)
  <2>1. PICK written : written = Retain(loaded[j], when[j])
    OBVIOUS
  <2>2. written \in Seq(Entries) /\ written \notin {Absent, Torn}
    BY <2>1, WrittenWhole
  <2> QED
    BY <1>8, <2>1, <2>2 DEF TypeOK, WriteTemp, Goto
<1>9. CASE Replace(j)
  <2>1. /\ pc' \in [Jobs -> {"idle", "runs", "append", "save", "write", "replace"}]
        /\ run' \in [Jobs -> {NoRun} \cup [name : Names, score : Scores \cup {NoScore}]]
        /\ trend' \in [Jobs -> Trends] /\ loaded' \in [Jobs -> Seq(Entries)] /\ when' \in [Jobs -> Int]
        /\ pc'[j] = "idle" /\ \A k \in Jobs : k # j => pc'[k] = pc[k]
    BY <1>9, ForgetTypes DEF Replace
  <2>2. told' \in Trends
    BY <1>9 DEF TypeOK, Replace
  <2> QED
    BY <1>9, <2>1, <2>2 DEF TypeOK, Replace
<1>10. CASE SaveFails(j) \/ Killed(j)
  <2>1. /\ pc' \in [Jobs -> {"idle", "runs", "append", "save", "write", "replace"}]
        /\ run' \in [Jobs -> {NoRun} \cup [name : Names, score : Scores \cup {NoScore}]]
        /\ trend' \in [Jobs -> Trends] /\ loaded' \in [Jobs -> Seq(Entries)] /\ when' \in [Jobs -> Int]
        /\ pc'[j] = "idle" /\ \A k \in Jobs : k # j => pc'[k] = pc[k]
    BY <1>10, ForgetTypes DEF SaveFails, Killed
  <2> QED
    BY <1>10, <2>1 DEF TypeOK, SaveFails, Killed
<1> QED
  BY <1>3, <1>4, <1>5, <1>6, <1>7, <1>8, <1>9, <1>10 DEF JobNext

-----------------------------------------------------------------------------
(* The invariant is kept.                                                   *)

LEMMA EmptySound ==
    ASSUME NEW numbers, NEW labels
    PROVE  Sound(<<>>, numbers, labels) /\ Limited(<<>>)
<1>1. <<>> \in Seq(Entries) /\ Len(<<>>) = 0 /\ DOMAIN <<>> = {}
  BY EmptySeq
<1>2. ASSUME NEW name PROVE Count(<<>>, name) <= MaxRuns
  <2>1. Named(<<>>, name) = {}
    BY <1>1 DEF Named
  <2>2. Count(<<>>, name) = 0
    BY <2>1, FS_EmptySet DEF Count
  <2> QED
    BY <2>2, HistoryAssumption DEF HistoryAssumption
<1> QED
  BY <1>1, <1>2 DEF Sound, Dated, Ordered, Limited

\* What stays as it was stays sound.
LEMMA StepSound ==
    ASSUME TypeOK, NEW j \in Jobs, JobNext(j), NEW s, Sound(s, made, pc)
    PROVE  Sound(s, made', pc')
<1>1. made \in [Jobs -> Nat] /\ Onward(made, pc, made', pc')
  BY StepOnward DEF TypeOK
<1> QED
  BY <1>1, SoundOnward

LEMMA ForgetCarries ==
    ASSUME TypeOK, NEW j \in Jobs, Forget(j),
           temp'[j] \notin {Absent, Torn} => Sound(temp'[j], made', pc') /\ Limited(temp'[j])
    PROVE  Carries(j)'
<1>1. pc'[j] = "idle" /\ run'[j] = NoRun /\ loaded'[j] = <<>>
  BY DEF TypeOK, Forget, Goto
<1>2. Sound(<<>>, made', pc')
  BY EmptySound
<1> QED
  BY <1>1, <1>2 DEF Carries, Asking, Saving, Recording

LEMMA OwnCarries ==
    ASSUME TypeOK, NEW j \in Jobs, JobNext(j), Carries(j), Sound(Load, made, pc)
    PROVE  Carries(j)'
<1>1. /\ Sound(loaded[j], made', pc')
      /\ temp[j] \notin {Absent, Torn} => Sound(temp[j], made', pc') /\ Limited(temp[j])
  BY StepSound DEF Carries
<1>2. CASE ReadLatest(j)
  <2>1. PICK name \in Names, score \in Scores \cup {NoScore} :
          /\ run' = [run EXCEPT ![j] = [name |-> name, score |-> score]]
          /\ \/ Goto(j, "append") /\ UNCHANGED trend
             \/ /\ Scored(name) # <<>> /\ Goto(j, "runs")
                /\ trend' = [trend EXCEPT ![j] =
                               [previous |-> Scored(name)[Len(Scored(name))].score,
                                delta    |-> Delta(score, Scored(name)[Len(Scored(name))].score),
                                runs     |-> 0]]
    BY <1>2 DEF ReadLatest
  <2>2. run'[j] # NoRun
    <3>1. run'[j].name = name /\ name # NoTrend
      BY <2>1, HistoryAssumption DEF TypeOK, HistoryAssumption
    <3> QED
      BY <3>1 DEF NoRun
  <2>3. made'[j] > 0
    <3>1. made'[j] = made[j] + 1 /\ made[j] \in Nat
      BY <1>2 DEF TypeOK, ReadLatest
    <3> QED
      BY <3>1
  <2>4. pc'[j] \in {"append", "runs"}
    BY <2>1 DEF TypeOK, Goto
  <2>5. ASSUME pc'[j] = "runs" PROVE trend'[j] \in ToldTrends
    <3>1. PICK p : p = Scored(name)[Len(Scored(name))].score
      OBVIOUS
    <3>2. Scored(name) # <<>> /\ trend' = [trend EXCEPT ![j] = [previous |-> p, delta |-> Delta(score, p), runs |-> 0]]
      BY <2>1, <2>5, <3>1 DEF TypeOK, Goto
    <3>3. p \in Scores
      BY <1>2, <3>1, <3>2, ReadingTypes DEF ReadLatest
    <3>4. Delta(score, p) \in Int \cup {NoScore}
      BY <3>3, DeltaType
    <3>5. [previous |-> p, delta |-> Delta(score, p), runs |-> 0] \in ToldTrends
      BY <3>3, <3>4 DEF ToldTrends
    <3> QED
      BY <3>2, <3>5 DEF TypeOK
  <2>6. loaded'[j] = loaded[j] /\ temp'[j] = temp[j]
    BY <1>2 DEF ReadLatest
  <2> QED
    BY <1>1, <2>2, <2>3, <2>4, <2>5, <2>6 DEF Carries, Asking, Saving, Recording
<1>3. CASE ReadRuns(j)
  <2>1. PICK n : n = Len(EntriesOf(run[j].name))
    OBVIOUS
  <2>2. pc'[j] = "append" /\ pc[j] = "runs" /\ UNCHANGED <<temp, run, loaded, when, made>>
    BY <1>3 DEF TypeOK, ReadRuns, Goto
  <2> QED
    BY <1>1, <2>2 DEF Carries, Asking, Saving, Recording
<1>4. CASE ReadAndAppend(j)
  <2>1. PICK now \in Times :
          /\ when' = [when EXCEPT ![j] = now]
          /\ loaded' = [loaded EXCEPT ![j] =
               Append(Load, [id |-> <<j, made[j]>>, name |-> run[j].name, score |-> run[j].score, time |-> now])]
    BY <1>4 DEF ReadAndAppend
  <2>2. PICK e : e = [id |-> <<j, made[j]>>, name |-> run[j].name, score |-> run[j].score, time |-> now]
    OBVIOUS
  <2>3. Recording(j) /\ made[j] > 0 /\ pc[j] \in Asking
    BY <1>4 DEF ReadAndAppend, Carries, Asking
  <2>4. e \in Entries /\ e.id = <<j, made[j]>> /\ e.time = now
    BY <2>2, <2>3, EntryType
  <2>5. PICK r : r = Append(Load, e)
    OBVIOUS
  <2>6. when'[j] = now /\ loaded'[j] = r
    BY <2>1, <2>2, <2>5 DEF TypeOK
  <2>7. pc'[j] = "save" /\ \A k \in Jobs : k # j => pc'[k] = pc[k]
    BY <1>4 DEF TypeOK, ReadAndAppend, Goto
  <2>8. Sound(r, made, pc') /\ r # <<>> /\ r[Len(r)] = e
    <3>1. pc'[j] \notin Asking
      BY <2>7 DEF Asking
    <3>2. made \in [Jobs -> Nat]
      BY DEF TypeOK
    <3>3. pc[j] \in Asking /\ e \in Entries /\ e.id = <<j, made[j]>>
      BY <2>3, <2>4
    <3>4. \A k \in Jobs : k # j => pc'[k] = pc[k]
      BY <2>7
    <3>5. Appended(j, made, pc, pc', Load, e, r)
      BY <2>5, <3>1, <3>2, <3>3, <3>4 DEF Appended
    <3> QED
      BY <3>5, AppendSound
  <2>9. UNCHANGED <<temp, run, made>>
    BY <1>4 DEF ReadAndAppend
  <2>10. Ending(j)'
    BY <2>4, <2>6, <2>8, <2>9 DEF Ending
  <2> QED
    BY <1>1, <2>6, <2>7, <2>8, <2>9, <2>10 DEF Carries, Asking, Saving, Recording
<1>5. CASE Prune(j)
  <2>1. /\ pc[j] = "idle" /\ pc'[j] = "save" /\ loaded'[j] = Load /\ UNCHANGED <<temp, run, made>>
    BY <1>5 DEF TypeOK, Prune, Goto
  <2>2. Sound(Load, made', pc')
    BY StepSound
  <2> QED
    BY <1>1, <2>1, <2>2 DEF Carries, Asking, Saving, Recording
<1>6. CASE MakeTemp(j)
  <2>1. /\ pc[j] = "save" /\ pc'[j] = "write" /\ temp'[j] = Torn /\ UNCHANGED <<run, loaded, when, made>>
    BY <1>6 DEF TypeOK, MakeTemp, Goto
  <2> QED
    BY <1>1, <2>1 DEF Carries, Asking, Saving, Recording, Ending
<1>7. CASE WriteTemp(j)
  <2>1. PICK written : written = Retain(loaded[j], when[j])
    OBVIOUS
  <2>2. /\ pc[j] = "write" /\ pc'[j] = "replace" /\ temp'[j] = written /\ UNCHANGED <<run, loaded, when, made>>
    BY <1>7, <2>1 DEF TypeOK, WriteTemp, Goto
  <2>3. Sound(written, made', pc') /\ Limited(written)
    <3>1. when[j] \in Int
      BY DEF TypeOK
    <3> QED
      BY <1>1, <2>1, <3>1, RetainSound
  <2>4. temp'[j] = Retain(loaded'[j], when'[j])
    BY <2>1, <2>2
  <2> QED
    BY <1>1, <2>2, <2>3, <2>4 DEF Carries, Asking, Saving, Recording, Ending
<1>8. CASE Replace(j)
  <2>1. temp'[j] = Absent
    BY <1>8 DEF TypeOK, Replace
  <2> QED
    BY <1>8, <2>1, ForgetCarries DEF Replace
<1>9. CASE SaveFails(j)
  <2>1. temp'[j] = Absent
    BY <1>9 DEF TypeOK, SaveFails
  <2> QED
    BY <1>9, <2>1, ForgetCarries DEF SaveFails
<1>10. CASE Killed(j)
  <2>1. temp'[j] = temp[j]
    BY <1>10 DEF Killed
  <2> QED
    BY <1>1, <1>10, <2>1, ForgetCarries DEF Killed
<1> QED
  BY <1>2, <1>3, <1>4, <1>5, <1>6, <1>7, <1>8, <1>9, <1>10 DEF JobNext

LEMMA InitHistory == Init => HistoryInv
<1> SUFFICES ASSUME Init PROVE HistoryInv
  OBVIOUS
<1>1. <<>> \in Seq(Entries) /\ Load = <<>> /\ store \notin {Torn} /\ NoTrend \in Trends
  BY EmptySeq, FileAssumption DEF Init, Load, Trends, FileAssumption
<1>2. made \in [Jobs -> Nat] /\ \A j \in Jobs : made[j] <= plan[j]
  <2>1. plan \in [Jobs -> 0..MaxRecords] /\ MaxRecords \in Nat
    BY HistoryAssumption DEF Init, HistoryAssumption
  <2>2. ASSUME NEW j \in Jobs PROVE 0 <= plan[j]
    <3>1. PICK p : p = plan[j]
      OBVIOUS
    <3>2. p \in 0..MaxRecords
      BY <2>1, <3>1
    <3> QED
      BY <2>1, <3>1, <3>2
  <2> QED
    BY <2>2 DEF Init
<1>3. TypeOK
  BY <1>1, <1>2 DEF Init, TypeOK
<1>4. Sound(<<>>, made, pc) /\ Limited(<<>>)
  BY EmptySound
<1>5. ASSUME NEW j \in Jobs PROVE Carries(j)
  BY <1>4 DEF Init, Carries, Asking, Saving, Recording
<1> QED
  BY <1>1, <1>3, <1>4, <1>5 DEF HistoryInv, StoreWhole

\* Only a rename writes the store, and what is renamed is complete.
LEMMA StoreStep ==
    ASSUME TypeOK, NEW j \in Jobs, JobNext(j)
    PROVE  store' = store \/ (store' = temp[j] /\ temp[j] \notin {Absent, Torn})
<1>1. CASE Replace(j)
  BY <1>1 DEF TypeOK, Replace
<1>2. CASE ~Replace(j)
  BY <1>2 DEF JobNext, ReadLatest, ReadRuns, ReadAndAppend, Prune, MakeTemp, WriteTemp, SaveFails, Killed
<1> QED
  BY <1>1, <1>2

LEMMA StepHistory == HistoryInv /\ [Next]_vars => HistoryInv'
<1> SUFFICES ASSUME HistoryInv, [Next]_vars PROVE HistoryInv'
  OBVIOUS
<1>1. CASE UNCHANGED vars
  BY <1>1 DEF HistoryInv, TypeOK, StoreWhole, Sound, Dated, Limited, Count, Named, Load, Carries, Recording, Ending, vars
<1>2. CASE Next
  <2>1. PICK j \in Jobs : JobNext(j) /\ UNCHANGED plan
    BY <1>2 DEF Next, Crew
  <2>2. TypeOK /\ Carries(j) /\ Sound(Load, made, pc) /\ Limited(Load) /\ StoreWhole
    BY DEF HistoryInv
  <2>3. TypeOK'
    BY <2>1, <2>2, TypesStep
  <2>4. Sound(Load, made', pc') /\ (temp[j] \notin {Absent, Torn} => Sound(temp[j], made', pc') /\ Limited(temp[j]))
    BY <2>1, <2>2, StepSound DEF Carries
  <2>5. StoreWhole' /\ Sound(Load', made', pc') /\ Limited(Load')
    <3>1. CASE store' = store
      <4>1. Load' = Load
        BY <3>1 DEF Load
      <4>2. Limited(Load')
        BY <2>2, <4>1 DEF Limited, Count, Named
      <4> QED
        BY <2>2, <2>4, <3>1, <4>1, <4>2 DEF StoreWhole
    <3>2. CASE store' = temp[j] /\ temp[j] \notin {Absent, Torn}
      <4>1. Load' = temp[j] /\ StoreWhole'
        BY <3>2 DEF Load, StoreWhole
      <4>2. Sound(temp[j], made', pc') /\ Limited(temp[j])
        BY <2>4, <3>2
      <4> QED
        BY <4>1, <4>2
    <3> QED
      BY <2>1, <2>2, <3>1, <3>2, StoreStep
  <2>6. ASSUME NEW k \in Jobs PROVE Carries(k)'
    <3>1. CASE k = j
      BY <2>1, <2>2, <3>1, OwnCarries
    <3>2. CASE k # j
      BY <2>1, <2>2, <3>2, OthersCarry DEF HistoryInv
    <3> QED
      BY <3>1, <3>2
  <2> QED
    BY <2>3, <2>5, <2>6 DEF HistoryInv
<1> QED
  BY <1>1, <1>2

LEMMA HistoryAlways == Spec => []HistoryInv
  BY InitHistory, StepHistory, PTL DEF Spec

\* However many jobs save over each other, are killed or fail to save, and whatever the
\* instants, the names and the limits: the file is complete, retention holds in it, and it
\* has the runs of a job in the order of recording, each at most once (resilience/history.py).
THEOREM StoreSoundAlways == Spec => []StoreSound
<1>1. HistoryInv => StoreSound
  <2> SUFFICES ASSUME HistoryInv PROVE StoreSound
    OBVIOUS
  <2>1. TypeOK /\ StoreWhole /\ Sound(Load, made, pc) /\ Limited(Load)
    BY DEF HistoryInv
  <2>2. Stored = Load
    BY <2>1 DEF Stored, StoreWhole
  <2>3. RetentionHolds /\ EntriesInOrder
    BY <2>1, <2>2 DEF RetentionHolds, EntriesInOrder, Limited, Sound, Ordered
  <2> QED
    BY <2>1, <2>3 DEF StoreSound
<1> QED
  BY <1>1, HistoryAlways, PTL

KeepsWhatItMust ==
    \A j \in Jobs : Saves(j) =>
        /\ NewestIsOwn(j)
        /\ \A i \in 1..Len(Load) : LossExplained(j, Load[i])

\* A save of any job leaves the run just recorded as the newest entry, and takes another
\* entry from the file only for its age, for the limit of its name or because the job read
\* the file before that entry was in it (record and _retain, resilience/history.py).
THEOREM SavesKeepAlways == Spec => SavesKeep
<1>1. ASSUME HistoryInv, NEW j \in Jobs, Saves(j)
      PROVE  NewestIsOwn(j) /\ \A i \in 1..Len(Load) : LossExplained(j, Load[i])
  <2>1. TypeOK /\ Carries(j) /\ pc[j] = "replace" /\ store' = temp[j]
    BY <1>1 DEF HistoryInv, Saves
  <2>2. PICK s, now, r : s = loaded[j] /\ now = when[j] /\ r = Retain(s, now)
    OBVIOUS
  <2>3. s \in Seq(Entries) /\ now \in Int /\ store' = r
    BY <2>1, <2>2 DEF TypeOK, Carries
  <2>4. NewestIsOwn(j)
    <3> SUFFICES ASSUME Recording(j) PROVE store' # <<>> /\ store'[Len(store')].id = <<j, made[j]>>
      BY DEF NewestIsOwn
    <3>1. s # <<>> /\ s[Len(s)].id = <<j, made[j]>> /\ s[Len(s)].time = now
      BY <2>1, <2>2 DEF Carries, Saving, Ending
    <3>2. now >= now - MaxAge
      BY <2>3, HistoryAssumption DEF HistoryAssumption
    <3>3. s[Len(s)].time >= now - MaxAge
      BY <3>1, <3>2
    <3>4. r # <<>> /\ r[Len(r)] = s[Len(s)]
      BY <2>2, <2>3, <3>1, <3>3, RetainEnds
    <3> QED
      BY <2>3, <3>1, <3>4
  <2>5. ASSUME NEW i \in 1..Len(Load) PROVE LossExplained(j, Load[i])
    <3>1. PICK e : e = Load[i]
      OBVIOUS
    <3>2. CASE Within(s, e)
      <4>1. Within(r, e) \/ TooOld(e, now) \/ Count(r, e.name) = MaxRuns
        BY <2>2, <2>3, <3>2, RetainLoses
      <4> QED
        BY <2>2, <2>3, <3>1, <4>1 DEF LossExplained, Within, Count, Named
    <3>3. CASE ~Within(s, e)
      BY <2>2, <3>1, <3>3 DEF LossExplained
    <3> QED
      BY <3>2, <3>3
  <2> QED
    BY <2>4, <2>5
<1>2. HistoryInv /\ [Next]_vars => KeepsWhatItMust
  BY <1>1 DEF KeepsWhatItMust
<1>3. [][KeepsWhatItMust]_vars <=> SavesKeep
  BY DEF KeepsWhatItMust, SavesKeep
<1> QED
  BY <1>2, <1>3, HistoryAlways, PTL DEF Spec

-----------------------------------------------------------------------------
(* The ledger: with one job the file is the list that the ledger keeps.     *)

\* The ledger instantiates FiniteSets too.
LEMMA OneCardinality ==
    ASSUME NEW S
    PROVE  Ledger!Cardinality(S) = Cardinality(S)
  BY DEF Ledger!Cardinality, Cardinality

\* The ledger's list of places is the enumeration of them.
LEMMA KeptIs ==
    ASSUME NEW s, NEW p, NEW K, NEW r, Part(s, p, K, r), DOMAIN r = 1..Len(r), r = [k \in DOMAIN r |-> r[k]]
    PROVE  r = Ledger!Kept(s, K)
<1>1. PICK l : l = Len(r)
  OBVIOUS
<1>2. Enumerates(p, l, K) /\ \A k \in 1..l : r[k] = s[p[k]]
  BY <1>1 DEF Part
<1>3. /\ l \in Nat /\ Places(K) /\ (\A k \in 1..l : p[k] \in K)
      /\ \A x \in K : \E k \in 1..l : p[k] = x
  BY <1>2, SameOrder
<1>4. l = Cardinality(K) /\ \A k \in 1..l : Rank(K, p[k]) = k
  BY <1>2, EnumerationRanks
<1>5. K \subseteq Nat
  BY <1>3, PlacesFinite
<1>6. ASSUME NEW x \in K PROVE Cardinality({j \in K : j < x}) = Rank(K, x) - 1
  <2>1. PICK B : B = {j \in K : j < x}
    OBVIOUS
  <2>2. {j \in K : j <= x} = B \cup {x} /\ x \notin B
    BY <1>5, <2>1
  <2>3. IsFiniteSet(B) /\ Cardinality(B) \in Nat
    <3>1. IsFiniteSet(B)
      BY <1>3, <2>1, PlacesFinite
    <3> QED
      BY <3>1, FS_CardinalityType
  <2>4. Cardinality(B \cup {x}) = Cardinality(B) + 1
    BY <2>2, <2>3, FS_AddElement
  <2>5. PICK a : a = Cardinality(B)
    OBVIOUS
  <2>6. Rank(K, x) = a + 1 /\ a \in Nat
    BY <2>2, <2>3, <2>4, <2>5 DEF Rank
  <2> QED
    BY <2>1, <2>5, <2>6
<1> DEFINE Place(k) == CHOOSE i \in K : Ledger!Cardinality({j \in K : j < i}) = k - 1
<1>7. ASSUME NEW k \in 1..l PROVE Place(k) = p[k]
  <2>1. p[k] \in K /\ Ledger!Cardinality({j \in K : j < p[k]}) = k - 1
    BY <1>3, <1>4, <1>6, OneCardinality
  <2>2. ASSUME NEW i \in K, Ledger!Cardinality({j \in K : j < i}) = k - 1 PROVE i = p[k]
    <3>1. PICK h \in 1..l : p[h] = i
      BY <1>3
    <3>2. h - 1 = k - 1
      BY <1>4, <1>6, <2>2, <3>1, OneCardinality
    <3> QED
      BY <1>3, <3>1, <3>2
  <2> QED
    BY <2>1, <2>2
<1>8. Ledger!Cardinality(K) = l
  BY <1>4, OneCardinality
<1>9. Ledger!Kept(s, K) = [k \in 1..Ledger!Cardinality(K) |-> s[Place(k)]]
  BY DEF Ledger!Kept
<1> HIDE DEF Place
<1>10. Ledger!Kept(s, K) = [k \in 1..l |-> s[p[k]]]
  BY <1>7, <1>8, <1>9
<1> QED
  BY <1>1, <1>2, <1>10

LEMMA RetainIsRetained ==
    ASSUME NEW s \in Seq(Entries), NEW now \in Int
    PROVE  Retain(s, now) = Ledger!Retained(s, now)
<1>1. PICK r, K : r = Retain(s, now) /\ K = Lasting(s, now)
  OBVIOUS
<1>2. r \in Seq(Entries) /\ DOMAIN r = 1..Len(r) /\ \E p : Part(s, p, K, r)
  BY <1>1, RetainIs
<1>3. r = [k \in DOMAIN r |-> r[k]]
  BY <1>2
<1>4. r = Ledger!Kept(s, K)
  BY <1>2, <1>3, KeptIs
<1>5. PICK Y : Y = Young(s, now)
  OBVIOUS
<1>6. Y = Ledger!Young(s, now) /\ DOMAIN s = 1..Len(s) /\ Len(s) \in Nat
  BY <1>5, LenProperties DEF Young, Ledger!Young
<1>7. ASSUME NEW i \in Y
      PROVE  Cardinality(Later(s, now, i)) = Cardinality({j \in Y : j > i /\ s[j].name = s[i].name}) + 1
  <2>1. PICK B : B = {j \in Y : j > i /\ s[j].name = s[i].name}
    OBVIOUS
  <2>2. Later(s, now, i) = B \cup {i} /\ i \notin B
    <3>1. \A j \in Y : j \in Int
      BY <1>5, <1>6 DEF Young
    <3> QED
      BY <1>5, <1>7, <2>1, <3>1 DEF Later
  <2>3. IsFiniteSet(B)
    <3>1. Places(Y)
      BY <1>5, <1>6 DEF Young, Places
    <3> QED
      BY <2>1, <3>1, PlacesFinite
  <2> QED
    BY <2>1, <2>2, <2>3, FS_AddElement
<1>8. ASSUME NEW i \in Y
      PROVE  Cardinality(Later(s, now, i)) <= MaxRuns
             <=> Cardinality({j \in Y : j > i /\ s[j].name = s[i].name}) < MaxRuns
  <2>1. PICK a, b : a = Cardinality(Later(s, now, i)) /\ b = Cardinality({j \in Y : j > i /\ s[j].name = s[i].name})
    OBVIOUS
  <2>2. a = b + 1
    BY <1>7, <2>1
  <2>3. b \in Nat
    <3>1. Places(Y)
      BY <1>5, <1>6 DEF Young, Places
    <3> QED
      BY <2>1, <3>1, PlacesFinite
  <2>4. MaxRuns \in Nat
    BY HistoryAssumption DEF HistoryAssumption
  <2> QED
    BY <2>1, <2>2, <2>3, <2>4
<1>9. K = Ledger!Stays(s, now)
  <2>1. K = {i \in Y : Cardinality(Later(s, now, i)) <= MaxRuns}
    BY <1>1, <1>5 DEF Lasting
  <2>2. Ledger!Stays(s, now) = {i \in Y : Cardinality({j \in Y : j > i /\ s[j].name = s[i].name}) < MaxRuns}
    BY <1>6, OneCardinality DEF Ledger!Stays
  <2> QED
    BY <1>8, <2>1, <2>2
<1> QED
  BY <1>1, <1>4, <1>9 DEF Ledger!Retained

LEMMA TrendIs ==
    ASSUME TypeOK, Readable, NEW name, NEW score, NEW scored, scored = Scored(name),
           NEW latest, latest = scored[Len(scored)]
    PROVE  /\ scored = <<>> => Ledger!TrendAgainst(Load, name, score) = NoTrend
           /\ scored # <<>> =>
                Ledger!TrendAgainst(Load, name, score) =
                   [previous |-> latest.score, delta |-> Delta(score, latest.score), runs |-> Cardinality(Named(Load, name))]
           /\ Len(EntriesOf(name)) = Cardinality(Named(Load, name))
<1>1. PICK s, N : s = Load /\ N = Named(s, name)
  OBVIOUS
<1>2. s \in Seq(Entries) /\ DOMAIN s = 1..Len(s) /\ Len(s) \in Nat
  BY <1>1, LoadIs, LenProperties
<1>3. N = {i \in 1..Len(s) : s[i].name = name}
  BY <1>1, <1>2 DEF Named
<1>4. PICK named, p : named = EntriesOf(name) /\ p = InOrder(N)
  OBVIOUS
<1>5. /\ named \in Seq(Entries) /\ DOMAIN named = 1..Len(named) /\ Len(named) \in Nat /\ Len(named) = Cardinality(N)
      /\ Part(s, p, N, named)
  <2>1. named = At(s, N) /\ N \subseteq DOMAIN s
    BY <1>1, <1>2, <1>3, <1>4 DEF EntriesOf
  <2> QED
    BY <1>2, <1>4, <2>1, AtIs
<1>6. PICK K : K = {i \in DOMAIN named : named[i].score # NoScore}
  OBVIOUS
<1>7. PICK q : q = InOrder(K)
  OBVIOUS
<1>8. scored \in Seq(Entries) /\ Len(scored) \in Nat /\ Part(named, q, K, scored)
  <2>1. scored = At(named, K) /\ K \subseteq DOMAIN named
    BY <1>4, <1>6 DEF Scored
  <2> QED
    BY <1>5, <1>7, <2>1, AtIs
<1>9. PICK Z : Z = {i \in 1..Len(s) : s[i].name = name /\ s[i].score # NoScore}
  OBVIOUS
<1>10. Matches(p, Len(named), N, K, Z)
  <2>1. \A k \in 1..Len(named) : p[k] \in N /\ named[k] = s[p[k]]
    BY <1>5, SameOrder DEF Part
  <2>2. Z \subseteq N /\ \A i \in N : i \in Z <=> s[i].score # NoScore
    BY <1>3, <1>9
  <2> QED
    BY <1>5, <1>6, <2>1, <2>2 DEF Matches
<1>11. PICK f : Part(s, f, Z, scored)
  BY <1>5, <1>8, <1>10, PartOfPart
<1>12. PICK l : l = Len(scored)
  OBVIOUS
<1>13. /\ l \in Nat /\ (\A k \in 1..l : f[k] \in Z /\ f[k] \in Nat /\ scored[k] = s[f[k]])
       /\ (\A i, k \in 1..l : i <= k <=> f[i] <= f[k]) /\ \A x \in Z : \E k \in 1..l : f[k] = x
  BY <1>11, <1>12, SameOrder DEF Part
<1>14. ASSUME scored = <<>> PROVE Ledger!TrendAgainst(s, name, score) = NoTrend
  <2>1. l = 0
    BY <1>12, <1>14, EmptySeq
  <2>2. Z = {}
    BY <1>13, <2>1
  <2> QED
    BY <1>9, <2>2 DEF Ledger!TrendAgainst
<1>15. ASSUME scored # <<>>
       PROVE  Ledger!TrendAgainst(s, name, score) =
                [previous |-> latest.score, delta |-> Delta(score, latest.score), runs |-> Cardinality(N)]
  <2>1. l \in 1..l
    BY <1>8, <1>12, <1>13, <1>15, EmptySeq
  <2>2. f[l] \in Z /\ latest = s[f[l]] /\ \A x \in Z : x <= f[l]
    <3>1. ASSUME NEW x \in Z PROVE x <= f[l]
      <4>1. PICK k \in 1..l : f[k] = x
        BY <1>13
      <4>2. k <= l
        BY <1>13
      <4> QED
        BY <1>13, <2>1, <4>1, <4>2
    <3> QED
      BY <1>12, <1>13, <2>1, <3>1
  <2> DEFINE Last == CHOOSE i \in Z : \A j \in Z : j <= i
  <2>3. Last = f[l]
    <3>1. ASSUME NEW i \in Z, \A j \in Z : j <= i PROVE i = f[l]
      <4>1. i <= f[l] /\ f[l] <= i
        BY <2>2, <3>1
      <4>2. i \in Nat /\ f[l] \in Nat
        BY <1>9, <2>2
      <4> QED
        BY <4>1, <4>2
    <3> QED
      BY <2>2, <3>1
  <2>4. Z # {}
    BY <2>2
  <2>5. Ledger!TrendAgainst(s, name, score) =
          [previous |-> s[Last].score, delta |-> IF score = NoScore THEN NoScore ELSE score - s[Last].score,
           runs |-> Ledger!Cardinality(N)]
    BY <1>3, <1>9, <2>4 DEF Ledger!TrendAgainst
  <2> HIDE DEF Last
  <2>6. Ledger!Cardinality(N) = Cardinality(N) /\ s[Last] = latest
    BY <2>2, <2>3, OneCardinality
  <2> QED
    BY <2>5, <2>6 DEF Delta
<1> QED
  BY <1>1, <1>4, <1>5, <1>14, <1>15

-----------------------------------------------------------------------------
(* What the only job knows: the file is as it was at each of its readings.  *)

Entry(j) == [id |-> <<j, made[j]>>, name |-> run[j].name, score |-> run[j].score, time |-> when[j]]
TrendNow(j) == Ledger!TrendAgainst(Load, run[j].name, run[j].score)
Follows(j) ==
    /\ pc[j] = "idle" => trend[j] = NoTrend
    /\ pc[j] = "runs" => [trend[j] EXCEPT !.runs = Cardinality(Named(Load, run[j].name))] = TrendNow(j)
    /\ pc[j] = "append" => trend[j] = TrendNow(j)
    /\ pc[j] \in Saving =>
          /\ when[j] \in Times
          /\ Recording(j) => trend[j] = TrendNow(j) /\ loaded[j] = Append(Load, Entry(j))
          /\ ~Recording(j) => loaded[j] = Load

AloneInv == Alone => \A j \in Crew : Follows(j)
LEMMA OwnFollows ==
    ASSUME TypeOK, NEW j \in Jobs, Carries(j), JobNext(j), Follows(j)
    PROVE  Follows(j)'
<1>1. CASE ReadLatest(j)
  <2>1. Readable /\ Load' = Load /\ pc[j] = "idle" /\ trend[j] = NoTrend
    BY <1>1 DEF ReadLatest, Load, Follows
  <2>2. PICK name \in Names, score \in Scores \cup {NoScore} :
          /\ run' = [run EXCEPT ![j] = [name |-> name, score |-> score]]
          /\ \/ Scored(name) = <<>> /\ Goto(j, "append") /\ UNCHANGED trend
             \/ /\ Scored(name) # <<>> /\ Goto(j, "runs")
                /\ trend' = [trend EXCEPT ![j] =
                               [previous |-> Scored(name)[Len(Scored(name))].score,
                                delta    |-> Delta(score, Scored(name)[Len(Scored(name))].score),
                                runs     |-> 0]]
    BY <1>1 DEF ReadLatest
  <2>3. PICK t : t = Ledger!TrendAgainst(Load, name, score)
    OBVIOUS
  <2>4. TrendNow(j)' = t /\ run'[j].name = name
    BY <2>1, <2>2, <2>3 DEF TrendNow, TypeOK
  <2>5. PICK scored, p : scored = Scored(name) /\ p = scored[Len(scored)].score
    OBVIOUS
  <2>6. CASE scored = <<>>
    <3>1. pc'[j] = "append" /\ trend'[j] = NoTrend
      BY <2>1, <2>2, <2>5, <2>6 DEF TypeOK, Goto
    <3>2. t = NoTrend
      BY <2>1, <2>3, <2>5, <2>6, TrendIs
    <3> QED
      BY <2>4, <3>1, <3>2 DEF Follows, Saving
  <2>7. CASE scored # <<>>
    <3>1. pc'[j] = "runs" /\ trend'[j] = [previous |-> p, delta |-> Delta(score, p), runs |-> 0]
      BY <2>2, <2>5, <2>7 DEF TypeOK, Goto
    <3>2. t = [previous |-> p, delta |-> Delta(score, p), runs |-> Cardinality(Named(Load, name))]
      BY <2>1, <2>3, <2>5, <2>7, TrendIs
    <3>3. PICK n : n = Cardinality(Named(Load, name))
      OBVIOUS
    <3>4. [trend'[j] EXCEPT !.runs = n] = t
      BY <3>1, <3>2, <3>3
    <3>5. Named(Load', run'[j].name) = Named(Load, name)
      BY <2>1, <2>4
    <3> QED
      BY <2>4, <3>1, <3>3, <3>4, <3>5 DEF Follows, Saving
  <2> QED
    BY <2>6, <2>7
<1>2. CASE ReadRuns(j)
  <2>1. Readable /\ Load' = Load /\ pc[j] = "runs" /\ pc'[j] = "append" /\ UNCHANGED run
    BY <1>2 DEF ReadRuns, Load, TypeOK, Goto
  <2>2. PICK n : n = Len(EntriesOf(run[j].name))
    OBVIOUS
  <2>3. n = Cardinality(Named(Load, run[j].name))
    BY <2>1, <2>2, TrendIs
  <2>4. trend'[j] = [trend[j] EXCEPT !.runs = n]
    BY <1>2, <2>2 DEF ReadRuns, TypeOK
  <2>5. [trend[j] EXCEPT !.runs = n] = TrendNow(j)
    BY <2>1, <2>3 DEF Follows
  <2>6. TrendNow(j)' = TrendNow(j)
    BY <2>1 DEF TrendNow
  <2> QED
    BY <2>1, <2>4, <2>5, <2>6 DEF Follows, Saving
<1>3. CASE ReadAndAppend(j)
  <2>1. Load' = Load /\ pc[j] = "append" /\ pc'[j] = "save" /\ UNCHANGED <<run, trend, made>> /\ Recording(j)
    BY <1>3 DEF ReadAndAppend, Load, TypeOK, Goto, Carries, Asking
  <2>2. PICK now \in Times :
          /\ when' = [when EXCEPT ![j] = now]
          /\ loaded' = [loaded EXCEPT ![j] =
               Append(Load, [id |-> <<j, made[j]>>, name |-> run[j].name, score |-> run[j].score, time |-> now])]
    BY <1>3 DEF ReadAndAppend
  <2>3. when'[j] = now
    BY <2>2 DEF TypeOK
  <2>4. loaded'[j] = Append(Load, Entry(j)')
    BY <2>1, <2>2, <2>3 DEF TypeOK, Entry
  <2>5. trend'[j] = TrendNow(j)'
    BY <2>1 DEF Follows, TrendNow
  <2> QED
    BY <2>1, <2>3, <2>4, <2>5 DEF Follows, Saving, Recording
<1>4. CASE Prune(j)
  <2>1. Load' = Load /\ pc'[j] = "save" /\ loaded'[j] = Load /\ UNCHANGED run /\ ~Recording(j) /\ when'[j] \in Times
    BY <1>4 DEF Prune, Load, TypeOK, Goto, Carries
  <2> QED
    BY <2>1 DEF Follows, Saving, Recording
<1>5. CASE MakeTemp(j) \/ WriteTemp(j)
  <2>1. /\ Load' = Load /\ pc[j] \in Saving /\ pc'[j] \in {"write", "replace"}
        /\ UNCHANGED <<run, trend, loaded, when, made>>
    BY <1>5 DEF MakeTemp, WriteTemp, Load, TypeOK, Goto, Saving
  <2>2. TrendNow(j)' = TrendNow(j) /\ Entry(j)' = Entry(j) /\ (Recording(j)' <=> Recording(j))
    BY <2>1 DEF TrendNow, Entry, Recording
  <2> QED
    BY <2>1, <2>2 DEF Follows, Saving
<1>6. CASE Replace(j) \/ SaveFails(j) \/ Killed(j)
  <2>1. pc'[j] = "idle" /\ trend'[j] = NoTrend
    BY <1>6 DEF Replace, SaveFails, Killed, Forget, Goto, TypeOK
  <2> QED
    BY <2>1 DEF Follows, Saving
<1> QED
  BY <1>1, <1>2, <1>3, <1>4, <1>5, <1>6 DEF JobNext

LEMMA AloneCrew ==
    ASSUME Alone, NEW j \in Crew
    PROVE  Crew = {j}
<1>1. IsFiniteSet(Crew)
  <2>1. IsFiniteSet(Jobs) /\ Crew \subseteq Jobs
    BY HistoryAssumption DEF HistoryAssumption, Crew
  <2> QED
    BY <2>1, FS_Subset
<1>2. PICK k : Crew = {k}
  BY <1>1, FS_Singleton DEF Alone
<1> QED
  BY <1>2

LEMMA AloneStep == HistoryInv /\ AloneInv /\ [Next]_vars => AloneInv'
<1> SUFFICES ASSUME HistoryInv, AloneInv, [Next]_vars, Alone' PROVE \A j \in Crew' : Follows(j)'
  BY DEF AloneInv
<1>1. CASE UNCHANGED vars
  BY <1>1 DEF AloneInv, Alone, Crew, Follows, Recording, TrendNow, Entry, Load, vars
<1>2. CASE Next
  <2>1. PICK j \in Crew : JobNext(j) /\ UNCHANGED plan
    BY <1>2 DEF Next
  <2>2. Crew' = Crew /\ Alone /\ j \in Jobs
    BY <2>1 DEF Crew, Alone
  <2>3. Crew = {j}
    BY <2>1, <2>2, AloneCrew
  <2>4. Follows(j)'
    BY <2>1, <2>2, OwnFollows DEF HistoryInv, AloneInv
  <2> QED
    BY <2>2, <2>3, <2>4
<1> QED
  BY <1>1, <1>2

LEMMA LedgerStep ==
    ASSUME HistoryInv, AloneInv, [Next]_vars
    PROVE  [Ledger!LedgerNext]_(Ledger!ledgerVars)
<1> DEFINE kept == IF Alone THEN Stored ELSE <<>>
           said == IF Alone THEN told ELSE NoTrend
<1>1. Alone' = Alone
  BY DEF Next, Alone, Crew, vars
<1>2. CASE UNCHANGED vars
  BY <1>1, <1>2 DEF vars, Stored, Load, Ledger!ledgerVars
<1>3. CASE ~Alone
  BY <1>1, <1>3 DEF Ledger!ledgerVars
<1>4. CASE Alone /\ Next
  <2>1. PICK j \in Crew : JobNext(j) /\ UNCHANGED plan
    BY <1>4 DEF Next
  <2>2. TypeOK /\ StoreWhole /\ Carries(j) /\ Follows(j) /\ j \in Jobs
    BY <1>4, <2>1 DEF HistoryInv, AloneInv, Crew
  <2>3. kept = Load /\ kept' = Stored' /\ said = told /\ said' = told'
    BY <1>1, <1>4, <2>2 DEF StoreWhole, Stored
  <2>4. CASE Replace(j)
    <3>1. /\ pc[j] = "replace" /\ store' = temp[j] /\ temp[j] \notin {Absent, Torn}
          /\ told' = IF Recording(j) THEN trend[j] ELSE told
      BY <2>2, <2>4 DEF Replace, TypeOK
    <3>2. PICK s, now : s = loaded[j] /\ now = when[j]
      OBVIOUS
    <3>3. s \in Seq(Entries) /\ now \in Int /\ now \in Times /\ temp[j] = Retain(s, now)
      BY <2>2, <3>1, <3>2 DEF TypeOK, Carries, Follows, Saving
    <3>4. Stored' = Ledger!Retained(s, now) /\ Stored' = Retain(s, now)
      BY <3>1, <3>3, RetainIsRetained DEF Stored, Load
    <3>5. CASE Recording(j)
      <4>1. PICK e : e = Entry(j)
        OBVIOUS
      <4>2. /\ trend[j] = Ledger!TrendAgainst(Load, e.name, e.score) /\ s = Append(Load, e) /\ e.time = now
        BY <2>2, <3>1, <3>2, <3>5, <4>1 DEF Follows, Saving, TrendNow, Entry
      <4>3. e \in Entries /\ s # <<>> /\ s[Len(s)] = e
        <5>1. Load \in Seq(Entries)
          BY <2>2, LoadIs DEF StoreWhole, Readable
        <5>2. e \in Entries
          <6>1. s[Len(Load) + 1] = e /\ Len(Load) + 1 \in 1..Len(s)
            BY <3>3, <4>2, <5>1, LenProperties
          <6> QED
            BY <3>3, <6>1, ElementOfSeq
        <5> QED
          BY <4>2, <5>1, <5>2, AppendProperties
      <4>4. Stored' # <<>> /\ Stored'[Len(Stored')] = e
        <5>1. now >= now - MaxAge
          BY <3>3, HistoryAssumption DEF HistoryAssumption
        <5>2. s[Len(s)].time >= now - MaxAge
          BY <4>2, <4>3, <5>1
        <5> QED
          BY <3>3, <3>4, <4>3, <5>2, RetainEnds
      <4>5. Ledger!Enter(e)
        BY <2>3, <3>1, <3>4, <3>5, <4>2, <4>4 DEF Ledger!Enter
      <4>6. e \in Ledger!Entries
        BY <4>3 DEF Entries, Ledger!Entries
      <4> QED
        BY <4>5, <4>6 DEF Ledger!LedgerNext
    <3>6. CASE ~Recording(j)
      <4>1. s = Load /\ told' = told
        BY <2>2, <3>1, <3>2, <3>6 DEF Follows, Saving
      <4>2. Ledger!Trim(now)
        BY <2>3, <3>4, <4>1 DEF Ledger!Trim
      <4> QED
        BY <3>3, <4>2 DEF Ledger!LedgerNext
    <3> QED
      BY <3>5, <3>6
  <2>5. CASE ~Replace(j)
    <3>1. store' = store /\ told' = told
      BY <2>1, <2>5 DEF JobNext, ReadLatest, ReadRuns, ReadAndAppend, Prune, MakeTemp, WriteTemp, SaveFails, Killed
    <3>2. Stored' = Stored
      BY <3>1 DEF Stored, Load
    <3> QED
      BY <1>1, <3>1, <3>2 DEF Ledger!ledgerVars
  <2> QED
    BY <2>4, <2>5
<1> QED
  BY <1>2, <1>3, <1>4

\* What one job does to the file in three readings and a rename, killed or failing where it
\* may, is what the ledger does in one step: a run entered with the trend against the runs
\* before it, or a list trimmed (record, trend, prune and _save, resilience/history.py).
THEOREM LedgerImplemented == Spec => ImplementsLedger
<1>1. Init => AloneInv
  BY DEF Init, AloneInv, Follows, Saving, Crew
<1>2. Init => Ledger!LedgerInit
  BY FileAssumption DEF Init, Ledger!LedgerInit, Stored, Load, FileAssumption
<1>3. HistoryInv /\ AloneInv /\ [Next]_vars => AloneInv'
  BY AloneStep
<1>4. HistoryInv /\ AloneInv /\ [Next]_vars => [Ledger!LedgerNext]_(Ledger!ledgerVars)
  BY LedgerStep
<1> QED
  BY <1>1, <1>2, <1>3, <1>4, HistoryAlways, PTL DEF Spec, ImplementsLedger, Ledger!LedgerSpec
=============================================================================
