--------------------------- MODULE PetGraphProofs ---------------------------
(***************************************************************************)
(* What removal does to the numbers of module PetGraph: elements keep      *)
(* their order when others are dropped, and removal by swapping, done from *)
(* the last place to the first, removes what it is told to and nothing     *)
(* else.                                                                   *)
(***************************************************************************)
EXTENDS PetGraph, Sums

-----------------------------------------------------------------------------
(* Dropping. *)

LEMMA RanksDiffer ==
    ASSUME NEW n \in Nat, NEW T \in SUBSET (1 .. n), NEW i \in T, NEW j \in T, i < j
    PROVE  Rank(T, i) < Rank(T, j)
  <1> DEFINE L == {x \in T : x <= i}
             M == {x \in T : x <= j}
  <1>1. IsFiniteSet(T)
    <2>1. IsFiniteSet(1 .. n)
      BY PlacesFinite
    <2> QED BY <2>1, FS_Subset
  <1>0. \A x \in T : x \in Int
    OBVIOUS
  <1>2. L \in SUBSET M /\ M \in SUBSET T /\ j \in M /\ j \notin L
    <2>1. L \in SUBSET M
      <3>1. \A x \in T : x <= i => x <= j
        BY <1>0
      <3> QED BY <3>1
    <2>2. M \in SUBSET T /\ j \in M
      BY <1>0
    <2>3. j \notin L
      BY <1>0
    <2> QED BY <2>1, <2>2, <2>3
  <1> HIDE DEF L, M
  <1>3. IsFiniteSet(M) /\ IsFiniteSet(L)
    BY <1>1, <1>2, FS_Subset
  <1>4. Cardinality(L) <= Cardinality(M) /\ (Cardinality(M) = Cardinality(L) => M = L)
    BY <1>2, <1>3, FS_Subset
  <1>5. Cardinality(L) \in Nat /\ Cardinality(M) \in Nat
    BY <1>3, FS_CardinalityType
  <1>6. Cardinality(L) < Cardinality(M)
    BY <1>2, <1>4, <1>5
  <1> QED BY <1>6 DEF Rank, L, M

\* Ranks number the members of a set of places.
LEMMA RanksNumber ==
    ASSUME NEW n \in Nat, NEW T \in SUBSET (1 .. n)
    PROVE  /\ Cardinality(T) \in Nat /\ Cardinality(T) <= n
           /\ \A i \in T : Rank(T, i) \in 1 .. Cardinality(T)
           /\ \A i, j \in T : Rank(T, i) = Rank(T, j) => i = j
           /\ \A k \in 1 .. Cardinality(T) : \E i \in T : Rank(T, i) = k
  <1> DEFINE c == Cardinality(T)
             rank == [i \in T |-> Rank(T, i)]
             D == 1 .. c
  <1>1. IsFiniteSet(T) /\ Cardinality(T) <= n
    <2> DEFINE U == 1 .. n
    <2>1. IsFiniteSet(U) /\ Cardinality(U) = n
      BY FS_Interval
    <2> HIDE DEF U
    <2>2. T \in SUBSET U
      BY DEF U
    <2> QED BY <2>1, <2>2, FS_Subset
  <1>2. c \in Nat
    BY <1>1, FS_CardinalityType
  <1>3. IsFiniteSet(D) /\ Cardinality(D) = c
    BY <1>2, FS_Interval
  <1>4. ASSUME NEW i \in T PROVE Rank(T, i) \in 1 .. c
    <2> DEFINE L == {x \in T : x <= i}
    <2>1. L \in SUBSET T /\ i \in L
      OBVIOUS
    <2> HIDE DEF L
    <2>2. IsFiniteSet(L) /\ Cardinality(L) <= c
      BY <1>1, <2>1, FS_Subset
    <2>3. Cardinality(L) \in Nat /\ Cardinality(L) # 0
      BY <2>1, <2>2, FS_CardinalityType, FS_EmptySet
    <2>4. Cardinality(L) \in 1 .. c
      BY <1>2, <2>2, <2>3
    <2> QED BY <2>4 DEF Rank, L
  <1>5. ASSUME NEW i \in T, NEW j \in T, Rank(T, i) = Rank(T, j) PROVE i = j
    <2>1. i \in Int /\ j \in Int
      OBVIOUS
    <2>2. Rank(T, i) \in Int
      BY <1>4
    <2>3. ~(i < j)
      <3>1. i < j => Rank(T, i) < Rank(T, j)
        BY RanksDiffer
      <3> QED BY <1>5, <2>2, <3>1
    <2>4. ~(j < i)
      <3>1. j < i => Rank(T, j) < Rank(T, i)
        BY RanksDiffer
      <3> QED BY <1>5, <2>2, <3>1
    <2> QED BY <2>1, <2>3, <2>4
  <1>6. rank \in Injection(T, D)
    <2>1. rank \in [T -> D]
      BY <1>4
    <2>2. \A i, j \in T : rank[i] = rank[j] => i = j
      BY <1>5
    <2> HIDE DEF rank, D
    <2> QED BY <2>1, <2>2 DEF Injection, IsInjective
  <1>7. rank \in Surjection(T, D)
    <2> HIDE DEF rank, D
    <2> QED BY <1>1, <1>3, <1>6, FS_Injection
  <1>8. \A k \in 1 .. c : \E i \in T : Rank(T, i) = k
    BY <1>7 DEF Surjection
  <1> QED BY <1>1, <1>2, <1>4, <1>5, <1>8

\* What is kept are the elements at those places, at the rank each has among them.
LEMMA KeptIs ==
    ASSUME NEW S, NEW s \in Seq(S), NEW T \in SUBSET Places(s)
    PROVE  /\ Kept(s, T) \in Seq(S) /\ Len(Kept(s, T)) = Cardinality(T)
           /\ Cardinality(T) \in Nat
           /\ \A i \in T : Rank(T, i) \in Places(Kept(s, T)) /\ Kept(s, T)[Rank(T, i)] = s[i]
           /\ \A k \in Places(Kept(s, T)) : \E i \in T : Rank(T, i) = k /\ Kept(s, T)[k] = s[i]
           /\ \A i, j \in T : Rank(T, i) = Rank(T, j) => i = j
  <1> DEFINE c == Cardinality(T)
             At(k) == CHOOSE i \in T : Rank(T, i) = k
  <1>1. Len(s) \in Nat /\ DOMAIN s = 1 .. Len(s) /\ T \in SUBSET (1 .. Len(s))
    BY DEF Places
  <1>2. /\ c \in Nat
        /\ \A i \in T : Rank(T, i) \in 1 .. c
        /\ \A i, j \in T : Rank(T, i) = Rank(T, j) => i = j
        /\ \A k \in 1 .. c : \E i \in T : Rank(T, i) = k
    BY <1>1, RanksNumber
  <1>3. \A k \in 1 .. c : At(k) \in T /\ Rank(T, At(k)) = k
    BY <1>2
  <1>4. Kept(s, T) = [k \in 1 .. c |-> s[At(k)]]
    BY DEF Kept
  <1> HIDE DEF c, At
  <1>5. \A k \in 1 .. c : s[At(k)] \in S
    <2>1. \A x \in 1 .. Len(s) : s[x] \in S
      OBVIOUS
    <2>2. \A x \in T : s[x] \in S
      BY <1>1, <2>1
    <2> QED BY <1>3, <2>2
  <1>6. Kept(s, T) \in Seq(S) /\ Len(Kept(s, T)) = c
    BY <1>2, <1>4, <1>5
  <1>7. \A i \in T : At(Rank(T, i)) = i
    BY <1>2, <1>3
  <1>8. \A i \in T : Kept(s, T)[Rank(T, i)] = s[i]
    BY <1>2, <1>4, <1>7
  <1> QED BY <1>2, <1>3, <1>4, <1>6, <1>8 DEF Places, c

LEMMA KeptAll ==
    ASSUME NEW S, NEW s \in Seq(S)
    PROVE  Len(Kept(s, Places(s))) = Len(s)
  <1>1. Len(s) \in Nat
    OBVIOUS
  <1>2. Cardinality(1 .. Len(s)) = Len(s)
    BY SMTT(30), <1>1, FS_Interval
  <1>3. Places(s) \in SUBSET Places(s)
    OBVIOUS
  <1>4. Len(Kept(s, Places(s))) = Cardinality(Places(s))
    BY <1>3, KeptIs
  <1> QED BY <1>2, <1>4 DEF Places

-----------------------------------------------------------------------------
(* Swapping out. *)

\* t is s without the places gone: pi says where each element was, and the places
\* before i are as they were.
Shrunk(s, t, gone, i, pi) ==
    /\ pi \in [Places(t) -> Places(s) \ gone]
    /\ \A x, y \in Places(t) : pi[x] = pi[y] => x = y
    /\ \A p \in Places(s) \ gone : \E k \in Places(t) : pi[k] = p
    /\ \A k \in Places(t) : t[k] = s[pi[k]]
    /\ \A k \in 1 .. i - 1 : k \in Places(t) /\ pi[k] = k

Filled(pi, i, n) == [k \in 1 .. n - 1 |-> IF k = i THEN pi[n] ELSE pi[k]]

LEMMA SwapRemoveIs ==
    ASSUME NEW S, NEW t \in Seq(S), NEW i \in Nat
    PROVE  /\ SwapRemove(t, i) \in Seq(S)
           /\ Len(t) # 0 => Len(SwapRemove(t, i)) = Len(t) - 1
           /\ \A k \in 1 .. Len(t) - 1 :
                 SwapRemove(t, i)[k] = IF k = i THEN t[Len(t)] ELSE t[k]
  <1>1. Len(t) \in Nat /\ \A k \in 1 .. Len(t) : t[k] \in S
    OBVIOUS
  <1>2. CASE Len(t) = 0
    <2>1. 1 .. Len(t) - 1 = 1 .. 0 /\ 1 .. 0 = {}
      BY <1>2
    <2>2. SwapRemove(t, i) \in [1 .. 0 -> S]
      BY <2>1 DEF SwapRemove
    <2>3. SwapRemove(t, i) \in Seq(S)
      BY <2>2
    <2> QED BY <1>2, <2>1, <2>3
  <1>3. CASE Len(t) # 0
    <2>1. Len(t) - 1 \in Nat /\ Len(t) \in 1 .. Len(t)
      BY <1>1, <1>3
    <2>2. SwapRemove(t, i) \in [1 .. Len(t) - 1 -> S]
      BY <1>1, <2>1 DEF SwapRemove
    <2>3. SwapRemove(t, i) \in Seq(S) /\ Len(SwapRemove(t, i)) = Len(t) - 1
      BY <2>1, <2>2
    <2> QED BY <2>3 DEF SwapRemove
  <1> QED BY <1>2, <1>3

LEMMA ShrinkStart ==
    ASSUME NEW S, NEW s \in Seq(S)
    PROVE  Shrunk(s, s, {}, Len(s) + 1, [k \in Places(s) |-> k])
  <1>1. Len(s) \in Nat
    OBVIOUS
  <1> QED BY <1>1 DEF Shrunk, Places

LEMMA ShrinkPast ==
    ASSUME NEW S, NEW s \in Seq(S), NEW t, NEW gone, NEW i \in Places(s), NEW pi,
           Shrunk(s, t, gone, i + 1, pi)
    PROVE  Shrunk(s, t, gone, i, pi)
  <1>1. i \in Nat /\ 1 .. i - 1 \subseteq 1 .. (i + 1) - 1
    BY DEF Places
  <1> QED BY <1>1 DEF Shrunk

LEMMA ShrinkAt ==
    ASSUME NEW S, NEW s \in Seq(S), NEW t \in Seq(S), NEW gone, NEW i \in Places(s), NEW pi,
           Shrunk(s, t, gone, i + 1, pi)
    PROVE  /\ i \in Places(t) /\ pi[i] = i
           /\ Shrunk(s, SwapRemove(t, i), gone \cup {i}, i, Filled(pi, i, Len(t)))
  <1> DEFINE n == Len(t)
             u == SwapRemove(t, i)
             rho == Filled(pi, i, n)
  <1>1. Len(s) \in Nat /\ n \in Nat /\ i \in 1 .. Len(s) /\ i \in 1 .. (i + 1) - 1
    BY DEF Places
  <1>2. /\ pi \in [1 .. n -> Places(s) \ gone]
        /\ \A x, y \in 1 .. n : pi[x] = pi[y] => x = y
        /\ \A p \in Places(s) \ gone : \E k \in 1 .. n : pi[k] = p
        /\ \A k \in 1 .. n : t[k] = s[pi[k]]
        /\ \A k \in 1 .. i : k \in 1 .. n /\ pi[k] = k
    BY <1>1 DEF Shrunk, Places
  <1>3. i \in 1 .. n /\ pi[i] = i
    BY <1>1, <1>2
  <1>4. n # 0 /\ n \in 1 .. n /\ 1 .. n - 1 \subseteq 1 .. n
    BY <1>1, <1>3
  <1>5. /\ Len(u) = n - 1 /\ Places(u) = 1 .. n - 1
        /\ \A k \in 1 .. n - 1 : u[k] = IF k = i THEN t[n] ELSE t[k]
    BY <1>1, <1>4, SwapRemoveIs DEF Places
  <1>6. /\ DOMAIN rho = 1 .. n - 1
        /\ \A k \in 1 .. n - 1 : rho[k] = IF k = i THEN pi[n] ELSE pi[k]
        /\ rho = [k \in 1 .. n - 1 |-> rho[k]]
    BY DEF Filled
  <1> HIDE DEF u, rho
  <1>7. \A k \in 1 .. n - 1 : pi[k] # i \/ k = i
    BY <1>2, <1>3, <1>4
  <1>8. ASSUME NEW k \in 1 .. n - 1 PROVE rho[k] \in Places(s) \ (gone \cup {i})
    <2>1. CASE k = i
      <3>1. n # i /\ pi[n] # pi[i]
        BY <1>1, <1>2, <1>3, <1>4, <2>1
      <3> QED BY <1>2, <1>3, <1>4, <1>6, <2>1, <3>1
    <2>2. CASE k # i
      BY <1>2, <1>4, <1>6, <1>7, <2>2
    <2> QED BY <2>1, <2>2
  <1>9. ASSUME NEW x \in 1 .. n - 1, NEW y \in 1 .. n - 1, rho[x] = rho[y] PROVE x = y
    <2>1. x \in 1 .. n /\ y \in 1 .. n /\ x # n /\ y # n
      BY <1>1, <1>4
    <2> QED BY <1>2, <1>4, <1>6, <1>9, <2>1
  <1>10. ASSUME NEW p \in Places(s) \ (gone \cup {i}) PROVE \E k \in 1 .. n - 1 : rho[k] = p
    <2>1. PICK k \in 1 .. n : pi[k] = p
      BY <1>2
    <2>2. k # i
      BY <1>3, <2>1
    <2>3. CASE k = n
      <3>1. i \in 1 .. n - 1
        BY <1>1, <1>3, <2>2, <2>3
      <3> QED BY <1>6, <2>1, <2>3, <3>1
    <2>4. CASE k # n
      <3>1. k \in 1 .. n - 1
        BY <1>1, <2>4
      <3> QED BY <1>6, <2>1, <2>2, <3>1
    <2> QED BY <2>3, <2>4
  <1>11. \A k \in 1 .. n - 1 : u[k] = s[rho[k]]
    BY <1>2, <1>4, <1>5, <1>6
  <1>12. ASSUME NEW k \in 1 .. i - 1 PROVE k \in 1 .. n - 1 /\ rho[k] = k
    <2>1. k \in 1 .. i /\ k # i /\ k \in 1 .. n - 1
      BY <1>1, <1>3
    <2> QED BY <1>2, <1>6, <2>1
  <1>13. rho \in [1 .. n - 1 -> Places(s) \ (gone \cup {i})]
    BY <1>6, <1>8
  <1>14. Shrunk(s, u, gone \cup {i}, i, rho)
    BY <1>5, <1>9, <1>10, <1>11, <1>12, <1>13 DEF Shrunk
  <1> QED BY <1>3, <1>14 DEF u, rho, Places

Lefts(s, set, L) ==
    L = [i \in 1 .. Len(s) + 1 |->
            IF i > Len(s) THEN s
            ELSE IF i \in set THEN SwapRemove(L[i + 1], i) ELSE L[i + 1]]

LEMMA LeftsExist ==
    ASSUME NEW S, NEW s \in Seq(S), NEW set
    PROVE  \E L : Lefts(s, set, L) /\ RemoveDescending(s, set) = L[1]
  <1> DEFINE n == Len(s)
             A == Seq(S)
             Step(i, t) == IF n + 1 - i \in set THEN SwapRemove(t, n + 1 - i) ELSE t
             g == [i \in 1 .. n |-> [t \in A |-> Step(i, t)]]
  <1>1. n \in Nat /\ s \in A
    OBVIOUS
  <1>2. ASSUME NEW i \in 1 .. n, NEW t \in A
        PROVE  g[i][t] = Step(i, t) /\ g[i][t] \in A
    <2>1. n + 1 - i \in Nat
      BY <1>1
    <2> QED BY <2>1, SwapRemoveIs
  <1> HIDE DEF g, A
  <1>3. PICK H : Unfolds(n, A, s, g, H)
    <2>1. Foldable(n, A, s, g)
      BY <1>1, <1>2 DEF Foldable
    <2> HIDE DEF n
    <2> QED BY <2>1, WalkExists
  <1>4. H[0] = s /\ \A i \in 1 .. n : H[i] = Step(i, H[i - 1])
    <2>1. H \in [0 .. n -> A] /\ H[0] = s /\ \A i \in 1 .. n : H[i] = g[i][H[i - 1]]
      BY <1>3 DEF Unfolds
    <2>2. \A i \in 1 .. n : H[i - 1] \in A
      BY <1>1, <2>1
    <2> HIDE DEF Step
    <2> QED BY <1>2, <2>1, <2>2
  <1> DEFINE L == [i \in 1 .. n + 1 |-> H[n + 1 - i]]
  <1>5. ASSUME NEW i \in 1 .. n + 1
        PROVE  H[n + 1 - i] = IF i > n THEN s
                              ELSE IF i \in set THEN SwapRemove(L[i + 1], i) ELSE L[i + 1]
    <2>1. CASE i > n
      <3>1. n + 1 - i = 0
        BY <1>1, <2>1
      <3> QED BY <1>4, <2>1, <3>1
    <2>2. CASE ~(i > n)
      <3> DEFINE j == n + 1 - i
      <3>1. /\ j \in 1 .. n /\ n + 1 - j = i /\ i + 1 \in 1 .. n + 1
            /\ n + 1 - (i + 1) = j - 1
        BY <1>1, <2>2
      <3>2. L[i + 1] = H[j - 1]
        BY <3>1
      <3> HIDE DEF j, L
      <3>3. H[j] = Step(j, H[j - 1])
        BY <1>4, <3>1
      <3>4. H[j] = IF i \in set THEN SwapRemove(L[i + 1], i) ELSE L[i + 1]
        BY <3>1, <3>2, <3>3
      <3> QED BY <2>2, <3>4 DEF j
    <2> QED BY <2>1, <2>2
  <1>6. Lefts(s, set, L)
    <2>1. L = [i \in 1 .. n + 1 |->
                  IF i > n THEN s
                  ELSE IF i \in set THEN SwapRemove(L[i + 1], i) ELSE L[i + 1]]
      BY <1>5
    <2> HIDE DEF L
    <2> QED BY <2>1 DEF Lefts
  <1>7. RemoveDescending(s, set) = (CHOOSE M : Lefts(s, set, M))[1]
    BY DEF RemoveDescending, Lefts
  <1> HIDE DEF L
  <1> QED BY <1>6, <1>7

\* What is left are the elements which were not to be removed, each once.
LEMMA RemoveDescendingIs ==
    ASSUME NEW S, NEW s \in Seq(S), NEW set \in SUBSET Places(s)
    PROVE  /\ RemoveDescending(s, set) \in Seq(S)
           /\ \E pi : Shrunk(s, RemoveDescending(s, set), set, 1, pi)
  <1> DEFINE n == Len(s)
             Gone(i) == {x \in set : x >= i}
  <1>1. n \in Nat /\ Places(s) = 1 .. n /\ \A x \in set : x \in 1 .. n
    BY DEF Places
  <1>2. PICK L : Lefts(s, set, L) /\ RemoveDescending(s, set) = L[1]
    BY LeftsExist
  <1>3. /\ L[n + 1] = s
        /\ \A i \in 1 .. n : L[i] = IF i \in set THEN SwapRemove(L[i + 1], i) ELSE L[i + 1]
    <2>1. L = [i \in 1 .. n + 1 |->
                  IF i > n THEN s
                  ELSE IF i \in set THEN SwapRemove(L[i + 1], i) ELSE L[i + 1]]
      BY <1>2 DEF Lefts
    <2> HIDE DEF n
    <2>2. \A i \in 1 .. n + 1 : L[i] = IF i > n THEN s
                  ELSE IF i \in set THEN SwapRemove(L[i + 1], i) ELSE L[i + 1]
      BY <2>1
    <2>3. n + 1 \in 1 .. n + 1 /\ n + 1 > n
      BY <1>1
    <2>4. \A i \in 1 .. n : i \in 1 .. n + 1 /\ ~(i > n)
      BY <1>1
    <2> QED BY <2>2, <2>3, <2>4
  <1> DEFINE Good(i) == L[i] \in Seq(S) /\ \E pi : Shrunk(s, L[i], Gone(i), i, pi)
             Q == {m \in 0 .. n : Good(n + 1 - m)}
  <1>4. 0 \in Q
    <2>1. Gone(n + 1) = {}
      BY <1>1
    <2>2. Shrunk(s, L[n + 1], Gone(n + 1), n + 1, [k \in Places(s) |-> k])
      BY <1>3, <2>1, ShrinkStart
    <2>3. n + 1 - 0 = n + 1 /\ 0 \in 0 .. n
      BY <1>1
    <2> QED BY <1>3, <2>2, <2>3
  <1>5. ASSUME NEW m \in 1 .. n, m - 1 \in Q PROVE m \in Q
    <2> DEFINE i == n + 1 - m
    <2>1. i \in 1 .. n /\ n + 1 - (m - 1) = i + 1 /\ m \in 0 .. n /\ i \in Places(s)
      BY <1>1
    <2>2. PICK pi : Shrunk(s, L[i + 1], Gone(i + 1), i + 1, pi)
      BY <1>5, <2>1
    <2>3. L[i + 1] \in Seq(S)
      BY <1>5, <2>1
    <2>4. L[i] = IF i \in set THEN SwapRemove(L[i + 1], i) ELSE L[i + 1]
      BY <1>3, <2>1
    <2>5. Gone(i) = IF i \in set THEN Gone(i + 1) \cup {i} ELSE Gone(i + 1)
      <3>1. \A x \in set : x >= i <=> x >= i + 1 \/ x = i
        BY <1>1, <2>1
      <3> QED BY <3>1
    <2> HIDE DEF i, Gone
    <2>6. Good(i)
      <3>1. CASE i \in set
        <4>1. Shrunk(s, SwapRemove(L[i + 1], i), Gone(i + 1) \cup {i}, i,
                     Filled(pi, i, Len(L[i + 1])))
          BY <2>1, <2>2, <2>3, ShrinkAt
        <4>2. SwapRemove(L[i + 1], i) \in Seq(S)
          <5>1. i \in Nat
            BY <2>1
          <5> QED BY <2>3, <5>1, SwapRemoveIs
        <4> QED BY <2>4, <2>5, <3>1, <4>1, <4>2
      <3>2. CASE i \notin set
        <4>1. Shrunk(s, L[i + 1], Gone(i + 1), i, pi)
          BY <2>1, <2>2, ShrinkPast
        <4> QED BY <2>3, <2>4, <2>5, <3>2, <4>1
      <3> QED BY <3>1, <3>2
    <2> QED BY <2>1, <2>6 DEF i
  <1>6. n \in Q
    <2> HIDE DEF Q
    <2>1. \A i \in 0 .. n : i \in Q
      BY <1>1, <1>4, <1>5, WalkInduction
    <2> QED BY <1>1, <2>1
  <1>7. n + 1 - n = 1 /\ Gone(1) = set
    BY <1>1
  <1> HIDE DEF Gone
  <1> QED BY <1>2, <1>6, <1>7

-----------------------------------------------------------------------------
(* Removing nodes with their edges. *)

Rejoined(e, x, y) == [e EXCEPT !.from = x, !.to = y]

\* Edges whose ends are numbers which can be changed.
Joinable(E) ==
    \A e \in E : /\ e.from \in Nat /\ e.to \in Nat
                 /\ Rejoined(e, e.from, e.to) = e
                 /\ \A x, y \in Nat :
                       /\ Rejoined(e, x, y) \in E
                       /\ Rejoined(e, x, y).from = x /\ Rejoined(e, x, y).to = y
                       /\ \A u, v \in Nat : Rejoined(Rejoined(e, x, y), u, v) = Rejoined(e, u, v)

LEMMA RejoinedFrom ==
    ASSUME NEW E, NEW e, NEW x, NEW y, Joinable(E), e \in E, x \in Nat, y \in Nat
    PROVE  Rejoined(e, x, y).from = x
  BY DEF Joinable

LEMMA RejoinedTo ==
    ASSUME NEW E, NEW e, NEW x, NEW y, Joinable(E), e \in E, x \in Nat, y \in Nat
    PROVE  Rejoined(e, x, y).to = y
  BY DEF Joinable

LEMMA RejoinedTwice ==
    ASSUME NEW E, NEW e, NEW x, NEW y, NEW u, NEW v,
           Joinable(E), e \in E, x \in Nat, y \in Nat, u \in Nat, v \in Nat
    PROVE  Rejoined(Rejoined(e, x, y), u, v) = Rejoined(e, u, v)
  BY DEF Joinable

GraphOver(S, E) == [nodes : Seq(S), edges : Seq(E)]

Joined(g) ==
    \A k \in Places(g.edges) : g.edges[k].from \in Places(g.nodes) /\ g.edges[k].to \in Places(g.nodes)

Original(pi, e) == Rejoined(e, pi[e.from], pi[e.to])

\* h is the graph g without the nodes gone and their edges.
Carried(g, h, gone, i, pi) ==
    /\ Shrunk(g.nodes, h.nodes, gone, i, pi)
    /\ Joined(h)
    /\ \A k \in Places(h.edges) : \E l \in Places(g.edges) : Original(pi, h.edges[k]) = g.edges[l]
    /\ \A l \in Places(g.edges) :
          g.edges[l].from \notin gone /\ g.edges[l].to \notin gone =>
              \E k \in Places(h.edges) : Original(pi, h.edges[k]) = g.edges[l]

LastTo(h, i, j) == IF j = Len(h.nodes) THEN i ELSE j

Without(h, i) == {k \in Places(h.edges) : i \notin {h.edges[k].from, h.edges[k].to}}

Shifted(h, i, e) == Rejoined(e, LastTo(h, i, e.from), LastTo(h, i, e.to))

\* What the edges are which removing a node leaves.
Removed(S, E, h, i, r) ==
    /\ r \in GraphOver(S, E)
    /\ r.nodes = SwapRemove(h.nodes, i)
    /\ \A k \in Places(r.edges) : \E l \in Without(h, i) : r.edges[k] = Shifted(h, i, h.edges[l])
    /\ \A l \in Without(h, i) : \E k \in Places(r.edges) : r.edges[k] = Shifted(h, i, h.edges[l])

LEMMA RemoveNodeIs ==
    ASSUME NEW S, NEW E, NEW h, NEW i,
           Joinable(E), h \in GraphOver(S, E), i \in Nat
    PROVE  Removed(S, E, h, i, RemoveNode(h, i))
  <1> DEFINE r == RemoveNode(h, i)
             left == Kept(h.edges, Without(h, i))
             To(j) == LastTo(h, i, j)
             Moved(e) == Rejoined(e, To(e.from), To(e.to))
  <1>1. /\ h.nodes \in Seq(S) /\ h.edges \in Seq(E) /\ Len(h.nodes) \in Nat
        /\ h = [nodes |-> h.nodes, edges |-> h.edges]
    BY DEF GraphOver
  <1>2. Without(h, i) \in SUBSET Places(h.edges)
    BY DEF Without
  <1>3. /\ left \in Seq(E)
        /\ \A l \in Without(h, i) : \E k \in Places(left) : left[k] = h.edges[l]
        /\ \A k \in Places(left) : \E l \in Without(h, i) : left[k] = h.edges[l]
    BY <1>1, <1>2, KeptIs
  <1>4. r = [nodes |-> SwapRemove(h.nodes, i),
             edges |-> [k \in DOMAIN left |->
                          [left[k] EXCEPT !.from = To(@), !.to = To(@)]]]
    <2> DEFINE nodes == SwapRemove(h.nodes, i)
               edges == [k \in DOMAIN left |-> [left[k] EXCEPT !.from = To(@), !.to = To(@)]]
    <2>1. r = [h EXCEPT !.nodes = nodes, !.edges = edges]
      BY DEF RemoveNode, Without, LastTo
    <2> HIDE DEF nodes, edges, r
    <2>2. r = [nodes |-> nodes, edges |-> edges]
      BY <1>1, <2>1
    <2> QED BY <2>2 DEF nodes, edges
  <1> HIDE DEF left, r
  <1>5. Len(left) \in Nat /\ DOMAIN left = 1 .. Len(left) /\ \A k \in DOMAIN left : left[k] \in E
    BY <1>3
  <1>6. ASSUME NEW e \in E
        PROVE  /\ To(e.from) \in Nat /\ To(e.to) \in Nat
               /\ Moved(e) \in E
    BY <1>1 DEF Joinable, LastTo
  <1>7. \A e \in E : [e EXCEPT !.from = To(@), !.to = To(@)] = Moved(e)
    BY DEF Rejoined
  <1>8. r.edges = [k \in 1 .. Len(left) |-> Moved(left[k])]
    BY <1>4, <1>5, <1>7
  <1> HIDE DEF To, Moved
  <1>9. r.edges \in Seq(E) /\ Places(r.edges) = Places(left)
    BY <1>5, <1>6, <1>8 DEF Places
  <1>10. SwapRemove(h.nodes, i) \in Seq(S)
    BY <1>1, SwapRemoveIs
  <1>11. r \in GraphOver(S, E) /\ r.nodes = SwapRemove(h.nodes, i)
    BY <1>4, <1>9, <1>10 DEF GraphOver
  <1>12. \A k \in Places(r.edges) : r.edges[k] = Moved(left[k])
    BY <1>8, <1>9 DEF Places
  <1>13. \A k \in Places(r.edges) : \E l \in Without(h, i) : r.edges[k] = Moved(h.edges[l])
    BY <1>3, <1>9, <1>12
  <1>14. \A l \in Without(h, i) : \E k \in Places(r.edges) : r.edges[k] = Moved(h.edges[l])
    BY <1>3, <1>9, <1>12
  <1> QED BY <1>11, <1>13, <1>14 DEF r, Moved, To, Removed, Shifted

LEMMA CarryStart ==
    ASSUME NEW S, NEW E, Joinable(E), NEW g \in GraphOver(S, E), Joined(g)
    PROVE  Carried(g, g, {}, Len(g.nodes) + 1, [k \in Places(g.nodes) |-> k])
  <1> DEFINE pi == [k \in Places(g.nodes) |-> k]
  <1>1. g.nodes \in Seq(S) /\ \A l \in Places(g.edges) : g.edges[l] \in E
    BY DEF GraphOver, Places
  <1>2. ASSUME NEW l \in Places(g.edges) PROVE Original(pi, g.edges[l]) = g.edges[l]
    <2>1. pi[g.edges[l].from] = g.edges[l].from /\ pi[g.edges[l].to] = g.edges[l].to
      BY DEF Joined
    <2> HIDE DEF pi
    <2> QED BY <1>1, <2>1 DEF Joinable, Original
  <1>3. Shrunk(g.nodes, g.nodes, {}, Len(g.nodes) + 1, pi)
    BY <1>1, ShrinkStart
  <1> HIDE DEF pi
  <1>4. Carried(g, g, {}, Len(g.nodes) + 1, pi)
    BY <1>2, <1>3 DEF Carried
  <1> QED BY <1>4 DEF pi

LEMMA CarryPast ==
    ASSUME NEW S, NEW E, NEW g \in GraphOver(S, E), NEW h, NEW gone, NEW i \in Places(g.nodes),
           NEW pi, Carried(g, h, gone, i + 1, pi)
    PROVE  Carried(g, h, gone, i, pi)
  <1>1. g.nodes \in Seq(S) /\ Shrunk(g.nodes, h.nodes, gone, i + 1, pi)
    BY DEF GraphOver, Carried
  <1>2. Shrunk(g.nodes, h.nodes, gone, i, pi)
    BY <1>1, ShrinkPast
  <1> QED BY <1>2 DEF Carried

LEMMA CarryAt ==
    ASSUME NEW S, NEW E, Joinable(E), NEW g \in GraphOver(S, E), NEW h \in GraphOver(S, E),
           NEW gone, NEW i \in Places(g.nodes), NEW pi, Carried(g, h, gone, i + 1, pi)
    PROVE  Carried(g, RemoveNode(h, i), gone \cup {i}, i, Filled(pi, i, Len(h.nodes)))
  <1> DEFINE r == RemoveNode(h, i)
             n == Len(h.nodes)
             rho == Filled(pi, i, n)
             e(k) == h.edges[k]
             At(k) == Shifted(h, i, e(k))
  <1>1. /\ g.nodes \in Seq(S) /\ h.nodes \in Seq(S) /\ n \in Nat /\ i \in Nat
        /\ Len(g.nodes) \in Nat
        /\ \A k \in Places(h.edges) : e(k) \in E
        /\ Shrunk(g.nodes, h.nodes, gone, i + 1, pi)
    BY DEF GraphOver, Carried, Places
  <1>2. /\ i \in Places(h.nodes) /\ pi[i] = i
        /\ Shrunk(g.nodes, SwapRemove(h.nodes, i), gone \cup {i}, i, rho)
    BY <1>1, ShrinkAt
  <1>3. /\ r \in GraphOver(S, E) /\ r.nodes = SwapRemove(h.nodes, i)
        /\ \A k \in Places(r.edges) : \E l \in Without(h, i) : r.edges[k] = At(l)
        /\ \A l \in Without(h, i) : \E k \in Places(r.edges) : r.edges[k] = At(l)
    <2>1. Removed(S, E, h, i, r)
      BY <1>1, RemoveNodeIs
    <2> HIDE DEF r
    <2> QED BY <2>1 DEF Removed
  <1>4. /\ pi \in [1 .. n -> Places(g.nodes) \ gone]
        /\ \A x, y \in 1 .. n : pi[x] = pi[y] => x = y
        /\ \A x \in 1 .. n : pi[x] \in Nat
    <2>1. pi \in [1 .. n -> Places(g.nodes) \ gone]
      BY <1>1 DEF Shrunk, Places
    <2>2. \A p \in Places(g.nodes) : p \in Nat
      BY <1>1 DEF Places
    <2> QED BY <1>1, <2>1, <2>2 DEF Shrunk, Places
  <1>5. Places(r.nodes) = 1 .. n - 1 /\ i \in 1 .. n /\ n \in 1 .. n
    <2>1. i \in 1 .. n /\ n # 0 /\ n \in 1 .. n
      BY <1>1, <1>2 DEF Places
    <2>2. Len(SwapRemove(h.nodes, i)) = n - 1
      BY <1>1, <2>1, SwapRemoveIs
    <2> HIDE DEF r
    <2> QED BY <1>3, <2>1, <2>2 DEF Places
  <1>6. \A x \in 1 .. n : x # i => /\ LastTo(h, i, x) \in 1 .. n - 1
                                  /\ LastTo(h, i, x) \in Nat
                                  /\ rho[LastTo(h, i, x)] = pi[x]
    BY <1>1, <1>5 DEF LastTo, Filled
  <1>7. \A x \in 1 .. n : pi[x] \in gone \cup {i} <=> x = i
    BY <1>2, <1>4, <1>5
  <1> HIDE DEF r, n, rho
  <1>8. ASSUME NEW l \in Without(h, i)
        PROVE  /\ l \in Places(h.edges)
               /\ At(l).from \in Places(r.nodes) /\ At(l).to \in Places(r.nodes)
               /\ Original(rho, At(l)) = Original(pi, e(l))
    <2>1. l \in Places(h.edges) /\ e(l).from # i /\ e(l).to # i
      BY DEF Without
    <2>2. e(l) \in E /\ e(l).from \in 1 .. n /\ e(l).to \in 1 .. n
      BY <1>1, <2>1 DEF Carried, Joined, Places, n
    <2> DEFINE x == LastTo(h, i, e(l).from)
               y == LastTo(h, i, e(l).to)
    <2>3. /\ x \in 1 .. n - 1 /\ x \in Nat /\ rho[x] = pi[e(l).from]
          /\ y \in 1 .. n - 1 /\ y \in Nat /\ rho[y] = pi[e(l).to]
      BY <1>6, <2>1, <2>2
    <2>4. pi[e(l).from] \in Nat /\ pi[e(l).to] \in Nat
      BY <1>4, <2>2
    <2>5. At(l) = Rejoined(e(l), x, y)
      BY DEF Shifted
    <2> HIDE DEF x, y, e, At
    <2>6. At(l).from = x /\ At(l).to = y
      <3>1. PICK u \in Nat, v \in Nat : u = x /\ v = y
        BY <2>3
      <3>2. Rejoined(e(l), u, v).from = u /\ Rejoined(e(l), u, v).to = v
        <4>1. e(l) \in E
          BY <2>2
        <4> QED BY <4>1, RejoinedFrom, RejoinedTo
      <3> QED BY <2>5, <3>1, <3>2
    <2>7. Rejoined(At(l), rho[x], rho[y]) = Rejoined(e(l), rho[x], rho[y])
      <3>1. rho[x] \in Nat /\ rho[y] \in Nat /\ x \in Nat /\ y \in Nat /\ e(l) \in E
        BY <2>2, <2>3, <2>4
      <3>2. Rejoined(Rejoined(e(l), x, y), rho[x], rho[y]) = Rejoined(e(l), rho[x], rho[y])
        BY <3>1, RejoinedTwice
      <3> QED BY <2>5, <3>2
    <2> QED BY <1>5, <2>1, <2>3, <2>6, <2>7 DEF Original
  <1> HIDE DEF At
  <1>9. Joined(r)
    BY <1>3, <1>8 DEF Joined
  <1>10. ASSUME NEW k \in Places(r.edges)
         PROVE  \E l \in Places(g.edges) : Original(rho, r.edges[k]) = g.edges[l]
    <2>1. PICK l \in Without(h, i) : r.edges[k] = At(l)
      BY <1>3
    <2>2. l \in Places(h.edges) /\ Original(rho, r.edges[k]) = Original(pi, h.edges[l])
      BY <1>8, <2>1
    <2> QED BY <2>2 DEF Carried
  <1>11. ASSUME NEW l \in Places(g.edges),
                g.edges[l].from \notin gone \cup {i}, g.edges[l].to \notin gone \cup {i}
         PROVE  \E k \in Places(r.edges) : Original(rho, r.edges[k]) = g.edges[l]
    <2>1. PICK q \in Places(h.edges) : Original(pi, h.edges[q]) = g.edges[l]
      BY <1>11 DEF Carried
    <2>2. e(q) \in E /\ e(q).from \in 1 .. n /\ e(q).to \in 1 .. n
      BY <1>1 DEF Carried, Joined, Places, n
    <2>3. pi[e(q).from] \in Nat /\ pi[e(q).to] \in Nat
      BY <1>4, <2>2
    <2>4. g.edges[l].from = pi[e(q).from] /\ g.edges[l].to = pi[e(q).to]
      <3> DEFINE f == e(q)
      <3>1. f \in E /\ pi[f.from] \in Nat /\ pi[f.to] \in Nat
            /\ Rejoined(f, pi[f.from], pi[f.to]) = g.edges[l]
        BY <2>1, <2>2, <2>3 DEF Original
      <3> HIDE DEF f
      <3>2. PICK u \in Nat, v \in Nat : u = pi[f.from] /\ v = pi[f.to]
        BY <3>1
      <3>3. Rejoined(f, u, v).from = u /\ Rejoined(f, u, v).to = v
        BY <3>1, RejoinedFrom, RejoinedTo
      <3> QED BY <3>1, <3>2, <3>3 DEF f
    <2>5. e(q).from # i /\ e(q).to # i
      BY <1>7, <1>11, <2>2, <2>4
    <2>6. q \in Without(h, i)
      BY <2>5 DEF Without
    <2>7. PICK k \in Places(r.edges) : r.edges[k] = At(q)
      BY <1>3, <2>6
    <2>8. Original(rho, At(q)) = Original(pi, e(q))
      BY <1>8, <2>6
    <2> QED BY <2>1, <2>7, <2>8
  <1>12. Carried(g, r, gone \cup {i}, i, rho)
    BY <1>2, <1>3, <1>9, <1>10, <1>11 DEF Carried
  <1> QED BY <1>12 DEF r, rho, n

Removes(g, set, F) ==
    F = [s \in SUBSET DOMAIN Reverse(Ascending(g.nodes)) |->
            IF s = {} THEN g
            ELSE IF Reverse(Ascending(g.nodes))[Max(s)] \in set
                 THEN RemoveNode(F[s \ {Max(s)}], Reverse(Ascending(g.nodes))[Max(s)])
                 ELSE F[s \ {Max(s)}]]

LEMMA ReverseIs ==
    ASSUME NEW S, NEW s \in Seq(S)
    PROVE  /\ Len(s) \in Nat /\ DOMAIN Reverse(Ascending(s)) = 1 .. Len(s)
           /\ \A i \in 1 .. Len(s) : /\ Reverse(Ascending(s))[i] = Len(s) - i + 1
                                    /\ Reverse(Ascending(s))[i] \in 1 .. Len(s)
  <1>1. Len(s) \in Nat
    OBVIOUS
  <1>2. Ascending(s) = [i \in 1 .. Len(s) |-> i]
    BY DEF Ascending, Places
  <1>3. Ascending(s) \in Seq(Nat) /\ Len(Ascending(s)) = Len(s)
    <2>1. Ascending(s) \in [1 .. Len(s) -> Nat]
      BY <1>1, <1>2
    <2> QED BY <1>1, <2>1
  <1>4. \A i \in 1 .. Len(s) : Len(s) - i + 1 \in 1 .. Len(s)
    BY <1>1
  <1> QED BY <1>1, <1>2, <1>3, <1>4 DEF Reverse

LEMMA RemoveTyped ==
    ASSUME NEW S, NEW E, NEW h, NEW i, Joinable(E), h \in GraphOver(S, E), i \in Nat
    PROVE  RemoveNode(h, i) \in GraphOver(S, E)
  <1>1. Removed(S, E, h, i, RemoveNode(h, i))
    BY RemoveNodeIs
  <1> QED BY <1>1 DEF Removed

\* The removal of nodes as a walk from the last one to the first.
LEMMA RemoveWalk ==
    ASSUME NEW S, NEW E, Joinable(E), NEW g \in GraphOver(S, E), NEW set
    PROVE  \E H : /\ H \in [0 .. Len(g.nodes) -> GraphOver(S, E)]
                  /\ H[0] = g /\ H[Len(g.nodes)] = RemoveNodes(g, set)
                  /\ \A m \in 1 .. Len(g.nodes) :
                        H[m] = IF Len(g.nodes) - m + 1 \in set
                               THEN RemoveNode(H[m - 1], Len(g.nodes) - m + 1) ELSE H[m - 1]
  <1> DEFINE n == Len(g.nodes)
             A == GraphOver(S, E)
             At(m) == Reverse(Ascending(g.nodes))[m]
             D == DOMAIN Reverse(Ascending(g.nodes))
             Step(m, h) == IF At(m) \in set THEN RemoveNode(h, At(m)) ELSE h
             w == [m \in 1 .. n |-> [h \in A |-> Step(m, h)]]
  <1>1. g.nodes \in Seq(S)
    BY DEF GraphOver
  <1>2. n \in Nat /\ D = 1 .. n /\ \A m \in 1 .. n : At(m) = n - m + 1 /\ At(m) \in 1 .. n
    BY <1>1, ReverseIs
  <1> HIDE DEF n, At, D, A
  <1>3. ASSUME NEW m \in 1 .. n, NEW h \in A PROVE w[m][h] = Step(m, h) /\ w[m][h] \in A
    <2>1. At(m) \in Nat
      BY <1>2
    <2>2. RemoveNode(h, At(m)) \in A
      BY <2>1, RemoveTyped DEF A
    <2> QED BY <2>2
  <1> HIDE DEF w
  <1>4. Foldable(n, A, g, w)
    BY <1>2, <1>3 DEF Foldable, A
  <1>5. PICK F : /\ FoldsOn(w, g, SUBSET (1 .. n), F)
                 /\ \A s \in SUBSET (1 .. n) : F[s] \in A
    BY <1>4, FoldedBy
  <1>6. ASSUME NEW s \in SUBSET (1 .. n), s # {}
        PROVE  Max(s) \in 1 .. n /\ Max(s) \in s
    BY <1>2, <1>6, PlacesFinite
  <1>7. Removes(g, set, F)
    <2>1. F = [s \in SUBSET (1 .. n) |-> Folding(w, g, F, s)]
      BY <1>5 DEF FoldsOn
    <2>2. \A s \in SUBSET (1 .. n) :
              Folding(w, g, F, s) = IF s = {} THEN g ELSE Step(Max(s), F[s \ {Max(s)}])
      BY <1>3, <1>5, <1>6 DEF Folding
    <2> QED BY <1>2, <2>1, <2>2 DEF Removes, At, D
  <1>8. PICK G : Removes(g, set, G) /\ RemoveNodes(g, set) = G[D]
    <2>1. RemoveNodes(g, set) = (CHOOSE G : Removes(g, set, G))[D]
      BY DEF RemoveNodes, FoldLeft, MapThenFoldSet, Removes, D
    <2> QED BY <1>7, <2>1
  <1>9. /\ G[{}] = g
        /\ \A s \in SUBSET (1 .. n) : s # {} => G[s] = Step(Max(s), G[s \ {Max(s)}])
    <2>1. G = [s \in SUBSET D |-> IF s = {} THEN g ELSE Step(Max(s), G[s \ {Max(s)}])]
      BY <1>8 DEF Removes, At, D
    <2>2. {} \in SUBSET D
      OBVIOUS
    <2> HIDE DEF Step
    <2> QED BY <1>2, <2>1, <2>2
  <1>10. Folded(n, A, g, w, G)
    <2>1. \A s \in SUBSET (1 .. n) :
             s # {} /\ G[s \ {Max(s)}] \in A => G[s] = w[Max(s)][G[s \ {Max(s)}]]
      BY <1>3, <1>6, <1>9
    <2> QED BY <1>9, <2>1 DEF Folded
  <1>11. PICK H : Unfolds(n, A, g, w, H) /\ H[n] = G[1 .. n]
    BY <1>4, <1>10, FoldWalk
  <1>12. H \in [0 .. n -> A] /\ H[0] = g /\ \A m \in 1 .. n : H[m] = w[m][H[m - 1]]
    BY <1>11 DEF Unfolds
  <1>13. ASSUME NEW m \in 1 .. n PROVE H[m] = Step(m, H[m - 1])
    <2>1. H[m - 1] \in A
      BY <1>2, <1>12
    <2> QED BY <1>3, <1>12, <2>1
  <1> QED BY Z3T(30), <1>2, <1>8, <1>11, <1>12, <1>13 DEF n, A

\* What is left are the nodes which were not to be removed and the edges between them.
LEMMA RemoveNodesIs ==
    ASSUME NEW S, NEW E, Joinable(E), NEW g \in GraphOver(S, E), Joined(g),
           NEW set \in SUBSET Places(g.nodes)
    PROVE  /\ RemoveNodes(g, set) \in GraphOver(S, E)
           /\ \E pi : Carried(g, RemoveNodes(g, set), set, 1, pi)
  <1> DEFINE n == Len(g.nodes)
             Gone(i) == {x \in set : x >= i}
  <1>1. n \in Nat /\ Places(g.nodes) = 1 .. n /\ \A x \in set : x \in 1 .. n
    BY DEF Places, GraphOver
  <1>2. PICK H : /\ H \in [0 .. n -> GraphOver(S, E)]
                 /\ H[0] = g /\ H[n] = RemoveNodes(g, set)
                 /\ \A m \in 1 .. n :
                       H[m] = IF n - m + 1 \in set THEN RemoveNode(H[m - 1], n - m + 1)
                              ELSE H[m - 1]
    BY Z3T(30), RemoveWalk
  <1> DEFINE Good(m) == \E pi : Carried(g, H[m], Gone(n - m + 1), n - m + 1, pi)
             Q == {m \in 0 .. n : Good(m)}
  <1>3. 0 \in Q
    <2>1. Gone(n - 0 + 1) = {} /\ n - 0 + 1 = n + 1 /\ 0 \in 0 .. n
      BY <1>1
    <2>2. Carried(g, g, {}, n + 1, [k \in Places(g.nodes) |-> k])
      BY CarryStart
    <2> HIDE DEF Gone, n
    <2> QED BY <1>2, <2>1, <2>2
  <1>4. ASSUME NEW m \in 1 .. n, m - 1 \in Q PROVE m \in Q
    <2> DEFINE i == n - m + 1
    <2>1. /\ i \in 1 .. n /\ n - (m - 1) + 1 = i + 1 /\ m \in 0 .. n /\ m - 1 \in 0 .. n
          /\ i \in Places(g.nodes) /\ i \in Nat
      BY <1>1
    <2>2. PICK pi : Carried(g, H[m - 1], Gone(i + 1), i + 1, pi)
      BY <1>4, <2>1
    <2>3. H[m - 1] \in GraphOver(S, E)
      BY <1>2, <2>1
    <2>4. H[m] = IF i \in set THEN RemoveNode(H[m - 1], i) ELSE H[m - 1]
      BY <1>2
    <2>5. Gone(i) = IF i \in set THEN Gone(i + 1) \cup {i} ELSE Gone(i + 1)
      <3>1. \A x \in set : x >= i <=> x >= i + 1 \/ x = i
        BY <1>1, <2>1
      <3> QED BY <3>1
    <2> HIDE DEF i, Gone
    <2>6. \E rho : Carried(g, H[m], Gone(i), i, rho)
      <3>1. CASE i \in set
        <4>1. Carried(g, RemoveNode(H[m - 1], i), Gone(i + 1) \cup {i}, i,
                      Filled(pi, i, Len(H[m - 1].nodes)))
          BY <2>1, <2>2, <2>3, CarryAt
        <4> QED BY <2>4, <2>5, <3>1, <4>1
      <3>2. CASE i \notin set
        <4>1. Carried(g, H[m - 1], Gone(i + 1), i, pi)
          BY <2>1, <2>2, CarryPast
        <4> QED BY <2>4, <2>5, <3>2, <4>1
      <3> QED BY <3>1, <3>2
    <2> QED BY <2>1, <2>6 DEF i
  <1>5. n \in Q
    <2> HIDE DEF Q
    <2>1. \A m \in 0 .. n : m \in Q
      BY <1>1, <1>3, <1>4, WalkInduction
    <2> QED BY <1>1, <2>1
  <1>6. n - n + 1 = 1 /\ Gone(1) = set /\ n \in 0 .. n
    BY <1>1
  <1>7. RemoveNodes(g, set) \in GraphOver(S, E)
    BY <1>2, <1>6
  <1> HIDE DEF Gone, n
  <1> QED BY <1>2, <1>5, <1>6, <1>7

=============================================================================
