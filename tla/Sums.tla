-------------------------------- MODULE Sums --------------------------------
(***************************************************************************)
(* Laws of SumFunctionOnSet, the sum of a function over a finite set, and  *)
(* of folds over sequences.                                                *)
(***************************************************************************)
EXTENDS Integers, FiniteSets, FiniteSetsExt, Functions, FiniteSetTheorems, TLAPS

-----------------------------------------------------------------------------
(* Induction, over sets where the library's theorems have predicates.       *)

LEMMA LeastOfNats ==
    ASSUME NEW S \in SUBSET Nat, S # {}
    PROVE  Min(S) \in S /\ \A x \in S : Min(S) <= x
  <1>1. \E n \in S : \A m \in S : ~(<<m, n>> \in OpToRel(<, Nat))
    BY NatLessThanWellFounded, WFMin
  <1>2. PICK n \in S : \A m \in S : ~(<<m, n>> \in OpToRel(<, Nat))
    BY <1>1
  <1>3. \A m \in S : ~(m < n)
    BY <1>2 DEF OpToRel
  <1>4. \A m \in S : n <= m
    BY <1>3
  <1> QED BY <1>4 DEF Min

LEMMA CountingInduction ==
    ASSUME NEW Q, 0 \in Q, \A n \in Nat : n \in Q => n + 1 \in Q
    PROVE  Nat \subseteq Q
  <1> DEFINE Bad == Nat \ Q
  <1>1. ASSUME Bad # {} PROVE FALSE
    <2>1. PICK n \in Bad : \A m \in Bad : n <= m
      <3>1. Bad \in SUBSET Nat
        OBVIOUS
      <3> HIDE DEF Bad
      <3> QED BY <1>1, <3>1, LeastOfNats
    <2>2. n # 0 /\ n \in Nat
      OBVIOUS
    <2>3. n - 1 \in Nat /\ ~(n <= n - 1) /\ n - 1 + 1 = n
      BY <2>2
    <2>4. n - 1 \in Q
      BY <2>1, <2>3
    <2> QED BY <2>3, <2>4
  <1> QED BY <1>1

\* Of some subsets of a finite set one has none of the others in it.
LEMMA SmallestSet ==
    ASSUME NEW S, IsFiniteSet(S), NEW Q \in SUBSET SUBSET S, Q # {}
    PROVE  \E s \in Q : \A t \in Q : t \subseteq s => t = s
  <1>1. IsWellFoundedOn(StrictSubsetOrdering(S), FiniteSubsetsOf(S))
    BY FS_StrictSubsetOrderingWellFounded
  <1>2. FiniteSubsetsOf(S) = SUBSET S
    BY FS_FiniteSubsetsOfFinite
  <1>3. \E s \in Q : \A t \in Q : ~(<<t, s>> \in StrictSubsetOrdering(S))
    BY <1>1, <1>2, WFMin
  <1>4. ASSUME NEW s \in SUBSET S, NEW t \in SUBSET S, t \subseteq s, t # s
        PROVE  <<t, s>> \in StrictSubsetOrdering(S)
    BY <1>4 DEF StrictSubsetOrdering
  <1> QED
    BY <1>3, <1>4

\* What is so of a set when it is so of the set without any one of its members.
LEMMA SetInduction ==
    ASSUME NEW S, IsFiniteSet(S), NEW Q, {} \in Q,
           \A s \in SUBSET S : s # {} /\ (\A x \in s : s \ {x} \in Q) => s \in Q
    PROVE  S \in Q
  <1> SUFFICES ASSUME S \notin Q PROVE FALSE
    OBVIOUS
  <1> DEFINE Bad == {s \in SUBSET S : s \notin Q}
  <1>1. S \in Bad
    OBVIOUS
  <1>2. Bad \in SUBSET SUBSET S /\ Bad # {}
    BY <1>1
  <1>3. PICK s \in Bad : \A t \in Bad : t \subseteq s => t = s
    <2> HIDE DEF Bad
    <2> QED BY <1>2, SmallestSet
  <1>4. \A x \in s : s \ {x} \in SUBSET S /\ s \ {x} # s
    OBVIOUS
  <1>5. \A x \in s : s \ {x} \notin Bad
    <2> HIDE DEF Bad
    <2> QED BY <1>3, <1>4
  <1>6. \A x \in s : s \ {x} \in Q
    BY <1>4, <1>5
  <1>7. s # {}
    BY <1>3
  <1> QED
    BY <1>6, <1>7

-----------------------------------------------------------------------------
(* Least and greatest members.                                              *)

LEMMA GreatestOf ==
    ASSUME NEW S, IsFiniteSet(S), S # {}, NEW f, \A x \in S : f[x] \in Int
    PROVE  \E x \in S : \A y \in S : f[y] <= f[x]
  <1> DEFINE Q == {s \in SUBSET S : s = {} \/ \E x \in s : \A y \in s : f[y] <= f[x]}
  <1>1. {} \in Q
    OBVIOUS
  <1>2. ASSUME NEW s \in SUBSET S, s # {}, \A x \in s : s \ {x} \in Q PROVE s \in Q
    <2>1. PICK x : x \in s
      BY <1>2
    <2>2. CASE s \ {x} = {}
      BY <2>1, <2>2
    <2>3. CASE s \ {x} # {}
      <3>1. PICK z \in s \ {x} : \A y \in s \ {x} : f[y] <= f[z]
        BY <1>2, <2>1, <2>3
      <3>2. f[x] \in Int /\ f[z] \in Int /\ \A y \in s : f[y] \in Int
        BY <2>1, <3>1
      <3>3. CASE f[x] <= f[z]
        BY <2>1, <3>1, <3>2, <3>3
      <3>4. CASE f[z] <= f[x]
        <4>1. \A y \in s : f[y] <= f[x]
          BY <3>1, <3>2, <3>4
        <4> QED BY <2>1, <4>1
      <3> QED BY <3>2, <3>3, <3>4
    <2> QED BY <2>2, <2>3
  <1>3. S \in Q
    <2> HIDE DEF Q
    <2> QED BY <1>1, <1>2, SetInduction
  <1> QED BY <1>3

LEMMA LeastOf ==
    ASSUME NEW S, IsFiniteSet(S), S # {}, NEW f, \A x \in S : f[x] \in Int
    PROVE  \E x \in S : \A y \in S : f[x] <= f[y]
  <1> DEFINE g == [x \in S |-> -f[x]]
  <1>1. \A x \in S : g[x] \in Int
    OBVIOUS
  <1>2. \E x \in S : \A y \in S : g[y] <= g[x]
    <2> HIDE DEF g
    <2> QED BY <1>1, GreatestOf
  <1> QED BY <1>2

LEMMA GreatestOfInts ==
    ASSUME NEW S \in SUBSET Int, IsFiniteSet(S), S # {}
    PROVE  Max(S) \in S /\ \A x \in S : x <= Max(S)
  <1> DEFINE f == [x \in S |-> x]
  <1>1. \A x \in S : f[x] \in Int
    OBVIOUS
  <1>2. \E x \in S : \A y \in S : f[y] <= f[x]
    <2> HIDE DEF f
    <2> QED BY <1>1, GreatestOf
  <1>3. \E x \in S : \A y \in S : x >= y
    BY <1>2
  <1> QED BY <1>3 DEF Max

LEMMA FiniteImage ==
    ASSUME NEW S, IsFiniteSet(S), NEW f
    PROVE  IsFiniteSet({f[x] : x \in S})
  <1> DEFINE T == {f[x] : x \in S}
             g == [x \in S |-> f[x]]
  <1>1. g \in Surjection(S, T)
    BY DEF Surjection
  <1> QED BY <1>1, FS_Surjection

-----------------------------------------------------------------------------
(* The recursion which SumFunctionOnSet is defined by has a solution.       *)

Chosen(s) == CHOOSE x \in s : TRUE

Adding(f, F, s) == IF s = {} THEN 0 ELSE f[Chosen(s)] + F[s \ {Chosen(s)}]

Adds(f, D, F) == F = [s \in D |-> Adding(f, F, s)]

Iter(f, S) == CHOOSE F : Adds(f, SUBSET S, F)

LEMMA SumIsIter ==
    ASSUME NEW f, NEW S
    PROVE  SumFunctionOnSet(f, S) = Iter(f, S)[S]
  BY DEF SumFunctionOnSet, FoldFunctionOnSet, MapThenFoldSet, Iter, Adds, Adding, Chosen

UpTo(S, n) == {s \in SUBSET S : Cardinality(s) <= n}

LEMMA IterExists ==
    ASSUME NEW S, IsFiniteSet(S), NEW f
    PROVE  Adds(f, SUBSET S, Iter(f, S))
  <1> DEFINE Q == {n \in Nat : \E F : Adds(f, UpTo(S, n), F)}
  <1>a. ASSUME NEW s \in SUBSET S
        PROVE  /\ IsFiniteSet(s) /\ Cardinality(s) \in Nat
               /\ Cardinality(s) = 0 => s = {}
               /\ s # {} => Chosen(s) \in s
               /\ \A x \in s : Cardinality(s \ {x}) = Cardinality(s) - 1
    BY FS_Subset, FS_CardinalityType, FS_EmptySet, FS_RemoveElement DEF Chosen
  <1>1. 0 \in Q
    <2> DEFINE F == [s \in UpTo(S, 0) |-> 0]
    <2>1. \A s \in UpTo(S, 0) : s = {}
      BY <1>a DEF UpTo
    <2>2. Adds(f, UpTo(S, 0), F)
      BY <2>1 DEF Adds, Adding
    <2> QED BY <2>2
  <1>2. ASSUME NEW n \in Nat, n \in Q PROVE n + 1 \in Q
    <2>1. PICK F : Adds(f, UpTo(S, n), F)
      BY <1>2
    <2> DEFINE G == [s \in UpTo(S, n + 1) |-> Adding(f, F, s)]
    <2>2. ASSUME NEW s \in UpTo(S, n + 1) PROVE Adding(f, F, s) = Adding(f, G, s)
      <3>1. CASE s = {}
        BY <3>1 DEF Adding
      <3>2. CASE s # {}
        <4> DEFINE t == s \ {Chosen(s)}
        <4>1. t \in UpTo(S, n) /\ t \in UpTo(S, n + 1)
          BY <1>a, <3>2 DEF UpTo
        <4>2. F[t] = Adding(f, F, t)
          BY <2>1, <4>1 DEF Adds
        <4>3. G[t] = Adding(f, F, t)
          BY <4>1
        <4> QED BY <3>2, <4>2, <4>3 DEF Adding
      <3> QED BY <3>1, <3>2
    <2>3. Adds(f, UpTo(S, n + 1), G)
      <3>1. G = [s \in UpTo(S, n + 1) |-> Adding(f, G, s)]
        BY <2>2
      <3> HIDE DEF G
      <3> QED BY <3>1 DEF Adds
    <2> QED BY <2>3
  <1>3. Nat \subseteq Q
    <2> HIDE DEF Q
    <2> QED BY <1>1, <1>2, CountingInduction
  <1>4. Cardinality(S) \in Nat
    BY <1>a
  <1>5. \E F : Adds(f, UpTo(S, Cardinality(S)), F)
    BY <1>3, <1>4
  <1>6. UpTo(S, Cardinality(S)) = SUBSET S
    BY FS_Subset DEF UpTo
  <1>7. \E F : Adds(f, SUBSET S, F)
    BY <1>5, <1>6
  <1> QED BY <1>7 DEF Iter

\* What is iterated depends only on the members summed.
LEMMA IterAgrees ==
    ASSUME NEW S, IsFiniteSet(S), NEW T \in SUBSET S, NEW f, NEW g,
           \A x \in T : f[x] = g[x]
    PROVE  Iter(f, S)[T] = Iter(g, T)[T]
  <1> DEFINE F == Iter(f, S)
             G == Iter(g, T)
             Q == {s \in SUBSET T : F[s] = G[s]}
  <1>1. IsFiniteSet(T)
    BY FS_Subset
  <1>2. Adds(f, SUBSET S, F) /\ Adds(g, SUBSET T, G)
    BY <1>1, IterExists
  <1> HIDE DEF F, G
  <1>3. \A s \in SUBSET T : F[s] = Adding(f, F, s) /\ G[s] = Adding(g, G, s)
    BY <1>2 DEF Adds
  <1>4. {} \in Q
    BY <1>3 DEF Adding
  <1>5. ASSUME NEW s \in SUBSET T, s # {}, \A y \in s : s \ {y} \in Q PROVE s \in Q
    <2>1. Chosen(s) \in s
      BY <1>5 DEF Chosen
    <2>2. F[s \ {Chosen(s)}] = G[s \ {Chosen(s)}] /\ f[Chosen(s)] = g[Chosen(s)]
      BY <1>5, <2>1
    <2>3. Adding(f, F, s) = Adding(g, G, s)
      BY <2>2 DEF Adding
    <2> QED BY <1>3, <2>3
  <1>6. T \in Q
    <2> HIDE DEF Q
    <2> QED BY <1>1, <1>4, <1>5, SetInduction
  <1> QED BY <1>6 DEF F, G

-----------------------------------------------------------------------------
(* Sums.                                                                    *)

LEMMA SumOfNone == ASSUME NEW f PROVE SumFunctionOnSet(f, {}) = 0
  <1>1. Adds(f, SUBSET {}, Iter(f, {}))
    BY IterExists, FS_EmptySet
  <1> QED BY <1>1, SumIsIter DEF Adds, Adding

LEMMA SumsAgree ==
    ASSUME NEW S, IsFiniteSet(S), NEW f, NEW g, \A x \in S : f[x] = g[x]
    PROVE  SumFunctionOnSet(f, S) = SumFunctionOnSet(g, S)
  BY IterAgrees, SumIsIter

LEMMA SumOfChosen ==
    ASSUME NEW S, IsFiniteSet(S), S # {}, NEW f
    PROVE  /\ Chosen(S) \in S
           /\ SumFunctionOnSet(f, S) = f[Chosen(S)] + SumFunctionOnSet(f, S \ {Chosen(S)})
  <1>1. Chosen(S) \in S
    BY DEF Chosen
  <1>2. Iter(f, S)[S] = f[Chosen(S)] + Iter(f, S)[S \ {Chosen(S)}]
    <2>1. PICK F : F = Iter(f, S) /\ Adds(f, SUBSET S, F)
      BY IterExists
    <2>2. F = [s \in SUBSET S |-> Adding(f, F, s)]
      BY <2>1 DEF Adds
    <2>3. F[S] = Adding(f, F, S)
      BY <2>2
    <2> QED BY <2>1, <2>3 DEF Adding
  <1>3. Iter(f, S)[S \ {Chosen(S)}] = Iter(f, S \ {Chosen(S)})[S \ {Chosen(S)}]
    BY IterAgrees
  <1> QED BY <1>1, <1>2, <1>3, SumIsIter

LEMMA SumType ==
    ASSUME NEW S, IsFiniteSet(S), NEW f, \A x \in S : f[x] \in Int
    PROVE  SumFunctionOnSet(f, S) \in Int
  <1> DEFINE Q == {s \in SUBSET S : SumFunctionOnSet(f, s) \in Int}
  <1>1. {} \in Q
    BY SumOfNone
  <1>2. ASSUME NEW s \in SUBSET S, s # {}, \A x \in s : s \ {x} \in Q PROVE s \in Q
    <2>1. IsFiniteSet(s)
      BY FS_Subset
    <2>2. PICK x \in s : SumFunctionOnSet(f, s) = f[x] + SumFunctionOnSet(f, s \ {x})
      BY <1>2, <2>1, SumOfChosen
    <2>3. s \ {x} \in Q
      BY <1>2
    <2> QED BY <2>2, <2>3
  <1>3. S \in Q
    <2> HIDE DEF Q
    <2> QED BY <1>1, <1>2, SetInduction
  <1> QED BY <1>3

LEMMA SumWithout ==
    ASSUME NEW S, IsFiniteSet(S), NEW f, \A x \in S : f[x] \in Int, NEW x \in S
    PROVE  SumFunctionOnSet(f, S) = f[x] + SumFunctionOnSet(f, S \ {x})
  <1> DEFINE Sum(s) == SumFunctionOnSet(f, s)
             Q == {s \in SUBSET S : \A y \in s : Sum(s) = f[y] + Sum(s \ {y})}
  <1>0. ASSUME NEW s \in SUBSET S PROVE IsFiniteSet(s) /\ Sum(s) \in Int
    BY FS_Subset, SumType
  <1>1. {} \in Q
    OBVIOUS
  <1>2. ASSUME NEW s \in SUBSET S, s # {}, \A y \in s : s \ {y} \in Q PROVE s \in Q
    <2> SUFFICES ASSUME NEW y \in s PROVE Sum(s) = f[y] + Sum(s \ {y})
      OBVIOUS
    <2> DEFINE c == Chosen(s)
    <2>1. c \in s /\ Sum(s) = f[c] + Sum(s \ {c})
      BY <1>0, <1>2, SumOfChosen
    <2>2. CASE y = c
      BY <2>1, <2>2
    <2>3. CASE y # c
      <3>1. y \in s \ {c} /\ c \in s \ {y}
        BY <2>1, <2>3
      <3>2. s \ {c} \in Q /\ s \ {y} \in Q
        BY <1>2, <2>1
      <3>3. Sum(s \ {c}) = f[y] + Sum((s \ {c}) \ {y})
        BY <3>1, <3>2
      <3>4. Sum(s \ {y}) = f[c] + Sum((s \ {y}) \ {c})
        BY <3>1, <3>2
      <3>5. PICK r \in SUBSET S : r = (s \ {c}) \ {y} /\ r = (s \ {y}) \ {c}
        OBVIOUS
      <3>6. f[c] \in Int /\ f[y] \in Int /\ Sum(r) \in Int
        BY <1>0, <2>1
      <3>7. Sum(s) = f[c] + (f[y] + Sum(r)) /\ Sum(s \ {y}) = f[c] + Sum(r)
        BY <2>1, <3>3, <3>4, <3>5
      <3> HIDE DEF Sum, c
      <3> QED BY <3>6, <3>7
    <2> QED BY <2>2, <2>3
  <1>3. S \in Q
    <2> HIDE DEF Q
    <2> QED BY <1>1, <1>2, SetInduction
  <1> QED BY <1>3

LEMMA SumWith ==
    ASSUME NEW S, IsFiniteSet(S), NEW f, \A y \in S : f[y] \in Int,
           NEW x, x \notin S, f[x] \in Int
    PROVE  SumFunctionOnSet(f, S \cup {x}) = SumFunctionOnSet(f, S) + f[x]
  <1>1. IsFiniteSet(S \cup {x}) /\ (S \cup {x}) \ {x} = S /\ x \in S \cup {x}
    BY FS_AddElement
  <1>2. SumFunctionOnSet(f, S \cup {x}) = f[x] + SumFunctionOnSet(f, (S \cup {x}) \ {x})
    BY <1>1, SumWithout
  <1>3. SumFunctionOnSet(f, S) \in Int
    BY SumType
  <1>4. SumFunctionOnSet(f, S \cup {x}) = f[x] + SumFunctionOnSet(f, S)
    BY <1>1, <1>2
  <1> QED BY <1>3, <1>4

LEMMA SumOfOne ==
    ASSUME NEW f, NEW x, f[x] \in Int
    PROVE  SumFunctionOnSet(f, {x}) = f[x]
  <1>1. SumFunctionOnSet(f, {} \cup {x}) = SumFunctionOnSet(f, {}) + f[x]
    BY FS_EmptySet, SumWith
  <1>2. {} \cup {x} = {x}
    OBVIOUS
  <1> QED BY <1>1, <1>2, SumOfNone

LEMMA SumOfUnion ==
    ASSUME NEW S, IsFiniteSet(S), NEW T, IsFiniteSet(T), S \cap T = {},
           NEW f, \A x \in S \cup T : f[x] \in Int
    PROVE  SumFunctionOnSet(f, S \cup T) = SumFunctionOnSet(f, S) + SumFunctionOnSet(f, T)
  <1> DEFINE Sum(s) == SumFunctionOnSet(f, s)
             Q == {t \in SUBSET T : Sum(S \cup t) = Sum(S) + Sum(t)}
  <1>0. ASSUME NEW t \in SUBSET T
        PROVE  /\ IsFiniteSet(t) /\ IsFiniteSet(S \cup t)
               /\ Sum(t) \in Int /\ Sum(S \cup t) \in Int /\ Sum(S) \in Int
    BY FS_Subset, FS_Union, SumType
  <1>1. {} \in Q
    BY <1>0, SumOfNone
  <1>2. ASSUME NEW t \in SUBSET T, t # {}, \A x \in t : t \ {x} \in Q PROVE t \in Q
    <2>1. PICK x : x \in t
      BY <1>2
    <2>2. Sum(S \cup (t \ {x})) = Sum(S) + Sum(t \ {x})
      BY <1>2, <2>1
    <2>3. Sum(t) = f[x] + Sum(t \ {x})
      BY <1>0, <2>1, SumWithout
    <2>4. Sum(S \cup t) = f[x] + Sum((S \cup t) \ {x})
      BY <1>0, <2>1, SumWithout
    <2>5. (S \cup t) \ {x} = S \cup (t \ {x})
      BY <2>1
    <2>6. t \ {x} \in SUBSET T /\ f[x] \in Int
      BY <2>1
    <2>7. Sum(S) \in Int /\ Sum(t \ {x}) \in Int
      BY <1>0, <2>6
    <2>8. Sum(S \cup t) = Sum(S) + Sum(t)
      <3>1. Sum(S \cup t) = f[x] + (Sum(S) + Sum(t \ {x}))
        BY <2>2, <2>4, <2>5
      <3> HIDE DEF Sum
      <3> QED BY <2>3, <2>6, <2>7, <3>1
    <2> QED BY <2>8
  <1>3. T \in Q
    <2> HIDE DEF Q
    <2> QED BY <1>1, <1>2, SetInduction
  <1> QED BY <1>3

LEMMA SumOfSums ==
    ASSUME NEW S, IsFiniteSet(S), NEW f, NEW g, NEW h,
           \A x \in S : f[x] \in Int /\ g[x] \in Int /\ h[x] = f[x] + g[x]
    PROVE  SumFunctionOnSet(h, S) = SumFunctionOnSet(f, S) + SumFunctionOnSet(g, S)
  <1> DEFINE Q == {s \in SUBSET S : SumFunctionOnSet(h, s)
                      = SumFunctionOnSet(f, s) + SumFunctionOnSet(g, s)}
  <1>0. ASSUME NEW s \in SUBSET S
        PROVE  /\ IsFiniteSet(s) /\ \A x \in S : h[x] \in Int
               /\ SumFunctionOnSet(f, s) \in Int /\ SumFunctionOnSet(g, s) \in Int
    <2>1. IsFiniteSet(s)
      BY FS_Subset
    <2>2. (\A x \in s : f[x] \in Int) /\ (\A x \in s : g[x] \in Int)
      OBVIOUS
    <2> QED BY <2>1, <2>2, SumType
  <1>1. {} \in Q
    BY SumOfNone
  <1>2. ASSUME NEW s \in SUBSET S, s # {}, \A x \in s : s \ {x} \in Q PROVE s \in Q
    <2>1. PICK x : x \in s
      BY <1>2
    <2>2. s \ {x} \in SUBSET S /\ s \ {x} \in Q
      BY <1>2, <2>1
    <2>3. SumFunctionOnSet(f, s) = f[x] + SumFunctionOnSet(f, s \ {x})
      BY <1>0, <2>1, SumWithout
    <2>4. SumFunctionOnSet(g, s) = g[x] + SumFunctionOnSet(g, s \ {x})
      BY <1>0, <2>1, SumWithout
    <2>5. SumFunctionOnSet(h, s) = h[x] + SumFunctionOnSet(h, s \ {x})
      BY <1>0, <2>1, SumWithout
    <2> QED BY <1>0, <2>1, <2>2, <2>3, <2>4, <2>5
  <1>3. S \in Q
    <2> HIDE DEF Q
    <2> QED BY <1>1, <1>2, SetInduction
  <1> QED BY <1>3

LEMMA SumOfZeros ==
    ASSUME NEW S, IsFiniteSet(S), NEW f, \A x \in S : f[x] = 0
    PROVE  SumFunctionOnSet(f, S) = 0
  <1> DEFINE Q == {s \in SUBSET S : SumFunctionOnSet(f, s) = 0}
  <1>1. {} \in Q
    BY SumOfNone
  <1>2. ASSUME NEW s \in SUBSET S, s # {}, \A x \in s : s \ {x} \in Q PROVE s \in Q
    <2>1. IsFiniteSet(s)
      BY FS_Subset
    <2>2. PICK x \in s : SumFunctionOnSet(f, s) = f[x] + SumFunctionOnSet(f, s \ {x})
      BY <1>2, <2>1, SumOfChosen
    <2>3. s \ {x} \in Q
      BY <1>2
    <2> QED BY <2>2, <2>3
  <1>3. S \in Q
    <2> HIDE DEF Q
    <2> QED BY <1>1, <1>2, SetInduction
  <1> QED BY <1>3

\* A sum of what is not negative.
LEMMA SumOfNats ==
    ASSUME NEW S, IsFiniteSet(S), NEW f, \A x \in S : f[x] \in Nat
    PROVE  SumFunctionOnSet(f, S) \in Nat
  <1> DEFINE Q == {s \in SUBSET S : SumFunctionOnSet(f, s) \in Nat}
  <1>1. {} \in Q
    BY SumOfNone
  <1>2. ASSUME NEW s \in SUBSET S, s # {}, \A x \in s : s \ {x} \in Q PROVE s \in Q
    <2>1. IsFiniteSet(s)
      BY FS_Subset
    <2>2. PICK x \in s : SumFunctionOnSet(f, s) = f[x] + SumFunctionOnSet(f, s \ {x})
      BY <1>2, <2>1, SumOfChosen
    <2>3. s \ {x} \in Q
      BY <1>2
    <2> QED BY <2>2, <2>3
  <1>3. S \in Q
    <2> HIDE DEF Q
    <2> QED BY <1>1, <1>2, SetInduction
  <1> QED BY <1>3

-----------------------------------------------------------------------------
(* Sums over the pairs of two sets of a function of two arguments.          *)

Across(c, a, b) == SumFunctionOnSet([i \in a |-> SumFunctionOnSet(c[i], b)], a)

LEMMA AcrossType ==
    ASSUME NEW U, IsFiniteSet(U), NEW c, \A i, j \in U : c[i][j] \in Nat,
           NEW a \in SUBSET U, NEW b \in SUBSET U
    PROVE  Across(c, a, b) \in Nat /\ \A i \in U : SumFunctionOnSet(c[i], b) \in Nat
  <1>1. IsFiniteSet(a) /\ IsFiniteSet(b)
    BY FS_Subset
  <1>2. ASSUME NEW i \in U PROVE SumFunctionOnSet(c[i], b) \in Nat
    <2>1. \A j \in b : c[i][j] \in Nat
      OBVIOUS
    <2> QED BY <1>1, <2>1, SumOfNats
  <1>3. \A i \in a : [k \in a |-> SumFunctionOnSet(c[k], b)][i] \in Nat
    BY <1>2
  <1> QED BY <1>1, <1>2, <1>3, SumOfNats DEF Across

LEMMA AcrossNone ==
    ASSUME NEW c, NEW b, IsFiniteSet(b)
    PROVE  Across(c, {}, b) = 0 /\ Across(c, b, {}) = 0
  <1>1. Across(c, {}, b) = 0
    BY SumOfNone DEF Across
  <1>2. \A i \in b : [k \in b |-> SumFunctionOnSet(c[k], {})][i] = 0
    BY SumOfNone
  <1> QED BY <1>1, <1>2, SumOfZeros DEF Across

LEMMA AcrossLeft ==
    ASSUME NEW U, IsFiniteSet(U), NEW c, \A i, j \in U : c[i][j] \in Nat,
           NEW a \in SUBSET U, NEW d \in SUBSET U, NEW b \in SUBSET U, a \cap d = {}
    PROVE  Across(c, a \cup d, b) = Across(c, a, b) + Across(c, d, b)
  <1> DEFINE f(s) == [i \in s |-> SumFunctionOnSet(c[i], b)]
  <1>1. IsFiniteSet(a) /\ IsFiniteSet(d)
    BY FS_Subset
  <1>2. \A i \in U : SumFunctionOnSet(c[i], b) \in Nat
    BY AcrossType
  <1>3. SumFunctionOnSet(f(a \cup d), a \cup d)
        = SumFunctionOnSet(f(a \cup d), a) + SumFunctionOnSet(f(a \cup d), d)
    <2>1. \A i \in a \cup d : f(a \cup d)[i] \in Int
      BY <1>2
    <2> HIDE DEF f
    <2> QED BY <1>1, <2>1, SumOfUnion
  <1>4. ASSUME NEW s \in SUBSET (a \cup d), IsFiniteSet(s)
        PROVE  SumFunctionOnSet(f(a \cup d), s) = SumFunctionOnSet(f(s), s)
    <2>1. \A i \in s : f(a \cup d)[i] = f(s)[i]
      OBVIOUS
    <2> HIDE DEF f
    <2> QED BY <1>4, <2>1, SumsAgree
  <1>5. /\ SumFunctionOnSet(f(a \cup d), a) = SumFunctionOnSet(f(a), a)
        /\ SumFunctionOnSet(f(a \cup d), d) = SumFunctionOnSet(f(d), d)
    <2> HIDE DEF f
    <2> QED BY <1>1, <1>4
  <1> QED BY <1>3, <1>5 DEF Across

LEMMA AcrossOne ==
    ASSUME NEW U, IsFiniteSet(U), NEW c, \A i, j \in U : c[i][j] \in Nat,
           NEW b \in SUBSET U, NEW x \in U
    PROVE  /\ Across(c, {x}, b) = SumFunctionOnSet(c[x], b)
           /\ (\A i \in U : c[i][x] = c[x][i]) => Across(c, b, {x}) = SumFunctionOnSet(c[x], b)
  <1>0. IsFiniteSet(b) /\ SumFunctionOnSet(c[x], b) \in Nat
    BY AcrossType, FS_Subset
  <1>1. Across(c, {x}, b) = SumFunctionOnSet(c[x], b)
    <2> DEFINE f == [i \in {x} |-> SumFunctionOnSet(c[i], b)]
    <2>1. f[x] = SumFunctionOnSet(c[x], b) /\ f[x] \in Int
      BY <1>0
    <2>2. SumFunctionOnSet(f, {x}) = f[x]
      <3> HIDE DEF f
      <3> QED BY <2>1, SumOfOne
    <2> QED BY <2>1, <2>2 DEF Across
  <1>2. ASSUME \A i \in U : c[i][x] = c[x][i]
        PROVE  Across(c, b, {x}) = SumFunctionOnSet(c[x], b)
    <2> DEFINE f == [i \in b |-> SumFunctionOnSet(c[i], {x})]
    <2>1. ASSUME NEW i \in b PROVE f[i] = c[x][i]
      <3>1. c[i][x] \in Int
        OBVIOUS
      <3>2. SumFunctionOnSet(c[i], {x}) = c[i][x]
        BY <3>1, SumOfOne
      <3> QED BY <1>2, <3>2
    <2>2. SumFunctionOnSet(f, b) = SumFunctionOnSet(c[x], b)
      <3> HIDE DEF f
      <3> QED BY <1>0, <2>1, SumsAgree
    <2> QED BY <2>2 DEF Across
  <1> QED BY <1>1, <1>2

\* The order of summation does not matter.
LEMMA AcrossSymmetric ==
    ASSUME NEW U, IsFiniteSet(U), NEW c,
           \A i, j \in U : c[i][j] \in Nat /\ c[i][j] = c[j][i],
           NEW a \in SUBSET U, NEW b \in SUBSET U
    PROVE  Across(c, a, b) = Across(c, b, a)
  <1> DEFINE Q == {s \in SUBSET a : Across(c, s, b) = Across(c, b, s)}
  <1>0. IsFiniteSet(a) /\ IsFiniteSet(b)
    BY FS_Subset
  <1>1. {} \in Q
    BY <1>0, AcrossNone
  <1>2. ASSUME NEW s \in SUBSET a, s # {}, \A x \in s : s \ {x} \in Q PROVE s \in Q
    <2>1. PICK x \in U : x \in s
      BY <1>2
    <2> DEFINE t == s \ {x}
    <2>2. /\ t \in SUBSET U /\ {x} \in SUBSET U /\ t \cap {x} = {} /\ s = t \cup {x}
          /\ Across(c, t, b) = Across(c, b, t)
      BY <1>2, <2>1
    <2>3. Across(c, s, b) = Across(c, t, b) + SumFunctionOnSet(c[x], b)
      <3>1. Across(c, t \cup {x}, b) = Across(c, t, b) + Across(c, {x}, b)
        <4> HIDE DEF t
        <4> QED BY <2>2, AcrossLeft
      <3>2. Across(c, {x}, b) = SumFunctionOnSet(c[x], b)
        BY AcrossOne
      <3> HIDE DEF t
      <3> QED BY <2>2, <3>1, <3>2
    <2>4. Across(c, b, s) = Across(c, b, t) + SumFunctionOnSet(c[x], b)
      <3> DEFINE f(r) == [i \in b |-> SumFunctionOnSet(c[i], r)]
      <3>1. IsFiniteSet(t) /\ IsFiniteSet({x})
        BY <2>2, FS_Subset
      <3>2. ASSUME NEW i \in b
            PROVE  /\ f(s)[i] = f(t)[i] + f({x})[i]
                   /\ f(t)[i] \in Int /\ f({x})[i] \in Int
        <4>1. \A j \in t \cup {x} : c[i][j] \in Int
          BY <2>2
        <4>2. SumFunctionOnSet(c[i], t \cup {x})
              = SumFunctionOnSet(c[i], t) + SumFunctionOnSet(c[i], {x})
          <5> HIDE DEF t
          <5> QED BY <2>2, <3>1, <4>1, SumOfUnion
        <4>3. SumFunctionOnSet(c[i], t) \in Nat /\ SumFunctionOnSet(c[i], {x}) \in Nat
          <5> HIDE DEF t
          <5> QED BY <2>2, AcrossType
        <4> QED BY SMTT(30), <2>2, <4>2, <4>3
      <3>3. SumFunctionOnSet(f(s), b)
            = SumFunctionOnSet(f(t), b) + SumFunctionOnSet(f({x}), b)
        <4> HIDE DEF f, t
        <4> QED BY <1>0, <3>2, SumOfSums
      <3>4. Across(c, b, {x}) = SumFunctionOnSet(c[x], b)
        BY <2>1, AcrossOne
      <3> QED BY <3>3, <3>4 DEF Across
    <2> QED BY <2>2, <2>3, <2>4
  <1>3. a \in Q
    <2> HIDE DEF Q
    <2> QED BY <1>0, <1>1, <1>2, SetInduction
  <1> QED BY <1>3

LEMMA AcrossRight ==
    ASSUME NEW U, IsFiniteSet(U), NEW c,
           \A i, j \in U : c[i][j] \in Nat /\ c[i][j] = c[j][i],
           NEW a \in SUBSET U, NEW d \in SUBSET U, NEW b \in SUBSET U, a \cap d = {}
    PROVE  Across(c, b, a \cup d) = Across(c, b, a) + Across(c, b, d)
  <1>1. Across(c, a \cup d, b) = Across(c, a, b) + Across(c, d, b)
    BY AcrossLeft
  <1>2. a \cup d \in SUBSET U
    OBVIOUS
  <1> QED BY <1>1, <1>2, AcrossSymmetric

-----------------------------------------------------------------------------
(* Folds over sequences.  They are defined by recursion over sets of       *)
(* places; each has a solution if the step of the fold keeps a type.       *)

Folding(g, base, F, s) == IF s = {} THEN base ELSE g[Max(s)][F[s \ {Max(s)}]]

FoldsOn(g, base, D, F) == F = [s \in D |-> Folding(g, base, F, s)]

LEMMA FoldExists ==
    ASSUME NEW n \in Nat, NEW A, NEW base \in A,
           NEW g, \A i \in 1 .. n, a \in A : g[i][a] \in A
    PROVE  \E F : FoldsOn(g, base, SUBSET (1 .. n), F)
                  /\ \A s \in SUBSET (1 .. n) : F[s] \in A
  <1> DEFINE S == 1 .. n
             Q == {m \in Nat : \E F : FoldsOn(g, base, UpTo(S, m), F)
                                      /\ \A s \in UpTo(S, m) : F[s] \in A}
  <1>0. IsFiniteSet(S) /\ S \in SUBSET Int
    BY FS_Interval
  <1>g. \A i \in S, a \in A : g[i][a] \in A
    OBVIOUS
  <1> HIDE DEF S
  <1>a. ASSUME NEW s \in SUBSET S
        PROVE  /\ IsFiniteSet(s) /\ Cardinality(s) \in Nat
               /\ Cardinality(s) = 0 => s = {}
               /\ s # {} => Max(s) \in s /\ Max(s) \in S
               /\ \A x \in s : Cardinality(s \ {x}) = Cardinality(s) - 1
    <2>1. s \in SUBSET Int /\ IsFiniteSet(s)
      BY <1>0, FS_Subset
    <2>2. s # {} => Max(s) \in s
      BY <2>1, GreatestOfInts
    <2> QED
      BY <2>1, <2>2, FS_CardinalityType, FS_EmptySet, FS_RemoveElement
  <1>1. 0 \in Q
    <2> DEFINE F == [s \in UpTo(S, 0) |-> base]
    <2>1. \A s \in UpTo(S, 0) : s = {}
      BY <1>a DEF UpTo
    <2>2. FoldsOn(g, base, UpTo(S, 0), F)
      BY <2>1 DEF FoldsOn, Folding
    <2>3. \A s \in UpTo(S, 0) : F[s] \in A
      OBVIOUS
    <2> QED BY <2>2, <2>3
  <1>2. ASSUME NEW m \in Nat, m \in Q PROVE m + 1 \in Q
    <2>1. PICK F : FoldsOn(g, base, UpTo(S, m), F) /\ \A s \in UpTo(S, m) : F[s] \in A
      BY <1>2
    <2> DEFINE G == [s \in UpTo(S, m + 1) |-> Folding(g, base, F, s)]
    <2>2. ASSUME NEW s \in UpTo(S, m + 1)
          PROVE  Folding(g, base, F, s) = Folding(g, base, G, s) /\ G[s] \in A
      <3>1. CASE s = {}
        BY <3>1 DEF Folding
      <3>2. CASE s # {}
        <4> DEFINE t == s \ {Max(s)}
        <4>1. t \in UpTo(S, m) /\ t \in UpTo(S, m + 1) /\ Max(s) \in S
          BY <1>a, <3>2 DEF UpTo
        <4>2. F[t] = Folding(g, base, F, t) /\ F[t] \in A
          BY <2>1, <4>1 DEF FoldsOn
        <4>3. G[t] = Folding(g, base, F, t)
          BY <4>1
        <4>4. g[Max(s)][F[t]] \in A
          BY <1>g, <4>1, <4>2
        <4> QED BY <3>2, <4>2, <4>3, <4>4 DEF Folding
      <3> QED BY <3>1, <3>2
    <2>3. FoldsOn(g, base, UpTo(S, m + 1), G)
      <3>1. G = [s \in UpTo(S, m + 1) |-> Folding(g, base, G, s)]
        BY <2>2
      <3> HIDE DEF G
      <3> QED BY <3>1 DEF FoldsOn
    <2>4. \A s \in UpTo(S, m + 1) : G[s] \in A
      BY <2>2
    <2> QED BY <2>3, <2>4
  <1>3. Nat \subseteq Q
    <2> HIDE DEF Q
    <2> QED BY <1>1, <1>2, CountingInduction
  <1>4. Cardinality(S) \in Nat
    BY <1>a
  <1>5. \E F : FoldsOn(g, base, UpTo(S, Cardinality(S)), F)
               /\ \A s \in UpTo(S, Cardinality(S)) : F[s] \in A
    BY <1>3, <1>4
  <1>6. UpTo(S, Cardinality(S)) = SUBSET S
    BY <1>0, FS_Subset DEF UpTo
  <1> QED BY <1>5, <1>6 DEF S

LEMMA LastPlace ==
    ASSUME NEW k \in Nat \ {0}
    PROVE  Max(1 .. k) = k /\ (1 .. k) \ {k} = 1 .. (k - 1) /\ 1 .. k # {}
  <1> DEFINE S == 1 .. k
  <1>a. k \in S /\ \A x \in S : x \in Int /\ x <= k
    OBVIOUS
  <1>1. S \in SUBSET Int /\ k \in S /\ \A x \in S : x \in Int /\ x <= k
    <2> HIDE DEF S
    <2> QED BY <1>a
  <1>b. 1 \in Int /\ k \in Int
    OBVIOUS
  <1>c. IsFiniteSet(S)
    BY <1>b, FS_Interval
  <1>0. IsFiniteSet(S) /\ S # {}
    BY <1>a, <1>c
  <1>2. Max(S) = k
    <2> HIDE DEF S
    <2>1. Max(S) \in S /\ k <= Max(S)
      BY <1>0, <1>1, GreatestOfInts
    <2>2. Max(S) \in Int /\ Max(S) <= k /\ k \in Int
      BY <1>1, <2>1
    <2> QED BY <2>1, <2>2
  <1>3. S \ {k} = 1 .. (k - 1)
    OBVIOUS
  <1> QED BY <1>0, <1>2, <1>3

LEMMA PlacesFinite ==
    ASSUME NEW n \in Nat
    PROVE  /\ IsFiniteSet(1 .. n)
           /\ \A s \in SUBSET (1 .. n) : s # {} => Max(s) \in s /\ Max(s) \in 1 .. n
  <1>1. IsFiniteSet(1 .. n)
    BY FS_Interval
  <1>2. ASSUME NEW s \in SUBSET (1 .. n), s # {} PROVE Max(s) \in s
    <2>1. IsFiniteSet(s)
      BY <1>1, FS_Subset
    <2>2. \A x \in s : x \in Int
      OBVIOUS
    <2>3. s \in SUBSET Int
      BY <2>2
    <2> QED BY <1>2, <2>1, <2>3, GreatestOfInts
  <1> QED BY <1>1, <1>2

\* A fold is done place by place: H tells what there is after each.
Foldable(n, A, base, g) ==
    n \in Nat /\ base \in A /\ \A i \in 1 .. n, a \in A : g[i][a] \in A

Unfolds(n, A, base, g, H) ==
    /\ H \in [0 .. n -> A]
    /\ H[0] = base
    /\ \A i \in 1 .. n : H[i] = g[i][H[i - 1]]

Folded(n, A, base, g, G) ==
    /\ G[{}] = base
    /\ \A s \in SUBSET (1 .. n) :
          s # {} /\ G[s \ {Max(s)}] \in A => G[s] = g[Max(s)][G[s \ {Max(s)}]]

LEMMA FoldWalk ==
    ASSUME NEW n, NEW A, NEW base, NEW g, NEW G,
           Foldable(n, A, base, g), Folded(n, A, base, g, G)
    PROVE  \E H : Unfolds(n, A, base, g, H) /\ H[n] = G[1 .. n]
  <1> DEFINE H == [i \in 0 .. n |-> G[1 .. i]]
             Q == {m \in Nat : m <= n => G[1 .. m] \in A}
  <1>0. n \in Nat /\ base \in A /\ \A i \in 1 .. n, a \in A : g[i][a] \in A
    BY DEF Foldable
  <1>1. ASSUME NEW i \in 1 .. n, G[1 .. (i - 1)] \in A
        PROVE  G[1 .. i] = g[i][G[1 .. (i - 1)]] /\ G[1 .. i] \in A
    <2>1. i \in Nat \ {0}
      BY <1>0
    <2>2. Max(1 .. i) = i /\ (1 .. i) \ {i} = 1 .. (i - 1) /\ 1 .. i # {}
      BY <2>1, LastPlace
    <2>3. 1 .. i \in SUBSET (1 .. n)
      BY <1>0
    <2> DEFINE s == 1 .. i
    <2>4. s # {} /\ Max(s) = i /\ s \ {i} = 1 .. (i - 1) /\ s \in SUBSET (1 .. n)
      BY <2>2, <2>3
    <2> HIDE DEF s
    <2>5. G[s] = g[Max(s)][G[s \ {Max(s)}]]
      BY <1>1, <2>4 DEF Folded
    <2>6. G[s] = g[i][G[1 .. (i - 1)]]
      BY <2>4, <2>5
    <2> QED BY <1>0, <1>1, <2>6 DEF s
  <1>2. 1 .. 0 = {}
    OBVIOUS
  <1>3. 0 \in Q
    BY <1>0, <1>2 DEF Folded
  <1>4. ASSUME NEW m \in Nat, m \in Q PROVE m + 1 \in Q
    <2>1. CASE m + 1 <= n
      <3>1. m + 1 \in 1 .. n /\ m + 1 - 1 = m /\ G[1 .. m] \in A
        BY <1>0, <1>4, <2>1
      <3>2. G[1 .. (m + 1)] \in A
        BY <1>1, <3>1
      <3> QED BY <3>2
    <2> QED BY <2>1
  <1>5. Nat \subseteq Q
    <2> HIDE DEF Q
    <2> QED BY <1>3, <1>4, CountingInduction
  <1>6. \A i \in 0 .. n : G[1 .. i] \in A
    BY <1>0, <1>5
  <1>7. H \in [0 .. n -> A] /\ H[0] = base /\ H[n] = G[1 .. n]
    BY <1>0, <1>2, <1>6 DEF Folded
  <1>8. ASSUME NEW i \in 1 .. n PROVE H[i] = g[i][H[i - 1]]
    <2>1. i \in 0 .. n /\ i - 1 \in 0 .. n
      BY <1>0
    <2>2. G[1 .. i] = g[i][G[1 .. (i - 1)]]
      BY <1>1, <1>6, <2>1
    <2> QED BY <2>1, <2>2
  <1> QED
    <2> HIDE DEF H
    <2> QED BY <1>7, <1>8 DEF Unfolds

\* What holds before a walk and survives each of its steps holds after each of them.
LEMMA WalkInduction ==
    ASSUME NEW n \in Nat, NEW Q, 0 \in Q, \A i \in 1 .. n : i - 1 \in Q => i \in Q
    PROVE  \A i \in 0 .. n : i \in Q
  <1> DEFINE R == {m \in Nat : m <= n => m \in Q}
  <1>1. 0 \in R
    OBVIOUS
  <1>2. ASSUME NEW m \in Nat, m \in R PROVE m + 1 \in R
    <2>1. CASE m + 1 <= n
      <3>1. m + 1 \in 1 .. n /\ (m + 1) - 1 = m /\ m \in Q
        BY <1>2, <2>1
      <3> QED BY <3>1
    <2> QED BY <2>1
  <1>3. Nat \subseteq R
    <2> HIDE DEF R
    <2> QED BY <1>1, <1>2, CountingInduction
  <1> QED BY <1>3

LEMMA WalkExists ==
    ASSUME NEW n, NEW A, NEW base, NEW g, Foldable(n, A, base, g)
    PROVE  \E H : Unfolds(n, A, base, g, H)
  <1>0. n \in Nat /\ base \in A /\ \A i \in 1 .. n, a \in A : g[i][a] \in A
    BY DEF Foldable
  <1>1. PICK F : /\ FoldsOn(g, base, SUBSET (1 .. n), F)
                 /\ \A s \in SUBSET (1 .. n) : F[s] \in A
    BY <1>0, FoldExists
  <1> DEFINE D == SUBSET (1 .. n)
  <1>2. F = [s \in D |-> Folding(g, base, F, s)]
    BY <1>1 DEF FoldsOn
  <1>3. {} \in D
    OBVIOUS
  <1> HIDE DEF D
  <1>4. F[{}] = base
    BY <1>2, <1>3 DEF Folding
  <1>5. \A s \in D : s # {} => F[s] = g[Max(s)][F[s \ {Max(s)}]]
    BY <1>2 DEF Folding
  <1>6. Folded(n, A, base, g, F)
    BY <1>4, <1>5 DEF D, Folded
  <1> QED BY <1>6, FoldWalk

\* A sequence which is folded over walks the solution of the fold.
LEMMA FoldedBy ==
    ASSUME NEW n, NEW A, NEW base, NEW g, Foldable(n, A, base, g)
    PROVE  \E F : FoldsOn(g, base, SUBSET (1 .. n), F)
                  /\ \A s \in SUBSET (1 .. n) : F[s] \in A
  <1>0. n \in Nat /\ base \in A /\ \A i \in 1 .. n, a \in A : g[i][a] \in A
    BY DEF Foldable
  <1> QED BY <1>0, FoldExists

=============================================================================
