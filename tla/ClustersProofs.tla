--------------------------- MODULE ClustersProofs ---------------------------
(***************************************************************************)
(* The clustering of module Clusters merges as GreedyClusters says it      *)
(* does, on every graph and whatever is asked for: the entries that have   *)
(* gone stale in its heap, the weights, the degrees and the number of      *)
(* parts it keeps never make it merge, or end, otherwise.                  *)
(***************************************************************************)
EXTENDS Clusters, Sums, SequenceTheorems

-----------------------------------------------------------------------------
(* What is partitioned. *)

Unit == 1 .. N

\* The coupling of units is a symmetric matrix.
SymmetricOn(c, U) ==
    /\ c \in [U -> [U -> Nat]]
    /\ \A i, j \in U : c[i][j] = c[j][i]

RequestInv ==
    /\ N \in Nat
    /\ SymmetricOn(request.coupling, Unit)
    /\ request.option \in Option

\* What is between two sets of units.
W(a, b) == Across(request.coupling, a, b)

LEMMA UnitsFinite ==
    ASSUME RequestInv
    PROVE  /\ IsFiniteSet(Unit) /\ Cardinality(Unit) = N
           /\ DOMAIN request.coupling = Unit
           /\ \A i \in Unit : DOMAIN request.coupling[i] = Unit
           /\ \A i, j \in Unit : request.coupling[i][j] \in Nat
           /\ \A i, j \in Unit : /\ request.coupling[i][j] \in Nat
                                 /\ request.coupling[i][j] = request.coupling[j][i]
<1>1. IsFiniteSet(Unit) /\ Cardinality(Unit) = N
    BY FS_Interval DEF Unit, RequestInv
<1> QED BY <1>1 DEF RequestInv, SymmetricOn

LEMMA WType ==
    ASSUME RequestInv, NEW a \in SUBSET Unit, NEW b \in SUBSET Unit
    PROVE  W(a, b) \in Nat /\ W(a, b) = W(b, a)
<1>1. Across(request.coupling, a, b) \in Nat
    BY UnitsFinite, AcrossType
<1>2. Across(request.coupling, a, b) = Across(request.coupling, b, a)
    BY UnitsFinite, AcrossSymmetric
<1> QED BY <1>1, <1>2 DEF W

LEMMA WUnion ==
    ASSUME RequestInv, NEW a \in SUBSET Unit, NEW d \in SUBSET Unit, NEW b \in SUBSET Unit,
           a \cap d = {}
    PROVE  /\ W(a \cup d, b) = W(a, b) + W(d, b)
           /\ W(b, a \cup d) = W(b, a) + W(b, d)
<1>1. Across(request.coupling, a \cup d, b)
      = Across(request.coupling, a, b) + Across(request.coupling, d, b)
    BY UnitsFinite, AcrossLeft
<1>2. Across(request.coupling, b, a \cup d)
      = Across(request.coupling, b, a) + Across(request.coupling, b, d)
    BY UnitsFinite, AcrossRight
<1> QED BY <1>1, <1>2 DEF W

LEMMA WNone ==
    ASSUME RequestInv, NEW b \in SUBSET Unit
    PROVE  W({}, b) = 0 /\ W(b, {}) = 0
<1>1. IsFiniteSet(b)
    BY UnitsFinite, FS_Subset
<1> QED BY <1>1, AcrossNone DEF W

\* The total weight, as it is figured here and by GreedyClusters.
LEMMA TotalIs ==
    ASSUME RequestInv
    PROVE  Total = W(Unit, Unit) /\ Total \in Nat
<1>1. \A i \in Unit : DOMAIN request.coupling[i] = Unit
    BY UnitsFinite
<1>2. [i \in Unit |-> UnitDegree(i)]
      = [i \in Unit |-> SumFunctionOnSet(request.coupling[i], Unit)]
    BY <1>1 DEF UnitDegree, SumFunction
<1>3. DOMAIN [i \in Unit |-> SumFunctionOnSet(request.coupling[i], Unit)] = Unit
    OBVIOUS
<1>4. Total = W(Unit, Unit)
    BY <1>2, <1>3 DEF Total, SumFunction, W, Across, Unit
<1> QED BY <1>4, WType

-----------------------------------------------------------------------------
(* What is so of the state of a run. *)

EntryType == [a : Unit, b : Unit, gain : Int, ga : Nat, gb : Nat]

StateType(c) ==
    /\ c.of \in [Unit -> Unit]
    /\ c.members \in [Unit -> SUBSET Unit]
    /\ c.degree \in [Unit -> Nat]
    /\ c.generation \in [Unit -> Nat]
    /\ c.near \in [Unit -> SUBSET Unit]
    /\ c.heap \in SUBSET EntryType /\ IsFiniteSet(c.heap)
    /\ c.left \in Nat /\ c.steps \in Nat

\* No unit is in two parts.
Parted(c) == \A x, y \in Unit : x # y => c.members[x] \cap c.members[y] = {}

Between(c, x, y) == W(c.members[x], c.members[y])

Touch(c, x, y) == x # y /\ Between(c, x, y) > 0

Weighed(c) ==
    /\ \A x, y \in Unit : Touch(c, x, y) => /\ {x, y} \in DOMAIN c.weight
                                            /\ c.weight[{x, y}] = Between(c, x, y)
    /\ \A p \in DOMAIN c.weight : \E x, y \in Unit : p = {x, y} /\ Touch(c, x, y)

\* The running sums are what they would be if figured anew.
Figured(c) ==
    /\ \A x \in Unit : c.degree[x] = W(c.members[x], Unit)
    /\ \A x, y \in Unit : y \in c.near[x] <=> Touch(c, x, y)
    /\ Weighed(c)

FreshIn(c, e) == c.generation[e.a] = e.ga /\ c.generation[e.b] = e.gb

\* An entry which is not stale tells of two parts that touch, and what joining them gains;
\* one that is stale has been outdated for good.
EntryRight(c, e) ==
    /\ e.a < e.b /\ e.ga <= c.generation[e.a] /\ e.gb <= c.generation[e.b]
    /\ FreshIn(c, e) =>
          /\ Touch(c, e.a, e.b)
          /\ e.gain = Gain(Between(c, e.a, e.b), c.degree[e.a], c.degree[e.b])

\* And all parts that touch have one.
HeapWhole(c) ==
    \A x, y \in Unit :
        x < y /\ Touch(c, x, y) => \E e \in c.heap : e.a = x /\ e.b = y /\ FreshIn(c, e)

LiveIn(c) == {x \in Unit : c.members[x] # {}}

Counted(c) ==
    /\ c.left = Cardinality(LiveIn(c))
    /\ ~Forced => c.steps + c.left = N

StateRight(c) ==
    /\ StateType(c) /\ Parted(c) /\ Figured(c) /\ HeapWhole(c) /\ Counted(c)
    /\ \A e \in c.heap : EntryRight(c, e)

AimType == [k : Nat \cup {NoK}, gamma : Int, last : BOOLEAN]

ResultType == [gamma : Int, k : Nat, quality : Int]

AimInv == aim \in AimType

ClustersInv ==
    /\ RequestInv /\ AimInv /\ StateRight(cnm)
    /\ later \in Seq(AimType)
    /\ sweep \in Seq(ResultType)

LEMMA GainType ==
    ASSUME RequestInv, AimInv, NEW e \in Int, NEW x \in Int, NEW y \in Int
    PROVE  Gain(e, x, y) \in Int /\ Gain(e, x, y) = Gain(e, y, x)
<1>1. Total \in Int
    BY TotalIs
<1>2. PICK g, t : g = aim.gamma /\ t = Total /\ g \in Int /\ t \in Int
    BY <1>1 DEF AimInv, AimType
<1>3. 20 * e * t - g * x * y \in Int /\ 20 * e * t - g * x * y = 20 * e * t - g * y * x
    BY <1>2
<1> QED BY <1>2, <1>3 DEF Gain

-----------------------------------------------------------------------------
(* A merge keeps it so. *)

Joining(c, a, b) ==
    /\ a \in Unit /\ b \in Unit /\ a # b
    /\ c.members[a] # {} /\ c.members[b] # {}

\* The other parts keep their members.
LEMMA MergedMembers ==
    ASSUME RequestInv, NEW c, StateRight(c), NEW a, NEW b, Joining(c, a, b),
           NEW heap, NEW steps, NEW d, d = Merged(c, a, b, heap, steps)
    PROVE  /\ d.members \in [Unit -> SUBSET Unit] /\ Parted(d)
           /\ d.members[a] = c.members[a] \cup c.members[b] /\ d.members[b] = {}
           /\ \A x \in Unit \ {a, b} : d.members[x] = c.members[x]
<1>1. d.members = [c.members EXCEPT ![a] = @ \cup c.members[b], ![b] = {}]
    BY DEF Merged
<1>2. /\ c.members \in [Unit -> SUBSET Unit] /\ a \in Unit /\ b \in Unit /\ a # b
      /\ \A x, y \in Unit : x # y => c.members[x] \cap c.members[y] = {}
    BY DEF StateRight, StateType, Parted, Joining
<1>3. /\ d.members \in [Unit -> SUBSET Unit]
      /\ d.members[a] = c.members[a] \cup c.members[b] /\ d.members[b] = {}
      /\ \A x \in Unit \ {a, b} : d.members[x] = c.members[x]
    BY <1>1, <1>2
<1>4. ASSUME NEW x \in Unit, NEW y \in Unit, x # y
      PROVE  d.members[x] \cap d.members[y] = {}
    <2>1. CASE x = b \/ y = b
        BY <1>3, <2>1
    <2>2. CASE x = a /\ y # b
        <3>1. y \in Unit \ {a, b} /\ d.members[y] = c.members[y]
            BY <1>3, <1>4, <2>2
        <3> QED BY <1>2, <1>3, <1>4, <2>2, <3>1
    <2>3. CASE y = a /\ x # b
        <3>1. x \in Unit \ {a, b} /\ d.members[x] = c.members[x]
            BY <1>3, <1>4, <2>3
        <3> QED BY <1>2, <1>3, <1>4, <2>3, <3>1
    <2>4. CASE x \notin {a, b} /\ y \notin {a, b}
        BY <1>2, <1>3, <1>4, <2>4
    <2> QED BY <2>1, <2>2, <2>3, <2>4
<1> QED BY <1>3, <1>4 DEF Parted

\* What is between the joined part and another is the sum of what was between both and it.
LEMMA MergedBetween ==
    ASSUME RequestInv, NEW c, StateRight(c), NEW a, NEW b, Joining(c, a, b),
           NEW heap, NEW steps, NEW d, d = Merged(c, a, b, heap, steps)
    PROVE  /\ \A x, y \in Unit \ {a, b} : Between(d, x, y) = Between(c, x, y)
           /\ \A x \in Unit \ {a, b} :
                 /\ Between(d, a, x) = Between(c, a, x) + Between(c, b, x)
                 /\ Between(d, x, a) = Between(c, a, x) + Between(c, b, x)
           /\ \A x \in Unit : Between(d, b, x) = 0 /\ Between(d, x, b) = 0
           /\ W(d.members[a], Unit) = W(c.members[a], Unit) + W(c.members[b], Unit)
           /\ W(d.members[b], Unit) = 0
<1>1. /\ d.members \in [Unit -> SUBSET Unit]
      /\ d.members[a] = c.members[a] \cup c.members[b] /\ d.members[b] = {}
      /\ \A x \in Unit \ {a, b} : d.members[x] = c.members[x]
    BY MergedMembers
<1>2. /\ c.members \in [Unit -> SUBSET Unit] /\ a \in Unit /\ b \in Unit /\ a # b
      /\ c.members[a] \cap c.members[b] = {}
    BY DEF StateRight, StateType, Parted, Joining
<1>3. \A x, y \in Unit \ {a, b} : Between(d, x, y) = Between(c, x, y)
    BY <1>1 DEF Between
<1>4. ASSUME NEW x \in Unit \ {a, b}
      PROVE  /\ Between(d, a, x) = Between(c, a, x) + Between(c, b, x)
             /\ Between(d, x, a) = Between(c, a, x) + Between(c, b, x)
    <2>1. PICK A \in SUBSET Unit, B \in SUBSET Unit, X \in SUBSET Unit :
              /\ A = c.members[a] /\ B = c.members[b] /\ X = c.members[x]
              /\ d.members[a] = A \cup B /\ d.members[x] = X /\ A \cap B = {}
        BY <1>1, <1>2
    <2>2. W(A \cup B, X) = W(A, X) + W(B, X) /\ W(X, A \cup B) = W(X, A) + W(X, B)
        BY <2>1, WUnion
    <2>3. W(X, A) = W(A, X) /\ W(X, B) = W(B, X)
        BY WType
    <2> QED BY <2>1, <2>2, <2>3 DEF Between
<1>5. \A x \in Unit : Between(d, b, x) = 0 /\ Between(d, x, b) = 0
    BY <1>1, WNone DEF Between
<1>6. W(d.members[a], Unit) = W(c.members[a], Unit) + W(c.members[b], Unit)
    <2>1. PICK A \in SUBSET Unit, B \in SUBSET Unit :
              /\ A = c.members[a] /\ B = c.members[b]
              /\ d.members[a] = A \cup B /\ A \cap B = {}
        BY <1>1, <1>2
    <2>2. W(A \cup B, Unit) = W(A, Unit) + W(B, Unit)
        BY <2>1, WUnion
    <2> QED BY <2>1, <2>2
<1>7. W(d.members[b], Unit) = 0
    BY <1>1, WNone
<1> QED BY <1>3, <1>4, <1>5, <1>6, <1>7

\* The joined part touches what either did.
LEMMA MergedTouch ==
    ASSUME RequestInv, NEW c, StateRight(c), NEW a, NEW b, Joining(c, a, b),
           NEW heap, NEW steps, NEW d, d = Merged(c, a, b, heap, steps)
    PROVE  /\ \A x, y \in Unit \ {a, b} : Touch(d, x, y) <=> Touch(c, x, y)
           /\ \A x \in Unit \ {a, b} :
                 /\ Touch(d, a, x) <=> Touch(c, a, x) \/ Touch(c, b, x)
                 /\ Touch(d, x, a) <=> Touch(c, a, x) \/ Touch(c, b, x)
           /\ \A x \in Unit : ~Touch(d, b, x) /\ ~Touch(d, x, b)
           /\ \A x, y \in Unit : Touch(c, x, y) <=> Touch(c, y, x)
<1>1. /\ \A x, y \in Unit \ {a, b} : Between(d, x, y) = Between(c, x, y)
      /\ \A x \in Unit \ {a, b} :
            /\ Between(d, a, x) = Between(c, a, x) + Between(c, b, x)
            /\ Between(d, x, a) = Between(c, a, x) + Between(c, b, x)
      /\ \A x \in Unit : Between(d, b, x) = 0 /\ Between(d, x, b) = 0
    BY MergedBetween
<1>2. a \in Unit /\ b \in Unit /\ c.members \in [Unit -> SUBSET Unit]
    BY DEF Joining, StateRight, StateType
<1>3. \A x, y \in Unit : Between(c, x, y) \in Nat /\ Between(c, x, y) = Between(c, y, x)
    BY <1>2, WType DEF Between
<1>4. \A x \in Unit \ {a, b} : /\ x # a /\ x # b /\ x \in Unit
                               /\ Between(c, a, x) \in Nat /\ Between(c, b, x) \in Nat
    BY <1>2, <1>3
<1>5. \A x \in Unit \ {a, b} :
         /\ Between(c, a, x) + Between(c, b, x) > 0
            <=> Between(c, a, x) > 0 \/ Between(c, b, x) > 0
    BY <1>4
<1> QED BY <1>1, <1>3, <1>4, <1>5 DEF Touch

\* The running degrees are right after a merge,
LEMMA MergedFigures ==
    ASSUME RequestInv, NEW c, StateRight(c), NEW a, NEW b, Joining(c, a, b),
           NEW heap, NEW steps, NEW d, d = Merged(c, a, b, heap, steps)
    PROVE  /\ d.degree \in [Unit -> Nat] /\ \A x \in Unit : d.degree[x] = W(d.members[x], Unit)
           /\ \A x \in Unit \ {a, b} : d.degree[x] = c.degree[x]
<1>1. d.degree = [c.degree EXCEPT ![a] = @ + c.degree[b], ![b] = 0]
    BY DEF Merged
<1>2. /\ c.degree \in [Unit -> Nat] /\ a \in Unit /\ b \in Unit /\ a # b
      /\ \A x \in Unit : c.degree[x] = W(c.members[x], Unit)
    BY DEF StateRight, StateType, Figured, Joining
<1>3. /\ d.degree \in [Unit -> Nat] /\ \A x \in Unit \ {a, b} : d.degree[x] = c.degree[x]
      /\ d.degree[a] = c.degree[a] + c.degree[b] /\ d.degree[b] = 0
    BY <1>1, <1>2
<1>4. /\ W(d.members[a], Unit) = W(c.members[a], Unit) + W(c.members[b], Unit)
      /\ W(d.members[b], Unit) = 0
    BY MergedBetween
<1>5. \A x \in Unit \ {a, b} : d.members[x] = c.members[x]
    BY MergedMembers
<1>6. ASSUME NEW x \in Unit PROVE d.degree[x] = W(d.members[x], Unit)
    <2>1. CASE x = a
        BY <1>2, <1>3, <1>4, <2>1
    <2>2. CASE x = b
        BY <1>3, <1>4, <2>2
    <2>3. CASE x \notin {a, b}
        BY <1>2, <1>3, <1>5, <2>3
    <2> QED BY <2>1, <2>2, <2>3
<1> QED BY <1>3, <1>6

\* the lists of neighbours,
LEMMA MergedNear ==
    ASSUME RequestInv, NEW c, StateRight(c), NEW a, NEW b, Joining(c, a, b),
           NEW heap, NEW steps, NEW d, d = Merged(c, a, b, heap, steps)
    PROVE  /\ d.near \in [Unit -> SUBSET Unit]
           /\ \A x, y \in Unit : y \in d.near[x] <=> Touch(d, x, y)
<1>1. d.near = [x \in Unit |->
                  CASE x = a -> (c.near[a] \ {b}) \cup (c.near[b] \ {a})
                    [] x = b -> {}
                    [] x \in c.near[b] \ {a} -> (c.near[x] \ {b}) \cup {a}
                    [] OTHER -> c.near[x]]
    BY DEF Merged, Unit
<1>2. /\ c.near \in [Unit -> SUBSET Unit] /\ a \in Unit /\ b \in Unit /\ a # b
      /\ \A x, y \in Unit : y \in c.near[x] <=> Touch(c, x, y)
    BY DEF StateRight, StateType, Figured, Joining
<1>3. /\ d.near[a] = (c.near[a] \ {b}) \cup (c.near[b] \ {a}) /\ d.near[b] = {}
      /\ \A x \in Unit \ {a, b} :
            /\ x \in c.near[b] => d.near[x] = (c.near[x] \ {b}) \cup {a}
            /\ x \notin c.near[b] => d.near[x] = c.near[x]
    <2>1. d.near[a] = (c.near[a] \ {b}) \cup (c.near[b] \ {a})
        BY <1>1, <1>2
    <2>2. d.near[b] = {}
        <3>1. b \notin c.near[b]
            BY <1>2 DEF Touch
        <3> QED BY <1>1, <1>2, <3>1
    <2>3. ASSUME NEW x \in Unit \ {a, b}, x \in c.near[b]
          PROVE  d.near[x] = (c.near[x] \ {b}) \cup {a}
        BY <1>1, <1>2, <2>3
    <2>4. ASSUME NEW x \in Unit \ {a, b}, x \notin c.near[b]
          PROVE  d.near[x] = c.near[x]
        BY <1>1, <1>2, <2>4
    <2> QED BY <2>1, <2>2, <2>3, <2>4
<1>4. d.near \in [Unit -> SUBSET Unit]
    <2>1. \A x \in Unit : d.near[x] \in SUBSET Unit
        BY <1>2, <1>3
    <2> QED BY <1>1, <2>1
<1>5. /\ \A x, y \in Unit \ {a, b} : Touch(d, x, y) <=> Touch(c, x, y)
      /\ \A x \in Unit \ {a, b} :
            /\ Touch(d, a, x) <=> Touch(c, a, x) \/ Touch(c, b, x)
            /\ Touch(d, x, a) <=> Touch(c, a, x) \/ Touch(c, b, x)
      /\ \A x \in Unit : ~Touch(d, b, x) /\ ~Touch(d, x, b)
      /\ \A x, y \in Unit : Touch(c, x, y) <=> Touch(c, y, x)
    BY MergedTouch
<1>6. \A x \in Unit : ~Touch(d, x, x) /\ ~Touch(c, x, x)
    BY DEF Touch
<1>7. ASSUME NEW x \in Unit, NEW y \in Unit PROVE y \in d.near[x] <=> Touch(d, x, y)
    <2>1. CASE x = b
        BY <1>3, <1>5, <2>1
    <2>2. CASE x = a
        <3>1. CASE y \in {a, b}
            BY <1>2, <1>3, <1>5, <1>6, <2>2, <3>1
        <3>2. CASE y \notin {a, b}
            BY <1>2, <1>3, <1>5, <2>2, <3>2
        <3> QED BY <3>1, <3>2
    <2>3. CASE x \notin {a, b}
        <3>1. /\ y \in c.near[x] <=> Touch(c, x, y)
              /\ x \in c.near[b] <=> Touch(c, b, x)
              /\ Touch(c, a, x) <=> Touch(c, x, a)
              /\ Touch(c, b, x) <=> Touch(c, x, b)
            BY <1>2, <1>5
        <3>2. /\ Touch(c, b, x) => d.near[x] = (c.near[x] \ {b}) \cup {a}
              /\ ~Touch(c, b, x) => d.near[x] = c.near[x]
            BY <1>3, <2>3, <3>1
        <3>3. CASE y = a
            <4>1. Touch(d, x, a) <=> Touch(c, a, x) \/ Touch(c, b, x)
                BY <1>5, <2>3
            <4> QED BY <3>1, <3>2, <3>3, <4>1
        <3>4. CASE y = b
            <4>1. ~Touch(d, x, b)
                BY <1>5
            <4> QED BY <1>2, <3>1, <3>2, <3>4, <4>1
        <3>5. CASE y \notin {a, b}
            <4>1. Touch(d, x, y) <=> Touch(c, x, y)
                BY <1>5, <2>3, <3>5
            <4> QED BY <3>1, <3>2, <3>5, <4>1
        <3> QED BY <3>3, <3>4, <3>5
    <2> QED BY <2>1, <2>2, <2>3
<1> QED BY <1>4, <1>7

\* and the weights.
LEMMA MergedWeight ==
    ASSUME RequestInv, NEW c, StateRight(c), NEW a, NEW b, Joining(c, a, b),
           NEW heap, NEW steps, NEW d, d = Merged(c, a, b, heap, steps)
    PROVE  Weighed(d)
<1> DEFINE others == c.near[b] \ {a}
           kept == {p \in DOMAIN c.weight : b \notin p} \cup {{a, x} : x \in others}
           weighs(p) == IF p \in DOMAIN c.weight THEN c.weight[p] ELSE 0
<1>1. d.weight = [p \in kept |->
         weighs(p) + (IF a \in p /\ p \cap others # {} THEN weighs((p \ {a}) \cup {b}) ELSE 0)]
    BY DEF Merged
<1>2. /\ a \in Unit /\ b \in Unit /\ a # b
      /\ c.near \in [Unit -> SUBSET Unit] /\ c.members \in [Unit -> SUBSET Unit]
      /\ \A x, y \in Unit : y \in c.near[x] <=> Touch(c, x, y)
      /\ \A x, y \in Unit : Touch(c, x, y) => /\ {x, y} \in DOMAIN c.weight
                                              /\ c.weight[{x, y}] = Between(c, x, y)
      /\ \A p \in DOMAIN c.weight : \E x, y \in Unit : p = {x, y} /\ Touch(c, x, y)
    BY DEF StateRight, StateType, Figured, Weighed, Joining
<1>3. \A x, y \in Unit : Between(c, x, y) \in Nat /\ Between(c, x, y) = Between(c, y, x)
    BY <1>2, WType DEF Between
<1>4. /\ \A x, y \in Unit \ {a, b} : Touch(d, x, y) <=> Touch(c, x, y)
      /\ \A x \in Unit \ {a, b} :
            /\ Touch(d, a, x) <=> Touch(c, a, x) \/ Touch(c, b, x)
            /\ Touch(d, x, a) <=> Touch(c, a, x) \/ Touch(c, b, x)
      /\ \A x \in Unit : ~Touch(d, b, x) /\ ~Touch(d, x, b)
      /\ \A x, y \in Unit : Touch(c, x, y) <=> Touch(c, y, x)
    BY MergedTouch
<1>5. /\ \A x, y \in Unit \ {a, b} : Between(d, x, y) = Between(c, x, y)
      /\ \A x \in Unit \ {a, b} :
            /\ Between(d, a, x) = Between(c, a, x) + Between(c, b, x)
            /\ Between(d, x, a) = Between(c, a, x) + Between(c, b, x)
    BY MergedBetween
<1>6. \A x \in Unit : ~Touch(c, x, x) /\ ~Touch(d, x, x)
    BY DEF Touch
<1>7. \A x \in others : x \in Unit \ {a, b} /\ Touch(c, b, x)
    BY <1>2, <1>6
<1>8. ASSUME NEW x \in Unit, NEW y \in Unit, x # y
      PROVE  weighs({x, y}) = Between(c, x, y)
    <2>1. CASE Touch(c, x, y)
        BY <1>2, <2>1
    <2>2. CASE ~Touch(c, x, y)
        <3>1. Between(c, x, y) = 0
            BY <1>3, <1>8, <2>2 DEF Touch
        <3>2. {x, y} \notin DOMAIN c.weight
            <4> SUFFICES ASSUME {x, y} \in DOMAIN c.weight PROVE FALSE
                OBVIOUS
            <4>1. PICK v \in Unit, w \in Unit : {x, y} = {v, w} /\ Touch(c, v, w)
                BY <1>2
            <4>2. (v = x /\ w = y) \/ (v = y /\ w = x)
                BY <1>8, <4>1
            <4> QED BY <1>4, <2>2, <4>1, <4>2
        <3> QED BY <3>1, <3>2
    <2> QED BY <2>1, <2>2
<1>9. ASSUME NEW x \in Unit \ {a, b}, Touch(d, a, x)
      PROVE  {a, x} \in DOMAIN d.weight /\ d.weight[{a, x}] = Between(d, a, x)
    <2>1. {a, x} \in kept
        <3>1. CASE Touch(c, b, x)
            BY <1>2, <1>7, <3>1
        <3>2. CASE Touch(c, a, x)
            BY <1>2, <3>2
        <3> QED BY <1>4, <1>9, <3>1, <3>2
    <2>2. d.weight[{a, x}] = weighs({a, x})
              + (IF {a, x} \cap others # {} THEN weighs(({a, x} \ {a}) \cup {b}) ELSE 0)
        BY <1>1, <2>1
    <2>3. weighs({a, x}) = Between(c, a, x)
        BY <1>2, <1>8
    <2>4. ({a, x} \ {a}) \cup {b} = {b, x} /\ ({a, x} \cap others # {} <=> Touch(c, b, x))
        BY <1>2, <1>7
    <2>5. weighs({b, x}) = Between(c, b, x)
        BY <1>2, <1>8
    <2>6. ~Touch(c, b, x) => Between(c, b, x) = 0
        BY <1>2, <1>3 DEF Touch
    <2>7. d.weight[{a, x}] = Between(c, a, x) + Between(c, b, x)
        <3>1. CASE Touch(c, b, x)
            BY <2>2, <2>3, <2>4, <2>5, <3>1
        <3>2. CASE ~Touch(c, b, x)
            BY <1>2, <1>3, <2>2, <2>3, <2>4, <2>6, <3>2
        <3> QED BY <3>1, <3>2
    <2> QED BY <1>1, <1>5, <2>1, <2>7
<1>10. ASSUME NEW x \in Unit, NEW y \in Unit, Touch(d, x, y)
       PROVE  {x, y} \in DOMAIN d.weight /\ d.weight[{x, y}] = Between(d, x, y)
    <2>1. x # b /\ y # b /\ x # y
        BY <1>4, <1>6, <1>10
    <2>2. CASE x = a
        BY <1>9, <1>10, <2>1, <2>2
    <2>3. CASE y = a
        <3>1. Touch(d, a, x) /\ {x, y} = {a, x} /\ Between(d, x, y) = Between(d, a, x)
            BY <1>4, <1>5, <1>10, <2>1, <2>3
        <3> QED BY <1>9, <2>1, <2>3, <3>1
    <2>4. CASE x # a /\ y # a
        <3>1. Touch(c, x, y) /\ {x, y} \in kept /\ a \notin {x, y}
            BY <1>2, <1>4, <1>10, <2>1, <2>4
        <3>2. d.weight[{x, y}] = weighs({x, y}) + 0
            BY <1>1, <3>1
        <3>3. weighs({x, y}) = Between(c, x, y) /\ Between(c, x, y) \in Nat
            BY <1>3, <1>8, <2>1
        <3> QED BY <1>1, <1>5, <2>1, <2>4, <3>1, <3>2, <3>3
    <2> QED BY <2>2, <2>3, <2>4
<1>11. ASSUME NEW p \in DOMAIN d.weight
       PROVE  \E x, y \in Unit : p = {x, y} /\ Touch(d, x, y)
    <2>1. p \in kept
        BY <1>1
    <2>2. CASE p \in {{a, x} : x \in others}
        <3>1. PICK x \in others : p = {a, x}
            BY <2>2
        <3>2. Touch(d, a, x)
            BY <1>4, <1>7
        <3> QED BY <1>2, <1>7, <3>1, <3>2
    <2>3. CASE p \in DOMAIN c.weight /\ b \notin p
        <3>1. PICK x \in Unit, y \in Unit : p = {x, y} /\ Touch(c, x, y)
            BY <1>2, <2>3
        <3>2. x # b /\ y # b /\ x # y
            BY <1>6, <2>3, <3>1
        <3>3. CASE x = a
            BY <1>4, <3>1, <3>2, <3>3
        <3>4. CASE y = a
            BY <1>4, <3>1, <3>2, <3>4
        <3>5. CASE x # a /\ y # a
            BY <1>4, <3>1, <3>2, <3>5
        <3> QED BY <3>3, <3>4, <3>5
    <2> QED BY <2>1, <2>2, <2>3
<1> QED BY <1>10, <1>11 DEF Weighed

LEMMA OfTwo ==
    ASSUME NEW x \in Int, NEW y \in Int, x < y
    PROVE  /\ Min({x, y}) = x /\ Max({x, y}) = y
           /\ Min({y, x}) = x /\ Max({y, x}) = y
<1>1. Min({x, y}) = x
    BY DEF Min
<1>2. Max({x, y}) = y
    BY DEF Max
<1> QED BY <1>1, <1>2

LEMMA MergedGeneration ==
    ASSUME NEW c, StateRight(c), NEW a, NEW b, Joining(c, a, b),
           NEW heap, NEW steps, NEW d, d = Merged(c, a, b, heap, steps)
    PROVE  /\ d.generation \in [Unit -> Nat] /\ c.generation \in [Unit -> Nat]
           /\ d.generation[a] = c.generation[a] + 1 /\ d.generation[b] = c.generation[b] + 1
           /\ \A x \in Unit \ {a, b} : d.generation[x] = c.generation[x]
<1>1. d.generation = [c.generation EXCEPT ![a] = @ + 1, ![b] = @ + 1]
    BY DEF Merged, Outdated
<1> QED BY <1>1 DEF StateRight, StateType, Joining

\* What is put on the heap.
LEMMA MergedEntry ==
    ASSUME RequestInv, AimInv, NEW c, StateRight(c), NEW a, NEW b, Joining(c, a, b),
           NEW heap, NEW steps, NEW d, d = Merged(c, a, b, heap, steps),
           NEW x \in d.near[a],
           NEW e, e = Entry(Min({a, x}), Max({a, x}),
                            Gain(d.weight[{a, x}], d.degree[a], d.degree[x]), d.generation)
    PROVE  /\ e \in EntryType /\ EntryRight(d, e) /\ FreshIn(d, e)
           /\ x \in Unit \ {a, b}
           /\ a < x => e.a = a /\ e.b = x
           /\ x < a => e.a = x /\ e.b = a
<1>1. /\ a \in Unit /\ d.near \in [Unit -> SUBSET Unit]
      /\ \A y, z \in Unit : z \in d.near[y] <=> Touch(d, y, z)
    BY MergedNear DEF Joining
<1>2. x \in Unit /\ Touch(d, a, x) /\ x # a
    BY <1>1 DEF Touch
<1>3. x \in Unit \ {a, b} /\ \A y \in Unit : ~Touch(d, y, b)
    BY <1>2, MergedTouch, <1>1
<1>4. d.weight[{a, x}] = Between(d, a, x)
    <2>1. Weighed(d)
        BY MergedWeight
    <2> QED BY <1>1, <1>2, <2>1 DEF Weighed
<1>5. /\ d.degree \in [Unit -> Nat] /\ d.members \in [Unit -> SUBSET Unit]
      /\ d.generation \in [Unit -> Nat]
    BY MergedFigures, MergedMembers, MergedGeneration
<1>6. Between(d, a, x) \in Nat /\ Between(d, x, a) = Between(d, a, x)
    BY <1>1, <1>2, <1>5, WType DEF Between
<1>7. PICK w, da, dx, g : /\ w = Between(d, a, x) /\ w \in Int
                          /\ da = d.degree[a] /\ dx = d.degree[x] /\ da \in Int /\ dx \in Int
                          /\ g = Gain(w, da, dx)
    BY <1>1, <1>2, <1>5, <1>6
<1>8. g \in Int /\ g = Gain(w, dx, da)
    <2>1. Gain(w, da, dx) \in Int /\ Gain(w, da, dx) = Gain(w, dx, da)
        <3>1. w \in Int /\ da \in Int /\ dx \in Int
            BY <1>7
        <3> QED BY <3>1, GainType
    <2> QED BY <1>7, <2>1
<1>9. a \in Int /\ x \in Int /\ (a < x \/ x < a)
    BY <1>1, <1>2 DEF Unit
<1>10. ASSUME a < x
       PROVE  e = [a |-> a, b |-> x, gain |-> g, ga |-> d.generation[a], gb |-> d.generation[x]]
    BY <1>4, <1>7, <1>9, <1>10, OfTwo DEF Entry
<1>11. ASSUME x < a
       PROVE  e = [a |-> x, b |-> a, gain |-> g, ga |-> d.generation[x], gb |-> d.generation[a]]
    BY <1>4, <1>7, <1>9, <1>11, OfTwo DEF Entry
<1>12. CASE a < x
    <2>1. /\ e.a = a /\ e.b = x /\ e.gain = g
          /\ e.ga = d.generation[a] /\ e.gb = d.generation[x]
        BY <1>10, <1>12
    <2>2. e \in EntryType
        BY <1>1, <1>2, <1>5, <1>8, <1>10, <1>12 DEF EntryType
    <2>3. d.generation[a] \in Nat /\ d.generation[x] \in Nat
        BY <1>1, <1>2, <1>5
    <2>4. ~(x < a)
        BY <1>9, <1>12
    <2>5. FreshIn(d, e)
        BY <2>1 DEF FreshIn
    <2>6. e.ga <= d.generation[e.a] /\ e.gb <= d.generation[e.b]
        BY <2>1, <2>3
    <2>7. Touch(d, e.a, e.b) /\ e.gain = Gain(Between(d, e.a, e.b), d.degree[e.a], d.degree[e.b])
        BY <1>2, <1>7, <2>1
    <2>8. EntryRight(d, e)
        BY <1>12, <2>1, <2>6, <2>7 DEF EntryRight
    <2> QED BY <1>3, <2>1, <2>2, <2>4, <2>5, <2>8
<1>13. CASE x < a
    <2>1. /\ e.a = x /\ e.b = a /\ e.gain = g
          /\ e.ga = d.generation[x] /\ e.gb = d.generation[a]
        BY <1>11, <1>13
    <2>2. e \in EntryType
        BY <1>1, <1>2, <1>5, <1>8, <1>11, <1>13 DEF EntryType
    <2>3. d.generation[a] \in Nat /\ d.generation[x] \in Nat
        BY <1>1, <1>2, <1>5
    <2>4. ~(a < x)
        BY <1>9, <1>13
    <2>5. Touch(d, x, a)
        BY <1>2, <1>6 DEF Touch
    <2>6. FreshIn(d, e)
        BY <2>1 DEF FreshIn
    <2>7. e.ga <= d.generation[e.a] /\ e.gb <= d.generation[e.b]
        BY <2>1, <2>3
    <2>8. Touch(d, e.a, e.b) /\ e.gain = Gain(Between(d, e.a, e.b), d.degree[e.a], d.degree[e.b])
        <3>1. Between(d, x, a) = w
            BY <1>6, <1>7
        <3>2. Gain(Between(d, x, a), d.degree[x], d.degree[a]) = g
            BY <1>7, <1>8, <3>1
        <3> QED BY <2>1, <2>5, <3>2
    <2>9. EntryRight(d, e)
        BY <1>13, <2>1, <2>7, <2>8 DEF EntryRight
    <2> QED BY <1>3, <2>1, <2>2, <2>4, <2>6, <2>9
<1> QED BY <1>9, <1>12, <1>13

\* The heap stays right: stale entries stay stale, and the joined part has new ones.
LEMMA MergedHeap ==
    ASSUME RequestInv, AimInv, NEW c, StateRight(c), NEW a, NEW b, Joining(c, a, b),
           NEW heap \in SUBSET c.heap, NEW steps, NEW d, d = Merged(c, a, b, heap, steps),
           \A e \in c.heap :
               FreshIn(c, e) /\ e.a \notin {a, b} /\ e.b \notin {a, b} => e \in heap
    PROVE  /\ d.heap \in SUBSET EntryType /\ IsFiniteSet(d.heap)
           /\ \A e \in d.heap : EntryRight(d, e)
           /\ HeapWhole(d)
<1> DEFINE Made(x) == Entry(Min({a, x}), Max({a, x}),
                            Gain(d.weight[{a, x}], d.degree[a], d.degree[x]), d.generation)
<1>1. d.heap = heap \cup {Made(x) : x \in d.near[a]}
    BY DEF Merged
<1>2. ASSUME NEW x \in d.near[a]
      PROVE  /\ Made(x) \in EntryType /\ EntryRight(d, Made(x)) /\ FreshIn(d, Made(x))
             /\ a < x => Made(x).a = a /\ Made(x).b = x
             /\ x < a => Made(x).a = x /\ Made(x).b = a
    BY MergedEntry
<1> HIDE DEF Made
<1>3. /\ a \in Unit /\ d.near \in [Unit -> SUBSET Unit]
      /\ \A y, z \in Unit : z \in d.near[y] <=> Touch(d, y, z)
    BY MergedNear DEF Joining
<1>4. /\ c.heap \in SUBSET EntryType /\ IsFiniteSet(c.heap) /\ \A e \in c.heap : EntryRight(c, e)
      /\ b \in Unit /\ HeapWhole(c)
    BY DEF StateRight, StateType, Joining
<1>5. d.heap \in SUBSET EntryType
    BY <1>1, <1>2, <1>4
<1>6. IsFiniteSet(d.heap)
    <2>1. IsFiniteSet(d.near[a])
        <3>1. d.near[a] \in SUBSET Unit
            BY <1>3
        <3> QED BY <3>1, UnitsFinite, FS_Subset
    <2> DEFINE f == [x \in d.near[a] |-> Made(x)]
    <2>2. {f[x] : x \in d.near[a]} = {Made(x) : x \in d.near[a]}
        OBVIOUS
    <2>3. IsFiniteSet({f[x] : x \in d.near[a]})
        <3> HIDE DEF f
        <3> QED BY <2>1, FiniteImage
    <2>4. PICK made : made = {Made(x) : x \in d.near[a]} /\ IsFiniteSet(made)
        BY <2>2, <2>3
    <2>5. IsFiniteSet(heap)
        BY <1>4, FS_Subset
    <2>6. IsFiniteSet(heap \cup made)
        BY <2>4, <2>5, FS_Union
    <2> QED BY <1>1, <2>4, <2>6
<1>7. /\ d.generation \in [Unit -> Nat] /\ c.generation \in [Unit -> Nat]
      /\ d.generation[a] = c.generation[a] + 1 /\ d.generation[b] = c.generation[b] + 1
      /\ \A x \in Unit \ {a, b} : d.generation[x] = c.generation[x]
    BY MergedGeneration
<1>8. /\ \A x, y \in Unit \ {a, b} : Between(d, x, y) = Between(c, x, y)
      /\ \A x, y \in Unit \ {a, b} : Touch(d, x, y) <=> Touch(c, x, y)
      /\ \A x \in Unit \ {a, b} : d.degree[x] = c.degree[x]
      /\ \A x \in Unit : ~Touch(d, b, x) /\ ~Touch(d, x, b)
    BY MergedBetween, MergedTouch, MergedFigures
<1>9. ASSUME NEW e \in c.heap, e.a \notin {a, b}, e.b \notin {a, b}
      PROVE  FreshIn(d, e) <=> FreshIn(c, e)
    <2>1. e.a \in Unit \ {a, b} /\ e.b \in Unit \ {a, b}
        BY <1>4, <1>9 DEF EntryType
    <2> QED BY <1>7, <2>1 DEF FreshIn
<1>10. ASSUME NEW e \in heap PROVE EntryRight(d, e)
    <2>1. /\ e \in c.heap /\ e.a \in Unit /\ e.b \in Unit /\ e.ga \in Nat /\ e.gb \in Nat
          /\ e.a < e.b /\ e.ga <= c.generation[e.a] /\ e.gb <= c.generation[e.b]
        BY <1>4 DEF EntryType, EntryRight
    <2>2. c.generation[e.a] <= d.generation[e.a] /\ c.generation[e.b] <= d.generation[e.b]
          /\ c.generation[e.a] \in Nat /\ d.generation[e.a] \in Nat
          /\ c.generation[e.b] \in Nat /\ d.generation[e.b] \in Nat
        BY <1>3, <1>4, <1>7, <2>1
    <2>3. e.ga <= d.generation[e.a] /\ e.gb <= d.generation[e.b]
        BY <2>1, <2>2
    <2>4. ASSUME FreshIn(d, e)
          PROVE  /\ Touch(d, e.a, e.b)
                 /\ e.gain = Gain(Between(d, e.a, e.b), d.degree[e.a], d.degree[e.b])
        <3>1. e.a \notin {a, b} /\ e.b \notin {a, b}
            BY <1>7, <2>1, <2>2, <2>4 DEF FreshIn
        <3>2. FreshIn(c, e)
            BY <1>9, <2>1, <2>4, <3>1
        <3>3. /\ Touch(c, e.a, e.b)
              /\ e.gain = Gain(Between(c, e.a, e.b), c.degree[e.a], c.degree[e.b])
            BY <1>4, <2>1, <3>2 DEF EntryRight
        <3> QED BY <1>8, <2>1, <3>1, <3>3
    <2> QED BY <2>1, <2>3, <2>4 DEF EntryRight
<1>11. ASSUME NEW x \in Unit, NEW y \in Unit, x < y, Touch(d, x, y)
       PROVE  \E e \in d.heap : e.a = x /\ e.b = y /\ FreshIn(d, e)
    <2>1. x # b /\ y # b
        BY <1>8, <1>11
    <2>2. CASE x = a
        <3>1. y \in d.near[a]
            BY <1>3, <1>11, <2>2
        <3> QED BY <1>1, <1>2, <1>11, <2>2, <3>1
    <2>3. CASE y = a
        <3>1. Touch(d, a, x)
            <4>1. d.members \in [Unit -> SUBSET Unit]
                BY MergedMembers
            <4>2. Between(d, a, x) = Between(d, x, a)
                BY <1>3, <4>1, WType DEF Between
            <4> QED BY <1>11, <2>3, <4>2 DEF Touch
        <3>2. x \in d.near[a]
            BY <1>3, <3>1
        <3> QED BY <1>1, <1>2, <1>11, <2>3, <3>2
    <2>4. CASE x \notin {a, b} /\ y \notin {a, b}
        <3>1. Touch(c, x, y)
            BY <1>8, <1>11, <2>4
        <3>2. PICK e \in c.heap : e.a = x /\ e.b = y /\ FreshIn(c, e)
            BY <1>4, <1>11, <3>1 DEF HeapWhole
        <3>3. e \in heap /\ FreshIn(d, e)
            BY <1>9, <2>4, <3>2
        <3> QED BY <1>1, <3>2, <3>3
    <2> QED BY <2>1, <2>2, <2>3, <2>4
<1>12. \A e \in d.heap : EntryRight(d, e)
    BY <1>1, <1>2, <1>10
<1> QED BY <1>5, <1>6, <1>11, <1>12 DEF HeapWhole

LEMMA MergedCounted ==
    ASSUME RequestInv, NEW c, StateRight(c), NEW a, NEW b, Joining(c, a, b),
           NEW heap, NEW steps \in Nat, ~Forced => steps = c.steps + 1,
           NEW d, d = Merged(c, a, b, heap, steps)
    PROVE  /\ LiveIn(d) = LiveIn(c) \ {b} /\ b \in LiveIn(c)
           /\ d.left \in Nat /\ d.steps \in Nat /\ Counted(d)
<1>1. d.left = c.left - 1 /\ d.steps = steps
    BY DEF Merged
<1>2. /\ d.members \in [Unit -> SUBSET Unit]
      /\ d.members[a] = c.members[a] \cup c.members[b] /\ d.members[b] = {}
      /\ \A x \in Unit \ {a, b} : d.members[x] = c.members[x]
    BY MergedMembers
<1>3. /\ a \in Unit /\ b \in Unit /\ a # b /\ c.members[a] # {} /\ c.members[b] # {}
      /\ c.left = Cardinality(LiveIn(c)) /\ c.left \in Nat /\ c.steps \in Nat
      /\ ~Forced => c.steps + c.left = N
    BY DEF Joining, StateRight, StateType, Counted
<1>4. LiveIn(d) = LiveIn(c) \ {b}
    <2>1. ASSUME NEW x \in Unit PROVE d.members[x] # {} <=> c.members[x] # {} /\ x # b
        <3>1. CASE x = a
            BY <1>2, <1>3, <3>1
        <3>2. CASE x = b
            BY <1>2, <1>3, <3>2
        <3>3. CASE x \notin {a, b}
            BY <1>2, <1>3, <3>3
        <3> QED BY <3>1, <3>2, <3>3
    <2> QED BY <2>1 DEF LiveIn
<1>5. b \in LiveIn(c)
    BY <1>3 DEF LiveIn
<1>6. PICK live : live = LiveIn(c) /\ live \in SUBSET Unit
    BY DEF LiveIn
<1>7. IsFiniteSet(live)
    BY <1>6, UnitsFinite, FS_Subset
<1>8. /\ Cardinality(live \ {b}) = Cardinality(live) - 1
      /\ Cardinality(live \ {b}) \in Nat
    BY <1>5, <1>6, <1>7, FS_RemoveElement, FS_CardinalityType
<1>9. d.left = Cardinality(LiveIn(d)) /\ d.left \in Nat
    BY <1>1, <1>3, <1>4, <1>6, <1>8
<1>10. N \in Nat
    BY DEF RequestInv
<1>11. ~Forced => d.steps + d.left = N
    BY <1>1, <1>3, <1>10
<1> QED BY <1>1, <1>4, <1>5, <1>9, <1>11 DEF Counted

\* Any merge keeps it so, if the heap loses only stale entries and those of the two parts.
LEMMA MergedState ==
    ASSUME RequestInv, AimInv, NEW c, StateRight(c), NEW a, NEW b, Joining(c, a, b),
           NEW heap \in SUBSET c.heap,
           \A e \in c.heap :
               FreshIn(c, e) /\ e.a \notin {a, b} /\ e.b \notin {a, b} => e \in heap,
           NEW steps \in Nat, ~Forced => steps = c.steps + 1
    PROVE  StateRight(Merged(c, a, b, heap, steps))
<1>1. PICK d : d = Merged(c, a, b, heap, steps)
    OBVIOUS
<1>2. d.members \in [Unit -> SUBSET Unit] /\ Parted(d)
    BY <1>1, MergedMembers
<1>3. d.degree \in [Unit -> Nat] /\ \A x \in Unit : d.degree[x] = W(d.members[x], Unit)
    BY <1>1, MergedFigures
<1>4. d.near \in [Unit -> SUBSET Unit] /\ \A x, y \in Unit : y \in d.near[x] <=> Touch(d, x, y)
    BY <1>1, MergedNear
<1>5. Weighed(d)
    BY <1>1, MergedWeight
<1>6. d.generation \in [Unit -> Nat]
    BY <1>1, MergedGeneration
<1>7. /\ d.heap \in SUBSET EntryType /\ IsFiniteSet(d.heap)
      /\ \A e \in d.heap : EntryRight(d, e)
      /\ HeapWhole(d)
    BY <1>1, MergedHeap
<1>8. d.left \in Nat /\ d.steps \in Nat /\ Counted(d)
    BY <1>1, MergedCounted
<1>9. d.of \in [Unit -> Unit]
    <2>1. d.of = [i \in Unit |-> IF i \in c.members[b] THEN a ELSE c.of[i]]
        BY <1>1 DEF Merged, Unit
    <2> QED BY <2>1 DEF StateRight, StateType, Joining
<1> QED BY <1>1, <1>2, <1>3, <1>4, <1>5, <1>6, <1>7, <1>8, <1>9 DEF StateRight, StateType, Figured

-----------------------------------------------------------------------------
(* A run starts so. *)

LEMMA StartedFigures ==
    ASSUME RequestInv, NEW x \in Unit, NEW y \in Unit
    PROVE  /\ W({x}, {y}) = request.coupling[x][y]
           /\ W({x}, Unit) = SumFunction(request.coupling[x])
<1>1. /\ IsFiniteSet(Unit) /\ DOMAIN request.coupling[x] = Unit
      /\ \A i, j \in Unit : request.coupling[i][j] \in Nat
    BY UnitsFinite
<1>2. W({x}, Unit) = SumFunctionOnSet(request.coupling[x], Unit)
    BY <1>1, AcrossOne DEF W
<1>3. W({x}, {y}) = SumFunctionOnSet(request.coupling[x], {y})
    BY <1>1, AcrossOne DEF W
<1>4. SumFunctionOnSet(request.coupling[x], {y}) = request.coupling[x][y]
    BY <1>1, SumOfOne
<1> QED BY <1>1, <1>2, <1>3, <1>4 DEF SumFunction

LinkedPairs == {p \in Unit \X Unit : p[1] < p[2] /\ request.coupling[p[1]][p[2]] > 0}

FirstEntry(c, p) ==
    Entry(p[1], p[2], Gain(request.coupling[p[1]][p[2]], c.degree[p[1]], c.degree[p[2]]),
          c.generation)

StartedAs(c) ==
    /\ c.of = [i \in Unit |-> i] /\ c.members = [i \in Unit |-> {i}]
    /\ c.degree = [i \in Unit |-> SumFunction(request.coupling[i])]
    /\ c.generation = [i \in Unit |-> 0]
    /\ c.weight = [pair \in {{p[1], p[2]} : p \in LinkedPairs} |->
                      request.coupling[Min(pair)][Max(pair)]]
    /\ c.near = [i \in Unit |->
                    {j \in Unit : <<i, j>> \in LinkedPairs \/ <<j, i>> \in LinkedPairs}]
    /\ c.heap = {FirstEntry(c, p) : p \in LinkedPairs}
    /\ c.left = N /\ c.steps = 0

LEMMA StartedFields ==
    ASSUME RequestInv, AimInv, NEW c, c = Started(request.coupling, aim.gamma)
    PROVE  StartedAs(c)
<1>1. DOMAIN request.coupling = Unit /\ Cardinality(Unit) = N
    BY UnitsFinite
<1>2. c.degree = [i \in Unit |-> SumFunction(request.coupling[i])]
    BY <1>1 DEF Started
<1>3. Total = SumFunction(c.degree)
    BY <1>2 DEF Total, UnitDegree, Unit
<1>4. /\ c.of = [i \in Unit |-> i] /\ c.members = [i \in Unit |-> {i}]
      /\ c.generation = [i \in Unit |-> 0] /\ c.left = N /\ c.steps = 0
    BY <1>1 DEF Started
<1>5. c.weight = [pair \in {{p[1], p[2]} : p \in LinkedPairs} |->
                             request.coupling[Min(pair)][Max(pair)]]
    BY <1>1 DEF Started, LinkedPairs
<1>6. c.near = [i \in Unit |->
                 {j \in Unit : <<i, j>> \in LinkedPairs \/ <<j, i>> \in LinkedPairs}]
    BY <1>1 DEF Started, LinkedPairs
<1>7. c.heap = {Entry(p[1], p[2],
                      20 * request.coupling[p[1]][p[2]] * SumFunction(c.degree)
                          - aim.gamma * c.degree[p[1]] * c.degree[p[2]],
                      c.generation) : p \in LinkedPairs}
    BY <1>1, <1>2, <1>4 DEF Started, LinkedPairs
<1> QED BY <1>2, <1>3, <1>4, <1>5, <1>6, <1>7 DEF Gain, StartedAs, FirstEntry

\* It is so when a run starts.
LEMMA StartedState ==
    ASSUME RequestInv, AimInv, NEW c, c = Started(request.coupling, aim.gamma)
    PROVE  StateRight(c)
<1>1. StartedAs(c)
    BY StartedFields
<1>2. /\ IsFiniteSet(Unit) /\ Cardinality(Unit) = N /\ N \in Nat
      /\ \A i, j \in Unit : /\ request.coupling[i][j] \in Nat
                            /\ request.coupling[i][j] = request.coupling[j][i]
    BY UnitsFinite DEF RequestInv
<1>3. \A x, y \in Unit : Between(c, x, y) = request.coupling[x][y]
    <2>1. \A x, y \in Unit : W({x}, {y}) = request.coupling[x][y]
        BY StartedFigures
    <2>2. \A x \in Unit : c.members[x] = {x}
        BY <1>1 DEF StartedAs
    <2> QED BY <2>1, <2>2 DEF Between
<1>4. \A x, y \in Unit : Touch(c, x, y) <=> x # y /\ request.coupling[x][y] > 0
    BY <1>3 DEF Touch
<1>5. \A x, y \in Unit : x \in Int /\ (x = y \/ x < y \/ y < x) /\ ~(x < x) /\ ~(x < y /\ y < x)
    BY DEF Unit
<1>6. \A x, y \in Unit : <<x, y>> \in LinkedPairs <=> x < y /\ Touch(c, x, y)
    BY <1>4, <1>5 DEF LinkedPairs
<1>7. \A p \in LinkedPairs : /\ p[1] \in Unit /\ p[2] \in Unit /\ p[1] < p[2] /\ Touch(c, p[1], p[2])
                        /\ request.coupling[p[1]][p[2]] = Between(c, p[1], p[2])
    BY <1>3, <1>4, <1>5 DEF LinkedPairs
<1>8. /\ c.degree \in [Unit -> Nat]
      /\ \A x \in Unit : c.degree[x] = W(c.members[x], Unit)
    <2>1. c.degree = [i \in Unit |-> SumFunction(request.coupling[i])]
        BY <1>1 DEF StartedAs
    <2>2. \A x \in Unit : c.members[x] = {x}
        BY <1>1 DEF StartedAs
    <2>3. ASSUME NEW x \in Unit PROVE c.degree[x] = W({x}, Unit) /\ W({x}, Unit) \in Nat
        <3>1. W({x}, Unit) = SumFunction(request.coupling[x])
            BY StartedFigures
        <3>2. W({x}, Unit) \in Nat
            BY WType
        <3> QED BY <2>1, <3>1, <3>2
    <2>4. \A x \in Unit : c.degree[x] \in Nat /\ c.degree[x] = W(c.members[x], Unit)
        BY <2>2, <2>3
    <2> QED BY <2>1, <2>4
<1>9. /\ c.near \in [Unit -> SUBSET Unit]
      /\ \A x, y \in Unit : y \in c.near[x] <=> Touch(c, x, y)
    <2>1. \A x, y \in Unit : Touch(c, x, y) <=> Touch(c, y, x)
        BY <1>2, <1>4
    <2> QED BY <1>1, <1>4, <1>5, <1>6, <2>1 DEF StartedAs
<1>10. Weighed(c)
    <2>1. ASSUME NEW x \in Unit, NEW y \in Unit, x < y, Touch(c, x, y)
          PROVE  {x, y} \in DOMAIN c.weight /\ c.weight[{x, y}] = Between(c, x, y)
        <3>1. <<x, y>> \in LinkedPairs
            BY <1>6, <2>1
        <3>2. {x, y} \in {{p[1], p[2]} : p \in LinkedPairs}
            BY <3>1
        <3>3. Min({x, y}) = x /\ Max({x, y}) = y
            BY <1>5, <2>1, OfTwo
        <3>4. c.weight = [pair \in {{p[1], p[2]} : p \in LinkedPairs} |->
                             request.coupling[Min(pair)][Max(pair)]]
            BY <1>1 DEF StartedAs
        <3>5. c.weight[{x, y}] = request.coupling[x][y] /\ {x, y} \in DOMAIN c.weight
            BY <3>2, <3>3, <3>4
        <3> QED BY <1>3, <3>5
    <2>2. ASSUME NEW x \in Unit, NEW y \in Unit, Touch(c, x, y)
          PROVE  {x, y} \in DOMAIN c.weight /\ c.weight[{x, y}] = Between(c, x, y)
        <3>1. CASE x < y
            BY <2>1, <2>2, <3>1
        <3>2. CASE y < x
            <4>1. Touch(c, y, x) /\ Between(c, y, x) = Between(c, x, y) /\ {y, x} = {x, y}
                BY <1>2, <1>3, <1>4, <2>2
            <4> QED BY <2>1, <3>2, <4>1
        <3> QED BY <1>4, <1>5, <2>2, <3>1, <3>2
    <2>3. ASSUME NEW p \in DOMAIN c.weight
          PROVE  \E x, y \in Unit : p = {x, y} /\ Touch(c, x, y)
        BY <1>1, <1>7 DEF StartedAs
    <2> QED BY <2>2, <2>3 DEF Weighed
<1>11. Parted(c)
    BY <1>1 DEF Parted, StartedAs
<1>12. ASSUME NEW p \in LinkedPairs
       PROVE  /\ FirstEntry(c, p) \in EntryType
              /\ EntryRight(c, FirstEntry(c, p)) /\ FreshIn(c, FirstEntry(c, p))
              /\ FirstEntry(c, p).a = p[1] /\ FirstEntry(c, p).b = p[2]
    <2>1. PICK x, y, w, dx, dy, g :
              /\ x \in Unit /\ y \in Unit
              /\ x = p[1] /\ y = p[2] /\ x < y /\ Touch(c, x, y)
              /\ w = request.coupling[x][y] /\ w = Between(c, x, y) /\ w \in Int
              /\ dx = c.degree[x] /\ dy = c.degree[y] /\ dx \in Int /\ dy \in Int
              /\ g = Gain(w, dx, dy)
        BY <1>2, <1>7, <1>8
    <2>2. g \in Int
        BY <2>1, GainType
    <2>3. FirstEntry(c, p) = [a |-> x, b |-> y, gain |-> g, ga |-> 0, gb |-> 0]
        BY <1>1, <2>1 DEF Entry, FirstEntry, StartedAs
    <2>4. FirstEntry(c, p) \in EntryType
        BY <2>1, <2>2, <2>3 DEF EntryType
    <2>5. c.generation[x] = 0 /\ c.generation[y] = 0
        BY <1>1, <2>1 DEF StartedAs
    <2> QED BY <2>1, <2>3, <2>4, <2>5 DEF EntryRight, FreshIn
<1>13. c.heap \in SUBSET EntryType /\ \A e \in c.heap : EntryRight(c, e)
    BY <1>1, <1>12 DEF StartedAs
<1>14. IsFiniteSet(c.heap)
    <2>1. LinkedPairs \subseteq Unit \X Unit
        BY DEF LinkedPairs
    <2>2. IsFiniteSet(LinkedPairs)
        BY <1>2, <2>1, FS_Product, FS_Subset
    <2> DEFINE f == [p \in LinkedPairs |-> FirstEntry(c, p)]
    <2>3. {f[p] : p \in LinkedPairs} = {FirstEntry(c, p) : p \in LinkedPairs}
        OBVIOUS
    <2>4. IsFiniteSet({f[p] : p \in LinkedPairs})
        <3> HIDE DEF f
        <3> QED BY <2>2, FiniteImage
    <2> QED BY <1>1, <2>3, <2>4 DEF StartedAs
<1>15. HeapWhole(c)
    <2>1. ASSUME NEW x \in Unit, NEW y \in Unit, x < y, Touch(c, x, y)
          PROVE  \E e \in c.heap : e.a = x /\ e.b = y /\ FreshIn(c, e)
        <3>1. PICK p \in LinkedPairs : p = <<x, y>>
            BY <1>6, <2>1
        <3>2. FirstEntry(c, p) \in c.heap
            BY <1>1 DEF StartedAs
        <3> QED BY <1>12, <3>1, <3>2
    <2> QED BY <2>1 DEF HeapWhole
<1>16. Counted(c)
    <2>1. LiveIn(c) = Unit
        BY SMTT(30), <1>1 DEF LiveIn, StartedAs
    <2> QED BY <1>1, <1>2, <2>1 DEF Counted, StartedAs
<1>17. StateType(c)
    BY <1>1, <1>2, <1>8, <1>9, <1>13, <1>14 DEF StateType, StartedAs
<1> QED BY <1>8, <1>9, <1>10, <1>11, <1>13, <1>15, <1>16, <1>17 DEF StateRight, Figured

-----------------------------------------------------------------------------
(* What is asked for is a matter of numbers, and what a run gives is too. *)

LEMMA Elements ==
    ASSUME NEW A, NEW s \in Seq(A)
    PROVE  \A i \in DOMAIN s : s[i] \in A
OBVIOUS

LEMMA Listed ==
    ASSUME NEW A, NEW n \in Nat, NEW s \in [1 .. n -> A]
    PROVE  s \in Seq(A) /\ Len(s) = n
OBVIOUS

LEMMA Alone ==
    ASSUME NEW A, NEW x \in A
    PROVE  <<x>> \in Seq(A) /\ <<x>> # <<>>
OBVIOUS

LEMMA GraphFinite ==
    ASSUME NEW graph \in CodeGraph
    PROVE  /\ IsFiniteSet(DOMAIN graph.nodes) /\ IsFiniteSet(DOMAIN graph.edges)
           /\ Participants(graph) \subseteq DOMAIN graph.nodes
           /\ \A k \in DOMAIN graph.edges : Weight[graph.edges[k].kind] \in Nat
           /\ \A n : IsFiniteSet(Accessed(graph, n))
<1>1. /\ graph.nodes \in Seq(STRING)
      /\ graph.edges \in Seq([from : DOMAIN graph.nodes, to : DOMAIN graph.nodes,
                              kind : DOMAIN Weight])
    BY ClusterAssumption
<1>2. /\ DOMAIN graph.nodes = 1 .. Len(graph.nodes) /\ Len(graph.nodes) \in Nat
      /\ DOMAIN graph.edges = 1 .. Len(graph.edges) /\ Len(graph.edges) \in Nat
    BY <1>1
<1>3. IsFiniteSet(DOMAIN graph.nodes) /\ IsFiniteSet(DOMAIN graph.edges)
    BY SMTT(30), <1>2, FS_Interval
<1>4. Participants(graph) \subseteq DOMAIN graph.nodes
    BY DEF Participants
<1>5. \A k \in DOMAIN graph.edges : /\ graph.edges[k].kind \in DOMAIN Weight
                                    /\ graph.edges[k].to \in DOMAIN graph.nodes
    <2>1. \A k \in DOMAIN graph.edges :
              graph.edges[k] \in [from : DOMAIN graph.nodes, to : DOMAIN graph.nodes,
                                  kind : DOMAIN Weight]
        BY <1>1, Elements
    <2> QED BY <2>1
<1>6. \A kind \in DOMAIN Weight : Weight[kind] \in Nat
    BY DEF Weight
<1>7. ASSUME NEW n PROVE IsFiniteSet(Accessed(graph, n))
    <2>1. Accessed(graph, n) \subseteq DOMAIN graph.nodes
        BY <1>5 DEF Accessed, ToSet
    <2> QED BY <1>3, <2>1, FS_Subset
<1> QED BY <1>3, <1>4, <1>5, <1>6, <1>7

LEMMA AlikeType ==
    ASSUME NEW graph \in CodeGraph, NEW option
    PROVE  IsFiniteSet(Alike(graph, option)) /\ \A x \in Alike(graph, option) : x.weight \in Nat
<1>1. IsFiniteSet(Users(graph))
    <2>1. Users(graph) \subseteq DOMAIN graph.nodes
        BY GraphFinite DEF Users
    <2> QED BY <2>1, GraphFinite, FS_Subset
<1>2. ASSUME NEW p, NEW q PROVE Likeness(graph, p, q) \in Nat
    <2> DEFINE telling(n) == {t \in Accessed(graph, n) :
                                  \E u \in Users(graph) : t \notin Accessed(graph, u)}
    <2>1. IsFiniteSet(Accessed(graph, p))
        BY GraphFinite
    <2>2. telling(p) \cap telling(q) \subseteq Accessed(graph, p)
        OBVIOUS
    <2>3. IsFiniteSet(telling(p) \cap telling(q))
        BY <2>1, <2>2, FS_Subset
    <2>4. Cardinality(telling(p) \cap telling(q)) \in Nat
        BY <2>3, FS_CardinalityType
    <2> QED BY <2>4 DEF Likeness
<1> DEFINE Pairs == {p \in Users(graph) \X Users(graph) : p[1] < p[2]
               /\ (p[2] \in Nearest(graph, option, p[1]) \/ p[1] \in Nearest(graph, option, p[2]))}
           f == [x \in Pairs |->
                   [from |-> x[1], to |-> x[2], weight |-> 3 * Likeness(graph, x[1], x[2])]]
<1>3. IsFiniteSet(Pairs)
    <2>1. Pairs \subseteq Users(graph) \X Users(graph)
        OBVIOUS
    <2>2. IsFiniteSet(Users(graph) \X Users(graph))
        BY <1>1, FS_Product
    <2> HIDE DEF Pairs
    <2> QED BY <2>1, <2>2, FS_Subset
<1>4. Alike(graph, option) = {f[x] : x \in Pairs}
    BY DEF Alike
<1>5. \A x \in Pairs : f[x].weight \in Nat
    BY <1>2
<1> HIDE DEF f, Pairs
<1>6. IsFiniteSet({f[x] : x \in Pairs})
    BY <1>3, FiniteImage
<1> QED BY <1>4, <1>5, <1>6

\* What is between two units of the condensed graph is the same from both sides.
LEMMA CouplingIs ==
    ASSUME NEW graph \in CodeGraph, NEW option, NEW units
    PROVE  SymmetricOn(Coupling(graph, option, units), DOMAIN units)
<1> DEFINE between(e, i, j) == \/ e.from \in units[i] /\ e.to \in units[j]
                               \/ e.to \in units[i] /\ e.from \in units[j]
           edges(i, j) == {k \in DOMAIN graph.edges : between(graph.edges[k], i, j)}
           alike == IF option.likeness = 0 THEN {} ELSE Alike(graph, option)
           told(i, j) == {x \in alike : between(x, i, j)}
           first(i, j) == SumFunction([k \in edges(i, j) |-> Weight[graph.edges[k].kind]])
           second(i, j) == SumFunction([a \in told(i, j) |-> a.weight])
<1>1. Coupling(graph, option, units)
      = [i \in DOMAIN units |-> [j \in DOMAIN units |-> first(i, j) + second(i, j)]]
    BY DEF Coupling
<1>2. ASSUME NEW i, NEW j PROVE edges(i, j) = edges(j, i) /\ told(i, j) = told(j, i)
    OBVIOUS
<1>3. ASSUME NEW i, NEW j PROVE first(i, j) \in Nat
    <2> DEFINE S == edges(i, j)
               f == [k \in S |-> Weight[graph.edges[k].kind]]
    <2>1. S \subseteq DOMAIN graph.edges /\ DOMAIN f = S
        OBVIOUS
    <2>2. IsFiniteSet(S)
        <3> HIDE DEF S
        <3> QED BY <2>1, GraphFinite, FS_Subset
    <2>3. \A k \in S : f[k] \in Nat
        BY GraphFinite
    <2>4. first(i, j) = SumFunctionOnSet(f, DOMAIN f)
        BY DEF SumFunction
    <2> HIDE DEF S, f, first
    <2> QED BY <2>1, <2>2, <2>3, <2>4, SumOfNats
<1>4. IsFiniteSet(alike) /\ \A x \in alike : x.weight \in Nat
    BY AlikeType, FS_EmptySet
<1>5. ASSUME NEW i, NEW j PROVE second(i, j) \in Nat
    <2> DEFINE S == told(i, j)
               f == [a \in S |-> a.weight]
    <2>1. S \subseteq alike /\ DOMAIN f = S
        OBVIOUS
    <2>2. IsFiniteSet(S)
        <3> HIDE DEF S, alike
        <3> QED BY <1>4, <2>1, FS_Subset
    <2>3. \A a \in S : f[a] \in Nat
        BY <1>4
    <2>4. second(i, j) = SumFunctionOnSet(f, DOMAIN f)
        BY DEF SumFunction
    <2> HIDE DEF S, f, second, alike
    <2> QED BY <2>1, <2>2, <2>3, <2>4, SumOfNats
<1>6. ASSUME NEW i, NEW j PROVE first(i, j) = first(j, i) /\ second(i, j) = second(j, i)
    BY <1>2
<1> HIDE DEF first, second
<1>7. \A i, j \in DOMAIN units : first(i, j) + second(i, j) \in Nat
    BY <1>3, <1>5
<1> QED BY <1>1, <1>6, <1>7 DEF SymmetricOn

LEMMA OrdersAreSequences ==
    ASSUME NEW graph \in CodeGraph, NEW allowed, NEW units \in Orders(graph, allowed)
    PROVE  Len(units) \in Nat /\ DOMAIN units = 1 .. Len(units)
<1> DEFINE S == Condensed(graph, allowed)
<1>1. IsFiniteSet(S)
    <2>1. IsFiniteSet(DOMAIN graph.nodes)
        BY GraphFinite
    <2> DEFINE cycle == [n \in DOMAIN graph.nodes |->
                   {m \in DOMAIN graph.nodes :
                       m = n \/ (Leads(graph)[n, m] /\ Leads(graph)[m, n])} \cap allowed]
    <2>2. S = {cycle[n] : n \in DOMAIN graph.nodes} \ {{}}
        BY ZenonT(40) DEF Condensed, Cycles
    <2> HIDE DEF cycle
    <2>3. IsFiniteSet({cycle[n] : n \in DOMAIN graph.nodes})
        BY <2>1, FiniteImage
    <2> QED BY <2>2, <2>3, FS_Subset
<1>2. Cardinality(S) \in Nat
    BY <1>1, FS_CardinalityType
<1>3. units \in [1 .. Cardinality(S) -> S]
    BY DEF Orders, SetToSeqs
<1> HIDE DEF S
<1>4. units \in Seq(S) /\ Len(units) = Cardinality(S)
    BY <1>2, <1>3
<1> QED BY <1>2, <1>3, <1>4

LEMMA ResolutionsType == Resolutions \in Seq(AimType) /\ Len(Resolutions) = 5
<1>1. \A i \in 1 .. 5 : <<20, 10, 5, 2, 1>>[i] \in Int
    OBVIOUS
<1>2. \A i \in 1 .. 5 : Resolutions[i] \in AimType
    BY <1>1 DEF Resolutions, Aim, AimType
<1>3. Resolutions \in [1 .. 5 -> AimType]
    BY <1>2 DEF Resolutions
<1> QED BY <1>3, Listed

LEMMA NumbersType ==
    ASSUME NEW units \in Nat
    PROVE  Numbers(units) \in Seq(AimType)
<1> DEFINE numbers == IF units > 10000 THEN <<10, 20, 50>> ELSE <<3, 5, 10, 20, 50>>
           below == {i \in DOMAIN numbers : numbers[i] < Max({units, 1})}
<1>1. PICK n \in {3, 5} : DOMAIN numbers = 1 .. n /\ \A i \in 1 .. n : numbers[i] \in Nat
    <2>1. CASE units > 10000
        BY <2>1
    <2>2. CASE ~(units > 10000)
        BY <2>2
    <2> QED BY <2>1, <2>2
<1>2. \A i \in below : i \in DOMAIN numbers
    <2> HIDE DEF numbers
    <2> QED OBVIOUS
<1>3. Numbers(units) = [i \in 1 .. Cardinality(below) |-> Aim(numbers[i], 20, FALSE)]
    BY DEF Numbers
<1> HIDE DEF below, numbers
<1>4. Cardinality(below) \in Nat /\ Cardinality(below) <= n
    <2>1. below \subseteq 1 .. n
        BY <1>1, <1>2
    <2>2. IsFiniteSet(1 .. n) /\ Cardinality(1 .. n) = n
        <3>1. 1 \in Int /\ n \in Int /\ 1 <= n
            OBVIOUS
        <3> QED BY <3>1, FS_Interval
    <2> QED BY <2>1, <2>2, FS_Subset, FS_CardinalityType
<1>5. PICK c \in Nat : c = Cardinality(below) /\ c <= n
    BY <1>4
<1>6. \A i \in 1 .. c : Aim(numbers[i], 20, FALSE) \in AimType
    BY <1>1, <1>5 DEF Aim, AimType
<1>7. Numbers(units) \in [1 .. c -> AimType]
    BY <1>3, <1>5, <1>6
<1> QED BY <1>7, Listed

LEMMA AimsAreAims ==
    ASSUME NEW option \in Option, NEW units \in Nat
    PROVE  Aims(option, units) \in Seq(AimType) /\ Aims(option, units) # <<>>
<1>1. CASE Automatic(option)
    <2>1. PICK R, S, A : /\ R = Resolutions /\ S = Numbers(units) /\ A = AimType
                         /\ R \in Seq(A) /\ S \in Seq(A) /\ Len(R) = 5
        BY ResolutionsType, NumbersType
    <2>2. R \o S \in Seq(A) /\ Len(R \o S) = Len(R) + Len(S) /\ Len(S) \in Nat
        BY <2>1, ConcatProperties, LenProperties
    <2>3. R \o S # <<>>
        BY <2>1, <2>2
    <2> QED BY <1>1, <2>1, <2>2, <2>3 DEF Aims
<1>2. CASE ~Automatic(option)
    <2>1. option.k \in Nat \cup {NoK} /\ option.gamma \in Int \cup {NoGamma}
        BY ClusterAssumption
    <2>2. PICK g \in Int : g = IF option.gamma = NoGamma THEN 20 ELSE option.gamma
        BY <2>1
    <2>3. Aim(option.k, g, TRUE) \in AimType
        BY <2>1 DEF Aim, AimType
    <2>4. Aims(option, units) = <<Aim(option.k, g, TRUE)>>
        BY <1>2, <2>2 DEF Aims
    <2> QED BY <2>3, <2>4, Alone
<1> QED BY <1>1, <1>2

\* One of the runs is recommended.
LEMMA RecommendedIsOne ==
    ASSUME NEW runs \in Seq(ResultType), runs # <<>>
    PROVE  Recommended(runs) \in ResultType
<1> DEFINE least == {i \in DOMAIN runs : \A j \in DOMAIN runs : runs[i].k <= runs[j].k}
           handy == {i \in DOMAIN runs : runs[i].k \in Few .. Many}
           best == {i \in handy : \A j \in handy : runs[j].quality <= runs[i].quality}
           small == {i \in DOMAIN runs : runs[i].k <= Many}
<1>1. PICK D : D = DOMAIN runs /\ D \in SUBSET Nat /\ IsFiniteSet(D) /\ D # {} /\ 1 \in D
    <2>1. Len(runs) \in Nat /\ DOMAIN runs = 1 .. Len(runs) /\ Len(runs) > 0
        OBVIOUS
    <2>2. IsFiniteSet(1 .. Len(runs))
        BY <2>1, FS_Interval
    <2> QED BY <2>1, <2>2
<1>2. \A i \in D : runs[i] \in ResultType /\ runs[i].k \in Int /\ runs[i].quality \in Int
    <2>1. \A i \in D : runs[i] \in ResultType
        BY <1>1
    <2> QED BY <2>1 DEF ResultType
<1>3. Min(least) \in D
    <2> DEFINE f == [i \in D |-> runs[i].k]
    <2>1. \A i \in D : f[i] \in Int
        BY <1>2
    <2>2. \E i \in D : \A j \in D : f[i] <= f[j]
        <3> HIDE DEF f
        <3> QED BY <1>1, <2>1, LeastOf
    <2>3. least \in SUBSET Nat /\ least # {} /\ least \subseteq D
        BY <1>1, <2>2
    <2> HIDE DEF least
    <2> QED BY <2>3, LeastOfNats
<1>4. ASSUME handy # {} PROVE Max(best) \in D
    <2> DEFINE f == [i \in handy |-> runs[i].quality]
    <2>1. handy \subseteq D
        BY <1>1
    <2>2. IsFiniteSet(handy)
        <3> HIDE DEF handy
        <3> QED BY <1>1, <2>1, FS_Subset
    <2>3. \A i \in handy : f[i] \in Int
        BY <1>2, <2>1
    <2>4. \E i \in handy : \A j \in handy : f[j] <= f[i]
        <3> HIDE DEF f, handy
        <3> QED BY <1>4, <2>2, <2>3, GreatestOf
    <2>5. best # {} /\ best \subseteq handy
        BY <2>4
    <2> HIDE DEF best, handy
    <2>6. IsFiniteSet(best) /\ best \in SUBSET Int
        <3>1. IsFiniteSet(best)
            BY <2>2, <2>5, FS_Subset
        <3> QED BY <1>1, <2>1, <2>5, <3>1
    <2>7. Max(best) \in best
        BY <2>5, <2>6, GreatestOfInts
    <2> QED BY <2>1, <2>5, <2>7
<1>5. ASSUME small # {} PROVE Min(small) \in D
    <2>1. small \in SUBSET Nat /\ small \subseteq D
        BY <1>1
    <2> HIDE DEF small
    <2> QED BY <1>5, <2>1, LeastOfNats
<1>6. PICK few, good, some, i :
          /\ few = Min(least) /\ good = Max(best) /\ some = Min(small)
          /\ Recommended(runs) = runs[i]
          /\ i = (CASE runs[1].k <= Many -> few
                    [] runs[1].k > Many /\ handy # {} -> good
                    [] runs[1].k > Many /\ handy = {} /\ small # {} -> some
                    [] OTHER -> few)
    BY DEF Recommended
<1>7. runs[1].k \in Int /\ Many \in Int
    BY <1>1, <1>2, ClusterAssumption
<1> HIDE DEF least, handy, best, small
<1>8. i \in D
    <2>1. CASE runs[1].k <= Many
        BY <1>3, <1>6, <1>7, <2>1
    <2>2. CASE runs[1].k > Many /\ handy # {}
        BY <1>4, <1>6, <1>7, <2>2
    <2>3. CASE runs[1].k > Many /\ handy = {} /\ small # {}
        BY <1>5, <1>6, <1>7, <2>3
    <2>4. CASE runs[1].k > Many /\ handy = {} /\ small = {}
        BY <1>3, <1>6, <1>7, <2>4
    <2> QED BY <1>7, <2>1, <2>2, <2>3, <2>4
<1> QED BY <1>2, <1>6, <1>8

LEMMA DegreeType ==
    ASSUME RequestInv, NEW i \in Unit
    PROVE  UnitDegree(i) \in Nat
<1>1. W({i}, Unit) = SumFunction(request.coupling[i]) /\ W({i}, Unit) \in Nat
    BY StartedFigures, WType
<1> QED BY <1>1 DEF UnitDegree

LEMMA QualityType ==
    ASSUME RequestInv, NEW labels, DOMAIN labels = Unit
    PROVE  Quality(labels) \in Int /\ Cardinality(ToSet(labels)) \in Nat
<1> DEFINE within(c) == {i \in Unit : labels[i] = c}
           degrees(c) == [i \in within(c) |-> UnitDegree(i)]
           inners(c) == [i \in within(c) |-> SumFunctionOnSet(request.coupling[i], within(c))]
           f == [c \in ToSet(labels) |-> SumFunction(inners(c)) * Total
                                         - SumFunction(degrees(c)) * SumFunction(degrees(c))]
<1>1. IsFiniteSet(Unit) /\ \A i, j \in Unit : request.coupling[i][j] \in Nat
    BY UnitsFinite
<1>2. IsFiniteSet(ToSet(labels))
    BY <1>1, FiniteImage DEF ToSet
<1>3. ASSUME NEW c PROVE SumFunction(degrees(c)) \in Int /\ SumFunction(inners(c)) \in Int
    <2>1. within(c) \subseteq Unit /\ DOMAIN degrees(c) = within(c) /\ DOMAIN inners(c) = within(c)
        OBVIOUS
    <2>2. \A i \in within(c) : degrees(c)[i] \in Int
        BY DegreeType
    <2>3. \A i \in within(c) : inners(c)[i] = SumFunctionOnSet(request.coupling[i], within(c))
        OBVIOUS
    <2> HIDE DEF within, degrees, inners
    <2>4. IsFiniteSet(within(c))
        BY <1>1, <2>1, FS_Subset
    <2>5. \A i \in Unit : SumFunctionOnSet(request.coupling[i], within(c)) \in Nat
        <3>1. PICK w : w = within(c) /\ w \in SUBSET Unit
            BY <2>1
        <3>2. \A i \in Unit : SumFunctionOnSet(request.coupling[i], w) \in Nat
            BY <1>1, <3>1, AcrossType
        <3> QED BY <3>1, <3>2
    <2>6. \A i \in within(c) : inners(c)[i] \in Int
        BY <2>1, <2>3, <2>5
    <2> QED BY <2>1, <2>2, <2>4, <2>6, SumType DEF SumFunction
<1>4. Quality(labels) = SumFunction(f)
    BY DEF Quality
<1>5. ASSUME NEW c \in ToSet(labels) PROVE f[c] \in Int
    <2>1. Total \in Int
        BY TotalIs
    <2>2. PICK x \in Int, y \in Int, t \in Int :
              x = SumFunction(inners(c)) /\ y = SumFunction(degrees(c)) /\ t = Total
        BY <1>3, <2>1
    <2>3. f[c] = x * t - y * y
        BY <2>2
    <2>4. x * t - y * y \in Int
        OBVIOUS
    <2> QED BY <2>3, <2>4
<1>6. DOMAIN f = ToSet(labels)
    OBVIOUS
<1> HIDE DEF f
<1>7. SumFunction(f) \in Int
    BY <1>2, <1>5, <1>6, SumType DEF SumFunction
<1> QED BY <1>2, <1>4, <1>7, FS_CardinalityType

LEMMA NumberedOn ==
    ASSUME NEW labels
    PROVE  DOMAIN Numbered(labels) = DOMAIN labels
BY DEF Numbered

LEMMA ResultIs ==
    ASSUME RequestInv, AimInv, StateRight(cnm)
    PROVE  Result(Numbered(Communities)) \in ResultType
<1>1. DOMAIN Communities = Unit
    BY DEF Communities, StateRight, StateType, Unit
<1>2. PICK labels : labels = Numbered(Communities) /\ DOMAIN labels = Unit
    BY <1>1, NumberedOn
<1>3. Quality(labels) \in Int /\ Cardinality(ToSet(labels)) \in Nat
    BY <1>2, QualityType
<1> QED BY <1>2, <1>3 DEF Result, ResultType, AimInv, AimType

-----------------------------------------------------------------------------
(* The invariant. *)

\* The invariant holds at first,
LEMMA InitInv == PartitionInit => ClustersInv
<1> SUFFICES ASSUME PartitionInit PROVE ClustersInv
    OBVIOUS
<1>1. PICK graph \in CodeGraph, option \in Option :
          \E units \in Orders(graph, Allowed(graph, option.least)) :
              \E coupling \in {Coupling(graph, option, units)} :
                  /\ request = [graph |-> graph, option |-> option, units |-> units,
                                coupling |-> coupling]
                  /\ aim = Head(Aims(option, Len(units)))
                  /\ later = Tail(Aims(option, Len(units)))
                  /\ cnm = Started(coupling, aim.gamma)
                  /\ sweep = <<>> /\ report = <<>>
    BY DEF PartitionInit
<1>2. PICK units \in Orders(graph, Allowed(graph, option.least)) :
          /\ request = [graph |-> graph, option |-> option, units |-> units,
                        coupling |-> Coupling(graph, option, units)]
          /\ aim = Head(Aims(option, Len(units)))
          /\ later = Tail(Aims(option, Len(units)))
          /\ cnm = Started(request.coupling, aim.gamma)
          /\ sweep = <<>>
    <2>1. PICK units, coupling :
              /\ units \in Orders(graph, Allowed(graph, option.least))
              /\ coupling = Coupling(graph, option, units)
              /\ request = [graph |-> graph, option |-> option, units |-> units,
                            coupling |-> coupling]
              /\ aim = Head(Aims(option, Len(units)))
              /\ later = Tail(Aims(option, Len(units)))
              /\ cnm = Started(coupling, aim.gamma)
              /\ sweep = <<>>
        BY <1>1
    <2>2. request.coupling = coupling
        BY <2>1
    <2> QED BY <2>1, <2>2
<1>3. Len(units) \in Nat /\ DOMAIN units = 1 .. Len(units)
    BY OrdersAreSequences
<1>4. /\ request.coupling = Coupling(graph, option, units) /\ request.option = option
      /\ request.units = units
    BY <1>2
<1>5. DOMAIN units = Unit /\ N \in Nat
    BY <1>3, <1>4 DEF Unit, N
<1>6. SymmetricOn(request.coupling, Unit)
    BY <1>4, <1>5, CouplingIs
<1>7. RequestInv
    BY <1>4, <1>5, <1>6 DEF RequestInv
<1>8. PICK aims \in Seq(AimType) : aims = Aims(option, Len(units)) /\ aims # <<>>
    BY <1>3, AimsAreAims
<1>9. aim \in AimType /\ later \in Seq(AimType)
    BY <1>2, <1>8, HeadTailProperties
<1>10. StateRight(cnm)
    BY <1>2, <1>7, <1>9, StartedState DEF AimInv
<1>11. sweep \in Seq(ResultType)
    BY <1>2
<1> QED BY <1>7, <1>9, <1>10, <1>11 DEF ClustersInv, AimInv

\* What is said of the state of a run is said of what is partitioned and aimed at.
LEMMA SameRequest ==
    ASSUME request' = request, aim' = aim, NEW c
    PROVE  /\ RequestInv => RequestInv'
           /\ AimInv => AimInv'
           /\ StateRight(c)' <=> StateRight(c)
<1>1. N' = N /\ Unit' = Unit
    BY DEF N, Unit
<1>2. \A a, b : W(a, b)' = W(a, b)
    BY DEF W
<1>3. Forced' = Forced
    BY DEF Forced
<1>4. Total' = Total
    BY <1>1 DEF Total, UnitDegree
<1>5. \A e, x, y : Gain(e, x, y)' = Gain(e, x, y)
    BY <1>4 DEF Gain
<1>6. EntryType' = EntryType
    BY <1>1 DEF EntryType
<1>7. RequestInv => RequestInv'
    BY <1>1 DEF RequestInv
<1>8. AimInv => AimInv'
    BY DEF AimInv
<1>9. StateType(c)' <=> StateType(c)
    BY <1>1, <1>6 DEF StateType
<1>10. Parted(c)' <=> Parted(c)
    BY <1>1 DEF Parted
<1>11. \A x, y : Between(c, x, y)' = Between(c, x, y)
    BY <1>2 DEF Between
<1>12. \A x, y : Touch(c, x, y)' <=> Touch(c, x, y)
    BY <1>11 DEF Touch
<1>13. Weighed(c)' <=> Weighed(c)
    <2>1. (\A x, y \in Unit : Touch(c, x, y) => /\ {x, y} \in DOMAIN c.weight
                                               /\ c.weight[{x, y}] = Between(c, x, y))'
          <=> (\A x, y \in Unit : Touch(c, x, y) => /\ {x, y} \in DOMAIN c.weight
                                                  /\ c.weight[{x, y}] = Between(c, x, y))
        <3>1. ASSUME NEW x, NEW y
              PROVE  (/\ {x, y} \in DOMAIN c.weight /\ c.weight[{x, y}] = Between(c, x, y))'
                     <=> (/\ {x, y} \in DOMAIN c.weight /\ c.weight[{x, y}] = Between(c, x, y))
            BY <1>11
        <3> DEFINE Kept(x, y) ==
                /\ {x, y} \in DOMAIN c.weight /\ c.weight[{x, y}] = Between(c, x, y)
        <3>2. \A x, y : Kept(x, y)' <=> Kept(x, y)
            BY <3>1
        <3> HIDE DEF Kept
        <3>3. (\A x, y \in Unit : Touch(c, x, y) => Kept(x, y))'
              <=> (\A x, y \in Unit : Touch(c, x, y) => Kept(x, y))
            BY <1>1, <1>12, <3>2
        <3> QED BY <3>3 DEF Kept
    <2>2. (\A p \in DOMAIN c.weight : \E x, y \in Unit : p = {x, y} /\ Touch(c, x, y))'
          <=> (\A p \in DOMAIN c.weight : \E x, y \in Unit : p = {x, y} /\ Touch(c, x, y))
        BY <1>1, <1>12
    <2> QED BY <2>1, <2>2 DEF Weighed
<1>14. Figured(c)' <=> Figured(c)
    BY <1>1, <1>2, <1>12, <1>13 DEF Figured
<1>15. HeapWhole(c)' <=> HeapWhole(c)
    BY <1>1, <1>12 DEF HeapWhole, FreshIn
<1>16. Counted(c)' <=> Counted(c)
    BY <1>1, <1>3 DEF Counted, LiveIn
<1>17. \A e : EntryRight(c, e)' <=> EntryRight(c, e)
    BY <1>5, <1>11, <1>12 DEF EntryRight, FreshIn
<1> QED BY <1>7, <1>8, <1>9, <1>10, <1>14, <1>15, <1>16, <1>17 DEF StateRight

LEMMA TouchJoins ==
    ASSUME RequestInv, NEW c, StateRight(c), NEW x \in Unit, NEW y \in Unit, Touch(c, x, y)
    PROVE  Joining(c, x, y)
<1>1. x # y /\ W(c.members[x], c.members[y]) > 0
    BY DEF Touch, Between
<1>2. c.members[x] \in SUBSET Unit /\ c.members[y] \in SUBSET Unit
    BY DEF StateRight, StateType
<1>3. c.members[x] # {} /\ c.members[y] # {}
    BY <1>1, <1>2, WNone
<1> QED BY <1>1, <1>3 DEF Joining

LEMMA LiveIs ==
    ASSUME ClustersInv
    PROVE  /\ Live = LiveIn(cnm) /\ Live \in SUBSET Unit /\ IsFiniteSet(Live)
           /\ cnm.left = Cardinality(Live)
           /\ \A x \in Unit : IsFiniteSet(cnm.members[x]) /\ Size(x) \in Nat
<1>1. Live = LiveIn(cnm)
    BY DEF Live, LiveIn, Unit
<1>2. Live \in SUBSET Unit /\ IsFiniteSet(Live)
    <2>1. Live \in SUBSET Unit /\ IsFiniteSet(Unit)
        BY <1>1, UnitsFinite DEF LiveIn, ClustersInv
    <2> QED BY <2>1, FS_Subset
<1>3. ASSUME NEW x \in Unit PROVE IsFiniteSet(cnm.members[x]) /\ Size(x) \in Nat
    <2>1. cnm.members[x] \in SUBSET Unit /\ IsFiniteSet(Unit)
        BY UnitsFinite DEF ClustersInv, StateRight, StateType
    <2> QED BY <2>1, FS_Subset, FS_CardinalityType DEF Size
<1> QED BY <1>1, <1>2, <1>3 DEF ClustersInv, StateRight, Counted

LEMMA CandidateIs ==
    ASSUME ClustersInv, NEW e \in Candidates
    PROVE  /\ e \in cnm.heap /\ e.a \in Unit /\ e.b \in Unit /\ e.a < e.b
           /\ e.a \in Int /\ e.b \in Int /\ e.gain \in Int
           /\ FreshIn(cnm, e) /\ Touch(cnm, e.a, e.b)
           /\ e.gain = Gain(Between(cnm, e.a, e.b), cnm.degree[e.a], cnm.degree[e.b])
<1>1. e \in cnm.heap /\ FreshIn(cnm, e)
    BY DEF Candidates, Valid, FreshIn
<1>2. e \in EntryType /\ EntryRight(cnm, e)
    BY <1>1 DEF ClustersInv, StateRight, StateType
<1>3. e.a \in Unit /\ e.b \in Unit /\ e.gain \in Int
    BY <1>2 DEF EntryType
<1> QED BY <1>1, <1>2, <1>3 DEF EntryRight, Unit

LEMMA EntriesWhole ==
    ASSUME ClustersInv, NEW x \in Unit, NEW y \in Unit, x < y, Touch(cnm, x, y)
    PROVE  \E e \in Candidates : e.a = x /\ e.b = y
BY DEF ClustersInv, StateRight, HeapWhole, FreshIn, Candidates, Valid

\* The merge of the best pair is one of two parts.
LEMMA BestMerge ==
    ASSUME ClustersInv, NEW e \in Picks
    PROVE  /\ Joining(cnm, e.a, e.b)
           /\ StateRight(Merged(cnm, e.a, e.b, {f \in cnm.heap : ~Above(f, e)}, cnm.steps + 1))
<1>1. e \in Candidates /\ \A f \in Candidates : Above(e, f)
    BY DEF Picks
<1>2. /\ e.a \in Unit /\ e.b \in Unit /\ e.a < e.b /\ Touch(cnm, e.a, e.b)
      /\ e.a \in Int /\ e.b \in Int /\ e.gain \in Int
    BY <1>1, CandidateIs
<1>3. Joining(cnm, e.a, e.b)
    BY <1>2, TouchJoins DEF ClustersInv
<1>4. PICK heap \in SUBSET cnm.heap : heap = {f \in cnm.heap : ~Above(f, e)}
    OBVIOUS
<1>5. ASSUME NEW f \in cnm.heap, FreshIn(cnm, f), f.a \notin {e.a, e.b}, f.b \notin {e.a, e.b}
      PROVE  f \in heap
    <2>1. f \in Candidates
        BY <1>5 DEF Candidates, Valid, FreshIn
    <2>2. f.a \in Int /\ f.b \in Int /\ f.gain \in Int
        BY <2>1, CandidateIs
    <2>3. Above(e, f) /\ f.a # e.a
        BY <1>1, <1>5, <2>1
    <2>4. ~Above(f, e)
        BY <1>2, <2>2, <2>3 DEF Above
    <2> QED BY <1>4, <2>4
<1>6. cnm.steps + 1 \in Nat
    BY DEF ClustersInv, StateRight, StateType
<1>7. PICK a, b, steps : a = e.a /\ b = e.b /\ steps = cnm.steps + 1
    OBVIOUS
<1>8. StateRight(Merged(cnm, a, b, heap, steps))
    BY <1>3, <1>5, <1>6, <1>7, MergedState DEF ClustersInv
<1> QED BY <1>3, <1>4, <1>7, <1>8

\* There are a largest and a smallest part, and they have members.
LEMMA LargestAndSmallest ==
    ASSUME ClustersInv, GoesOn
    PROVE  /\ Largest \in Live /\ \A x \in Live : Size(x) <= Size(Largest)
           /\ Smallest \in Live /\ \A x \in Live : Size(Smallest) <= Size(x)
<1>1. /\ Live \in SUBSET Unit /\ IsFiniteSet(Live) /\ cnm.left = Cardinality(Live)
      /\ \A x \in Unit : Size(x) \in Nat
    BY LiveIs
<1>2. Least \in Nat
    <2>1. N \in Nat
        BY DEF ClustersInv, RequestInv
    <2>2. ASSUME NEW k \in Nat PROVE Min({k, N}) \in Nat
        BY <2>1, LeastOfNats
    <2>3. aim.k \in Nat \cup {NoK}
        BY DEF ClustersInv, AimInv, AimType
    <2> QED BY <2>2, <2>3 DEF Least, Forced
<1>3. Live # {}
    <2>1. cnm.left > Least
        BY DEF GoesOn
    <2> SUFFICES ASSUME Live = {} PROVE FALSE
        OBVIOUS
    <2>2. cnm.left = 0
        BY <1>1, FS_EmptySet
    <2> QED BY <1>2, <2>1, <2>2
<1>4. Unit \in SUBSET Nat
    BY DEF Unit
<1> DEFINE f == [x \in Live |-> Size(x)]
           large == {c \in Live : \A d \in Live : Size(d) <= Size(c)}
           small == {c \in Live : \A d \in Live : Size(c) <= Size(d)}
<1>5. \A x \in Live : f[x] \in Int /\ f[x] = Size(x)
    BY <1>1
<1> HIDE DEF f
<1>6. (\E x \in Live : \A y \in Live : f[y] <= f[x]) /\ (\E x \in Live : \A y \in Live : f[x] <= f[y])
    BY <1>1, <1>3, <1>5, GreatestOf, LeastOf
<1>7. large # {} /\ small # {} /\ large \in SUBSET Nat /\ small \in SUBSET Nat
    BY ZenonT(30), <1>1, <1>4, <1>5, <1>6
<1>8. Largest = Min(large) /\ Smallest = Min(small)
    BY DEF Largest, Smallest
<1>9. \A x \in large : x \in Live /\ \A y \in Live : Size(y) <= Size(x)
    OBVIOUS
<1>10. \A x \in small : x \in Live /\ \A y \in Live : Size(x) <= Size(y)
    OBVIOUS
<1> HIDE DEF large, small
<1>11. Largest \in large /\ Smallest \in small
    BY <1>7, <1>8, LeastOfNats
<1> QED BY <1>9, <1>10, <1>11

\* The forced merge is one of two parts.
LEMMA ApartMerge ==
    ASSUME ClustersInv, GoesOn, Forced, Candidates = {}, Largest # Smallest
    PROVE  /\ Joining(cnm, Largest, Smallest)
           /\ StateRight(Merged(cnm, Largest, Smallest, {}, cnm.steps))
<1>1. PICK a, b, steps : a = Largest /\ b = Smallest /\ steps = cnm.steps
    OBVIOUS
<1>2. a \in Live /\ b \in Live /\ a # b /\ Live = LiveIn(cnm)
    BY <1>1, LargestAndSmallest, LiveIs
<1>3. Joining(cnm, a, b)
    BY <1>2 DEF Joining, LiveIn
<1>4. steps \in Nat
    BY <1>1 DEF ClustersInv, StateRight, StateType
<1>5. \A e \in cnm.heap : ~FreshIn(cnm, e)
    BY DEF Candidates, Valid, FreshIn
<1>6. {} \in SUBSET cnm.heap
    OBVIOUS
<1>7. StateRight(Merged(cnm, a, b, {}, steps))
    BY <1>3, <1>4, <1>5, <1>6, MergedState DEF ClustersInv
<1> QED BY <1>1, <1>3, <1>7

LEMMA Starting ==
    RequestInv /\ AimInv /\ cnm = Started(request.coupling, aim.gamma) => StateRight(cnm)
BY StartedState

LEMMA StartingNext ==
    (RequestInv /\ AimInv /\ cnm = Started(request.coupling, aim.gamma) => StateRight(cnm))'
BY Starting, PTL

LEMMA Beginning ==
    ASSUME RequestInv, request' = request, NEW next \in AimType, Begins(next)
    PROVE  AimInv' /\ StateRight(cnm)'
<1>1. RequestInv'
    BY DEF RequestInv, N, Unit
<1>2. AimInv'
    BY DEF Begins, AimInv, AimType
<1>3. cnm' = Started(request.coupling, next.gamma) /\ aim' = next
    BY DEF Begins
<1>4. (cnm = Started(request.coupling, aim.gamma))'
    BY <1>3 DEF Started, Entry
<1> QED BY <1>1, <1>2, <1>4, StartingNext

LEMMA SweepNext ==
    ASSUME ClustersInv, sweep' = Append(sweep, Result(Numbered(Communities)))
    PROVE  sweep' \in Seq(ResultType) /\ sweep' # <<>>
<1>1. PICK r \in ResultType : r = Result(Numbered(Communities))
    BY ResultIs DEF ClustersInv
<1>2. sweep \in Seq(ResultType) /\ sweep' = Append(sweep, r)
    BY <1>1 DEF ClustersInv
<1> QED BY <1>2, AppendProperties

\* and every step keeps it.
LEMMA NextInv == ClustersInv /\ [PartitionNext]_clusterVars => ClustersInv'
<1> SUFFICES ASSUME ClustersInv, [PartitionNext]_clusterVars PROVE ClustersInv'
    OBVIOUS
<1>1. RequestInv /\ AimInv /\ StateRight(cnm) /\ later \in Seq(AimType) /\ sweep \in Seq(ResultType)
    BY DEF ClustersInv
<1>2. ASSUME request' = request, aim' = aim, NEW c, StateRight(c), cnm' = c,
             later' = later, sweep' = sweep
      PROVE  ClustersInv'
    <2>1. RequestInv' /\ AimInv' /\ StateRight(c)'
        BY <1>1, <1>2, SameRequest
    <2>2. later' \in Seq(AimType) /\ sweep' \in Seq(ResultType)
        BY <1>1, <1>2
    <2>3. StateRight(cnm)'
        BY <1>2, <2>1
    <2> QED BY <2>1, <2>2, <2>3 DEF ClustersInv, AimType, ResultType
<1>3. ASSUME request' = request, NEW next \in AimType, Begins(next),
             later' \in Seq(AimType), sweep' \in Seq(ResultType)
      PROVE  ClustersInv'
    <2>1. RequestInv'
        BY <1>1, <1>3 DEF RequestInv, N, Unit
    <2>2. AimInv' /\ StateRight(cnm)'
        BY <1>1, <1>3, Beginning
    <2> QED BY <1>3, <2>1, <2>2 DEF ClustersInv, AimType, ResultType
<1>4. CASE MergeBest
    <2>1. PICK e \in Picks :
              /\ cnm' = Merged(cnm, e.a, e.b, {f \in cnm.heap : ~Above(f, e)}, cnm.steps + 1)
              /\ UNCHANGED <<request, aim, later, sweep, report>>
        BY <1>4 DEF MergeBest
    <2>2. PICK c : c = Merged(cnm, e.a, e.b, {f \in cnm.heap : ~Above(f, e)}, cnm.steps + 1)
        OBVIOUS
    <2>3. StateRight(c)
        BY <2>2, BestMerge
    <2> QED BY <1>2, <2>1, <2>2, <2>3
<1>5. CASE MergeApart
    <2>1. PICK c : c = Merged(cnm, Largest, Smallest, {}, cnm.steps)
        OBVIOUS
    <2>2. StateRight(c)
        BY <1>5, <2>1, ApartMerge DEF MergeApart
    <2>3. cnm' = c /\ UNCHANGED <<request, aim, later, sweep, report>>
        BY <1>5, <2>1 DEF MergeApart
    <2> QED BY <1>2, <2>2, <2>3
<1>6. CASE NextRun
    <2>1. /\ request' = request /\ later # <<>> /\ later' = Tail(later) /\ Begins(Head(later))
          /\ sweep' = Append(sweep, Result(Numbered(Communities)))
        BY <1>6 DEF NextRun
    <2>2. Head(later) \in AimType /\ later' \in Seq(AimType)
        BY <1>1, <2>1, HeadTailProperties
    <2>3. sweep' \in Seq(ResultType)
        BY <2>1, SweepNext
    <2> QED BY <1>3, <2>1, <2>2, <2>3
<1>7. CASE Recommend
    <2>1. PICK best : /\ best = Recommended(sweep')
                      /\ Begins(Aim(best.k, best.gamma, TRUE))
                      /\ request' = request /\ later' = later
                      /\ sweep' = Append(sweep, Result(Numbered(Communities)))
        BY <1>7 DEF Recommend
    <2>2. sweep' \in Seq(ResultType) /\ sweep' # <<>>
        BY <2>1, SweepNext
    <2>3. PICK runs \in Seq(ResultType) : runs = sweep' /\ runs # <<>>
        BY <2>2
    <2>4. best \in ResultType
        BY <2>1, <2>3, RecommendedIsOne
    <2>5. PICK next \in AimType : next = Aim(best.k, best.gamma, TRUE)
        BY <2>4 DEF Aim, AimType, ResultType
    <2>6. later' \in Seq(AimType)
        BY <1>1, <2>1
    <2> QED BY <1>3, <2>1, <2>2, <2>5, <2>6
<1>8. CASE Finish
    <2>1. UNCHANGED <<request, aim, later, cnm, sweep>>
        BY <1>8 DEF Finish
    <2>2. PICK c : c = cnm
        OBVIOUS
    <2> QED BY <1>1, <1>2, <2>1, <2>2
<1>9. CASE UNCHANGED clusterVars
    <2>1. UNCHANGED <<request, aim, later, cnm, sweep>>
        BY <1>9 DEF clusterVars
    <2>2. PICK c : c = cnm
        OBVIOUS
    <2> QED BY <1>1, <1>2, <2>1, <2>2
<1> QED BY <1>4, <1>5, <1>6, <1>7, <1>8, <1>9 DEF PartitionNext

\* Whatever was merged so far, the figures and the heap that CnmState keeps are those of the
\* parts it has (CnmState::new, merge_communities, pop_valid).
THEOREM ClustersKeepInv == PartitionSpec => []ClustersInv
<1> QED BY InitInv, NextInv, PTL DEF PartitionSpec

-----------------------------------------------------------------------------
(* What GreedyClusters figures, in terms of the state of a run. *)

Parts == {cnm.members[c] : c \in Live}

\* The library's operators are the same there.
LEMMA GreedySums ==
    /\ \A f, S : Greedy!SumFunctionOnSet(f, S) = SumFunctionOnSet(f, S)
    /\ \A f : Greedy!SumFunction(f) = SumFunction(f)
<1>1. ASSUME NEW f, NEW S PROVE Greedy!SumFunctionOnSet(f, S) = SumFunctionOnSet(f, S)
    BY DEF Greedy!SumFunctionOnSet, SumFunctionOnSet, Greedy!FoldFunctionOnSet,
           FoldFunctionOnSet, Greedy!MapThenFoldSet, MapThenFoldSet
<1>2. ASSUME NEW f PROVE Greedy!SumFunction(f) = SumFunction(f)
    BY <1>1 DEF Greedy!SumFunction, SumFunction
<1> QED BY <1>1, <1>2

LEMMA GreedyCounts ==
    /\ \A S : Greedy!Cardinality(S) = Cardinality(S)
    /\ \A k, S : Greedy!kSubset(k, S) = kSubset(k, S)
<1>1. ASSUME NEW S PROVE Greedy!Cardinality(S) = Cardinality(S)
    BY DEF Greedy!Cardinality, Cardinality
<1>2. ASSUME NEW k, NEW S PROVE Greedy!kSubset(k, S) = kSubset(k, S)
    BY <1>1 DEF Greedy!kSubset, kSubset
<1> QED BY <1>1, <1>2

\* What GreedyClusters figures is what is between sets of units.
LEMMA GreedyFigures ==
    ASSUME RequestInv
    PROVE  /\ \A a, b : Greedy!Between(a, b) = W(a, b)
           /\ Greedy!Units = Unit /\ Greedy!Total = Total
           /\ \A a : Greedy!Modularity(a)
                     = 20 * W(a, a) * Total - aim.gamma * W(a, Unit) * W(a, Unit)
<1>1. ASSUME NEW a, NEW b PROVE Greedy!Between(a, b) = W(a, b)
    BY GreedySums DEF Greedy!Between, W, Across
<1>2. Greedy!Units = Unit
    BY UnitsFinite DEF Greedy!Units
<1>3. Greedy!Total = Total
    BY <1>1, <1>2, TotalIs DEF Greedy!Total
<1> QED BY <1>1, <1>2, <1>3 DEF Greedy!Modularity

LEMMA PartsAre ==
    ASSUME ClustersInv
    PROVE  /\ IsFiniteSet(Parts) /\ Cardinality(Parts) = cnm.left
           /\ \A x \in Live : cnm.members[x] \in SUBSET Unit /\ cnm.members[x] # {}
           /\ \A x, y \in Live : x # y => /\ cnm.members[x] \cap cnm.members[y] = {}
                                          /\ cnm.members[x] # cnm.members[y]
<1>1. /\ Live = LiveIn(cnm) /\ Live \in SUBSET Unit /\ IsFiniteSet(Live)
      /\ cnm.left = Cardinality(Live)
    BY LiveIs
<1>2. \A x \in Live : cnm.members[x] \in SUBSET Unit /\ cnm.members[x] # {}
    BY <1>1 DEF LiveIn, ClustersInv, StateRight, StateType
<1>3. \A x, y \in Live : x # y => cnm.members[x] \cap cnm.members[y] = {}
    BY <1>1 DEF ClustersInv, StateRight, Parted
<1>4. \A x, y \in Live : x # y => cnm.members[x] # cnm.members[y]
    BY <1>2, <1>3
<1> DEFINE f == [x \in Live |-> cnm.members[x]]
<1>5. f \in Bijection(Live, Parts)
    <2>1. f \in [Live -> Parts]
        BY DEF Parts
    <2>2. \A x, y \in Live : f[x] = f[y] => x = y
        BY <1>4
    <2>3. \A p \in Parts : \E x \in Live : f[x] = p
        BY DEF Parts
    <2> QED BY <2>1, <2>2, <2>3 DEF Bijection, Injection, IsInjective, Surjection
<1>6. ExistsBijection(Live, Parts)
    BY <1>5 DEF ExistsBijection
<1>7. IsFiniteSet(Parts) /\ Cardinality(Parts) = Cardinality(Live)
    BY <1>1, <1>6, FS_Bijection
<1> QED BY <1>1, <1>2, <1>3, <1>4, <1>7

LEMMA TwoOf ==
    ASSUME NEW S, IsFiniteSet(S), NEW a \in S, NEW b \in S, a # b
    PROVE  Cardinality(S) = 2 <=> S = {a, b}
<1>1. /\ IsFiniteSet(S \ {a}) /\ Cardinality(S \ {a}) = Cardinality(S) - 1
      /\ b \in S \ {a} /\ Cardinality(S) \in Nat
    BY FS_RemoveElement, FS_CardinalityType
<1>2. PICK R : R = S \ {a}
    OBVIOUS
<1>3. IsFiniteSet(R \ {b}) /\ Cardinality(R \ {b}) = Cardinality(R) - 1 /\ Cardinality(R) \in Nat
    BY <1>1, <1>2, FS_RemoveElement, FS_CardinalityType
<1>4. Cardinality(R \ {b}) = 0 <=> R \ {b} = {}
    BY <1>3, FS_EmptySet
<1>5. R \ {b} = {} <=> S = {a, b}
    BY <1>2
<1> QED BY <1>1, <1>2, <1>3, <1>4, <1>5

\* Two parts that touch there are those of two units that touch here.
LEMMA TouchingIs ==
    ASSUME ClustersInv, NEW pair
    PROVE  pair \in Greedy!Touching
           <=> \E x, y \in Unit : /\ x < y /\ Touch(cnm, x, y)
                                  /\ pair = {cnm.members[x], cnm.members[y]}
<1>0. RequestInv /\ StateRight(cnm) /\ cnm.members \in [Unit -> SUBSET Unit]
    BY DEF ClustersInv, StateRight, StateType
<1>1. /\ IsFiniteSet(Parts)
      /\ \A x \in Live : cnm.members[x] \in SUBSET Unit /\ cnm.members[x] # {}
      /\ \A x, y \in Live : x # y => /\ cnm.members[x] \cap cnm.members[y] = {}
                                     /\ cnm.members[x] # cnm.members[y]
    BY PartsAre
<1>2. Live = LiveIn(cnm) /\ Live \in SUBSET Unit
    BY LiveIs
<1>3. Greedy!Touching = {p \in kSubset(2, Parts) : \E a, b \in p : a # b /\ W(a, b) > 0}
    BY <1>0, GreedyFigures, GreedyCounts DEF Greedy!Touching, Parts
<1>4. ASSUME pair \in Greedy!Touching
      PROVE  \E x, y \in Unit : /\ x < y /\ Touch(cnm, x, y)
                                /\ pair = {cnm.members[x], cnm.members[y]}
    <2>1. /\ pair \in SUBSET Parts /\ Cardinality(pair) = 2
          /\ \E a, b \in pair : a # b /\ W(a, b) > 0
        BY <1>3, <1>4 DEF kSubset
    <2>2. PICK a \in pair, b \in pair : a # b /\ W(a, b) > 0
        BY <2>1
    <2>3. IsFiniteSet(pair)
        BY <1>1, <2>1, FS_Subset
    <2>4. pair = {a, b}
        BY <2>1, <2>2, <2>3, TwoOf
    <2>5. PICK x \in Live, y \in Live : a = cnm.members[x] /\ b = cnm.members[y]
        BY <2>1 DEF Parts
    <2>6. x # y /\ x \in Unit /\ y \in Unit /\ (x < y \/ y < x)
        BY <1>2, <2>2, <2>5 DEF Unit
    <2>7. W(a, b) = W(b, a)
        BY <1>0, <1>1, <2>5, WType
    <2>8. Touch(cnm, x, y) /\ Touch(cnm, y, x)
        BY <2>2, <2>5, <2>6, <2>7 DEF Touch, Between
    <2>9. pair = {cnm.members[x], cnm.members[y]} /\ pair = {cnm.members[y], cnm.members[x]}
        BY <2>4, <2>5
    <2> QED BY <2>6, <2>8, <2>9
<1>5. ASSUME NEW x \in Unit, NEW y \in Unit, x < y, Touch(cnm, x, y),
             pair = {cnm.members[x], cnm.members[y]}
      PROVE  pair \in Greedy!Touching
    <2>1. Joining(cnm, x, y)
        BY <1>0, <1>5, TouchJoins
    <2>2. x \in Live /\ y \in Live /\ x # y
        BY <1>2, <2>1 DEF Joining, LiveIn
    <2>3. PICK a, b : /\ a = cnm.members[x] /\ b = cnm.members[y] /\ a # b /\ W(a, b) > 0
                      /\ a \in Parts /\ b \in Parts /\ pair = {a, b}
        BY <1>1, <1>5, <2>2 DEF Touch, Between, Parts
    <2>4. IsFiniteSet(pair)
        BY <1>1, <2>3, FS_Subset
    <2>5. Cardinality(pair) = 2
        BY <2>3, <2>4, TwoOf
    <2> QED BY <1>3, <2>3, <2>5 DEF kSubset
<1> QED BY <1>4, <1>5

\* What joining two parts raises the modularity by is twice what their entry says, so
\* figured in the terms of both.
LEMMA JoinGain ==
    ASSUME ClustersInv, NEW x \in Unit, NEW y \in Unit, Joining(cnm, x, y)
    PROVE  /\ Greedy!Gain({cnm.members[x], cnm.members[y]})
              = 2 * Gain(Between(cnm, x, y), cnm.degree[x], cnm.degree[y])
           /\ Gain(Between(cnm, x, y), cnm.degree[x], cnm.degree[y]) \in Int
<1>0. /\ RequestInv /\ AimInv /\ StateRight(cnm) /\ cnm.members \in [Unit -> SUBSET Unit]
      /\ cnm.degree[x] = W(cnm.members[x], Unit) /\ cnm.degree[y] = W(cnm.members[y], Unit)
    BY DEF ClustersInv, StateRight, StateType, Figured
<1>1. x # y /\ cnm.members[x] \cap cnm.members[y] = {} /\ cnm.members[x] # cnm.members[y]
    BY <1>0 DEF Joining, StateRight, Parted
<1>2. PICK a \in SUBSET Unit, b \in SUBSET Unit :
          /\ a = cnm.members[x] /\ b = cnm.members[y] /\ a \cap b = {} /\ a # b
    BY <1>0, <1>1
<1>3. PICK aa, ab, bb, da, db, t, g :
          /\ aa = W(a, a) /\ ab = W(a, b) /\ bb = W(b, b) /\ da = W(a, Unit) /\ db = W(b, Unit)
          /\ t = Total /\ g = aim.gamma
          /\ aa \in Int /\ ab \in Int /\ bb \in Int /\ da \in Int /\ db \in Int
          /\ t \in Int /\ g \in Int
    <2>1. /\ W(a, a) \in Int /\ W(a, b) \in Int /\ W(b, b) \in Int
          /\ W(a, Unit) \in Int /\ W(b, Unit) \in Int /\ Total \in Int
        BY <1>0, WType, TotalIs
    <2>2. aim.gamma \in Int
        BY <1>0 DEF AimInv, AimType
    <2> QED BY <2>1, <2>2
<1>4. PICK u \in SUBSET Unit : u = a \cup b
    OBVIOUS
<1>5. W(u, Unit) = da + db
    BY <1>0, <1>2, <1>3, <1>4, WUnion
<1>6. W(u, u) = aa + 2 * ab + bb
    <2>1. W(u, u) = W(a, u) + W(b, u)
        BY <1>0, <1>2, <1>4, WUnion
    <2>2. W(a, u) = W(a, a) + W(a, b) /\ W(b, u) = W(b, a) + W(b, b)
        <3>1. W(a, a \cup b) = W(a, a) + W(a, b)
            BY ZenonT(30), <1>0, <1>2, WUnion
        <3>2. W(b, a \cup b) = W(b, a) + W(b, b)
            BY ZenonT(30), <1>0, <1>2, WUnion
        <3> QED BY <1>4, <3>1, <3>2
    <2>3. W(b, a) = W(a, b)
        BY <1>0, WType
    <2> QED BY <1>3, <2>1, <2>2, <2>3
<1>7. /\ Greedy!Modularity(a) = 20 * aa * t - g * da * da
      /\ Greedy!Modularity(b) = 20 * bb * t - g * db * db
      /\ Greedy!Modularity(u) = 20 * (aa + 2 * ab + bb) * t - g * (da + db) * (da + db)
    BY <1>0, <1>3, <1>5, <1>6, GreedyFigures
<1>8. Greedy!SumFunction([part \in {a, b} |-> Greedy!Modularity(part)])
      = Greedy!Modularity(a) + Greedy!Modularity(b)
    <2> DEFINE f == [part \in {a, b} |-> Greedy!Modularity(part)]
    <2>1. /\ DOMAIN f = {a, b} /\ f[a] = Greedy!Modularity(a) /\ f[b] = Greedy!Modularity(b)
        OBVIOUS
    <2>2. Greedy!Modularity(a) \in Int /\ Greedy!Modularity(b) \in Int
        BY <1>3, <1>7
    <2>6. Greedy!SumFunction(f) = SumFunctionOnSet(f, {a, b})
        BY <2>1, GreedySums DEF SumFunction
    <2> HIDE DEF f
    <2>3. SumFunctionOnSet(f, {a}) = f[a]
        BY <2>1, <2>2, SumOfOne
    <2>4. SumFunctionOnSet(f, {a} \cup {b}) = SumFunctionOnSet(f, {a}) + f[b]
        <3>1. /\ IsFiniteSet({a}) /\ b \notin {a} /\ f[b] \in Int /\ \A z \in {a} : f[z] \in Int
            BY <1>2, <2>1, <2>2, FS_Singleton
        <3> QED BY <3>1, SumWith
    <2>5. {a} \cup {b} = {a, b}
        OBVIOUS
    <2>7. Greedy!SumFunction(f) = Greedy!Modularity(a) + Greedy!Modularity(b)
        BY <2>1, <2>3, <2>4, <2>5, <2>6
    <2> QED BY <2>7 DEF f
<1>9. UNION {a, b} = u
    BY <1>4
<1>10. Greedy!Gain({a, b}) = Greedy!Modularity(u) - (Greedy!Modularity(a) + Greedy!Modularity(b))
    BY <1>8, <1>9 DEF Greedy!Gain
<1>11. Gain(ab, da, db) = 20 * ab * t - g * da * db
    BY <1>3 DEF Gain
<1>12. 20 * (aa + 2 * ab + bb) * t - g * (da + db) * (da + db)
         - ((20 * aa * t - g * da * da) + (20 * bb * t - g * db * db))
       = 2 * (20 * ab * t - g * da * db)
    <2>1. g * (da + db) * (da + db) = g * da * da + 2 * (g * da * db) + g * db * db
        BY <1>3
    <2>2. 20 * (aa + 2 * ab + bb) * t = 20 * aa * t + 2 * (20 * ab * t) + 20 * bb * t
        BY <1>3
    <2> QED BY <1>3, <2>1, <2>2
<1>13. Greedy!Gain({a, b}) = 2 * Gain(ab, da, db) /\ Gain(ab, da, db) \in Int
    BY <1>3, <1>7, <1>10, <1>11, <1>12
<1> QED BY <1>0, <1>2, <1>3, <1>13 DEF Between

-----------------------------------------------------------------------------
(* Each step is one of GreedyClusters. *)

LEMMA GoesOnIsUnfinished ==
    ASSUME ClustersInv
    PROVE  /\ GoesOn => Greedy!Unfinished /\ Total > 0
           /\ report = <<>> /\ ~GoesOn => ~Greedy!Unfinished \/ Total = 0
<1>1. /\ N \in Nat /\ Cardinality(Unit) = N
      /\ Total \in Nat
    BY UnitsFinite, TotalIs DEF ClustersInv, RequestInv
<1>2. Cardinality(Parts) = cnm.left
    BY PartsAre
<1>3. cnm.left \in Nat /\ cnm.steps \in Nat /\ (~Forced => cnm.steps + cnm.left = N)
    BY DEF ClustersInv, StateRight, StateType, Counted
<1>4. Greedy!Unfinished
      <=> cnm.left > Least /\ (Forced \/ N - cnm.left < request.option.cap)
    <2>1. Greedy!Units = Unit
        BY GreedyFigures DEF ClustersInv
    <2> QED BY <1>1, <1>2, <2>1, GreedyCounts DEF Greedy!Unfinished, Parts
<1>5. ~Forced => N - cnm.left = cnm.steps
    BY <1>1, <1>3
<1>6. Greedy!Unfinished
      <=> cnm.left > Least /\ (Forced \/ cnm.steps < request.option.cap)
    BY <1>4, <1>5
<1>7. Total > 0 <=> Total # 0
    BY <1>1
<1> QED BY <1>6, <1>7 DEF GoesOn

LEMMA WorthIs ==
    ASSUME NEW pair, NEW g \in Int, Greedy!Gain(pair) = 2 * g, ClustersInv
    PROVE  Greedy!Worthwhile(pair) <=> Worthwhile(g)
<1>1. Greedy!Total = Total
    BY GreedyFigures DEF ClustersInv
<1>2. 50 * (2 * g) = 100 * g
    OBVIOUS
<1> QED BY <1>1, <1>2 DEF Greedy!Worthwhile, Worthwhile

\* The parts after a merge.
LEMMA MergedParts ==
    ASSUME ClustersInv, NEW a, NEW b, Joining(cnm, a, b), NEW heap, NEW steps \in Nat,
           ~Forced => steps = cnm.steps + 1,
           cnm' = Merged(cnm, a, b, heap, steps), request' = request, aim' = aim
    PROVE  Greedy!Joins({cnm.members[a], cnm.members[b]})
<1>1. PICK c, d : c = cnm /\ d = cnm' /\ d = Merged(c, a, b, heap, steps)
    OBVIOUS
<1>2. RequestInv /\ StateRight(c) /\ Joining(c, a, b) /\ (~Forced => steps = c.steps + 1)
    BY <1>1 DEF ClustersInv
<1>3. /\ d.members \in [Unit -> SUBSET Unit]
      /\ d.members[a] = c.members[a] \cup c.members[b] /\ d.members[b] = {}
      /\ \A x \in Unit \ {a, b} : d.members[x] = c.members[x]
    BY <1>1, <1>2, MergedMembers
<1>4. LiveIn(d) = LiveIn(c) \ {b}
    BY <1>1, <1>2, MergedCounted
<1>5. Live = LiveIn(c) /\ Live \in SUBSET Unit
    BY <1>1, LiveIs
<1>6. Live' = LiveIn(d)
    BY <1>1 DEF Live, LiveIn, Unit, N
<1>7. a \in Live /\ b \in Live /\ a # b
    BY <1>1, <1>5 DEF Joining, LiveIn
<1>8. \A x, y \in Live : x # y => c.members[x] # c.members[y]
    BY <1>1, PartsAre
<1> DEFINE pair == {c.members[a], c.members[b]}
<1>9. UNION pair = d.members[a]
    BY <1>3
<1>10. {d.members[x] : x \in LiveIn(d)} = ({c.members[x] : x \in Live} \ pair) \cup {UNION pair}
    <2>1. ASSUME NEW x \in LiveIn(d)
          PROVE  d.members[x] \in ({c.members[y] : y \in Live} \ pair) \cup {UNION pair}
        <3>1. x \in Live /\ x # b
            BY <1>4, <1>5
        <3>2. CASE x = a
            BY <1>9, <3>2
        <3>3. CASE x # a
            <4>1. d.members[x] = c.members[x]
                BY <1>3, <1>5, <3>1, <3>3
            <4>2. c.members[x] # c.members[a] /\ c.members[x] # c.members[b]
                BY <1>7, <1>8, <3>1, <3>3
            <4> QED BY <3>1, <4>1, <4>2
        <3> QED BY <3>2, <3>3
    <2>2. ASSUME NEW p \in ({c.members[y] : y \in Live} \ pair) \cup {UNION pair}
          PROVE  \E x \in LiveIn(d) : p = d.members[x]
        <3>1. CASE p = UNION pair
            <4>1. a \in LiveIn(d)
                BY <1>4, <1>5, <1>7
            <4> QED BY <1>9, <3>1, <4>1
        <3>2. CASE p \in {c.members[y] : y \in Live} /\ p \notin pair
            <4>1. PICK x \in Live : p = c.members[x]
                BY <3>2
            <4>2. x # a /\ x # b
                BY <3>2, <4>1
            <4>3. d.members[x] = c.members[x] /\ x \in LiveIn(d)
                BY <1>3, <1>4, <1>5, <4>1, <4>2
            <4> QED BY <4>1, <4>3
        <3> QED BY <2>2, <3>1, <3>2
    <2> QED BY ZenonT(30), <2>1, <2>2
<1>11. {cnm'.members[x] : x \in Live'}
       = ({cnm.members[x] : x \in Live} \ {cnm.members[a], cnm.members[b]})
         \cup {UNION {cnm.members[a], cnm.members[b]}}
    <2>1. {cnm'.members[x] : x \in Live'} = {d.members[x] : x \in LiveIn(d)}
        BY <1>1, <1>6
    <2>2. PICK P : P = {c.members[x] : x \in Live} /\ P = {cnm.members[x] : x \in Live}
        BY <1>1
    <2>3. pair = {cnm.members[a], cnm.members[b]}
        BY <1>1
    <2> HIDE DEF pair
    <2>4. {d.members[x] : x \in LiveIn(d)} = (P \ pair) \cup {UNION pair}
        BY <1>10, <2>2
    <2> QED BY <2>1, <2>2, <2>3, <2>4
<1>12. Least' = Least /\ Forced' = Forced
    BY DEF Least, Forced, N
<1> QED BY <1>11, <1>12 DEF Greedy!Joins

\* The gain in a fresh entry is that of joining its parts.
LEMMA EntryGain ==
    ASSUME ClustersInv, NEW e \in Candidates
    PROVE  /\ {cnm.members[e.a], cnm.members[e.b]} \in Greedy!Touching
           /\ Greedy!Gain({cnm.members[e.a], cnm.members[e.b]}) = 2 * e.gain /\ e.gain \in Int
<1>1. /\ e.a \in Unit /\ e.b \in Unit /\ e.a < e.b /\ Touch(cnm, e.a, e.b)
      /\ e.gain = Gain(Between(cnm, e.a, e.b), cnm.degree[e.a], cnm.degree[e.b])
    BY CandidateIs
<1>2. PICK x \in Unit, y \in Unit : x = e.a /\ y = e.b /\ x < y /\ Touch(cnm, x, y)
    BY <1>1
<1>3. Joining(cnm, x, y)
    BY <1>2, TouchJoins DEF ClustersInv
<1>4. PICK pair : pair = {cnm.members[x], cnm.members[y]}
    OBVIOUS
<1>5. pair \in Greedy!Touching
    BY <1>2, <1>4, TouchingIs
<1>6. /\ Greedy!Gain({cnm.members[x], cnm.members[y]})
         = 2 * Gain(Between(cnm, x, y), cnm.degree[x], cnm.degree[y])
      /\ Gain(Between(cnm, x, y), cnm.degree[x], cnm.degree[y]) \in Int
    BY <1>3, JoinGain
<1> QED BY <1>1, <1>2, <1>4, <1>5, <1>6

\* Parts that touch have an entry that is not stale.
LEMMA TouchingHasEntry ==
    ASSUME ClustersInv, NEW pair \in Greedy!Touching
    PROVE  \E e \in Candidates : /\ pair = {cnm.members[e.a], cnm.members[e.b]}
                                 /\ Greedy!Gain(pair) = 2 * e.gain /\ e.gain \in Int
<1>1. PICK x \in Unit, y \in Unit : /\ x < y /\ Touch(cnm, x, y)
                                    /\ pair = {cnm.members[x], cnm.members[y]}
    BY TouchingIs
<1>2. PICK e \in Candidates : e.a = x /\ e.b = y
    BY <1>1, EntriesWhole
<1>3. Greedy!Gain({cnm.members[e.a], cnm.members[e.b]}) = 2 * e.gain /\ e.gain \in Int
    BY EntryGain
<1> QED BY <1>1, <1>2, <1>3

\* The highest fresh entry is of the best pair.
LEMMA PickIsBest ==
    ASSUME ClustersInv, NEW e \in Picks
    PROVE  {cnm.members[e.a], cnm.members[e.b]} \in Greedy!Best
<1>1. e \in Candidates /\ \A f \in Candidates : Above(e, f)
    BY DEF Picks
<1>2. PICK pair : /\ pair = {cnm.members[e.a], cnm.members[e.b]} /\ pair \in Greedy!Touching
                  /\ Greedy!Gain(pair) = 2 * e.gain /\ e.gain \in Int
    BY <1>1, EntryGain
<1>3. ASSUME NEW other \in Greedy!Touching PROVE Greedy!Gain(other) <= Greedy!Gain(pair)
    <2>1. PICK f \in Candidates : Greedy!Gain(other) = 2 * f.gain /\ f.gain \in Int
        BY TouchingHasEntry
    <2>2. f.gain <= e.gain
        BY <1>1, <1>2, <2>1 DEF Above
    <2> QED BY <1>2, <2>1, <2>2
<1> QED BY <1>2, <1>3 DEF Greedy!Best

\* A step on the heap is a step of GreedyClusters,
LEMMA BestIsJoin == ClustersInv /\ MergeBest => Greedy!Join
<1> SUFFICES ASSUME ClustersInv, MergeBest PROVE Greedy!Join
    OBVIOUS
<1>1. PICK e \in Picks :
          /\ Forced \/ Worthwhile(e.gain)
          /\ cnm' = Merged(cnm, e.a, e.b, {f \in cnm.heap : ~Above(f, e)}, cnm.steps + 1)
          /\ request' = request /\ aim' = aim
    BY DEF MergeBest
<1>2. Greedy!Unfinished
    BY GoesOnIsUnfinished DEF MergeBest
<1>3. PICK pair : pair = {cnm.members[e.a], cnm.members[e.b]}
    OBVIOUS
<1>4. pair \in Greedy!Best
    BY <1>3, PickIsBest
<1>5. Greedy!Gain(pair) = 2 * e.gain /\ e.gain \in Int
    BY <1>3, EntryGain DEF Picks
<1>6. Greedy!Worthwhile(pair) <=> Worthwhile(e.gain)
    BY <1>5, WorthIs
<1>7. Joining(cnm, e.a, e.b)
    BY BestMerge
<1>8. Greedy!Joins(pair)
    <2>1. cnm.steps + 1 \in Nat
        BY DEF ClustersInv, StateRight, StateType
    <2>2. PICK a, b, heap, steps : /\ a = e.a /\ b = e.b /\ steps = cnm.steps + 1
                                   /\ heap = {f \in cnm.heap : ~Above(f, e)}
        OBVIOUS
    <2>3. Greedy!Joins({cnm.members[a], cnm.members[b]})
        BY <1>1, <1>7, <2>1, <2>2, MergedParts
    <2> QED BY <1>3, <2>2, <2>3 DEF Greedy!Joins
<1> QED BY <1>1, <1>2, <1>4, <1>6, <1>8 DEF Greedy!Join

\* Without a fresh entry nothing touches.
LEMMA NothingTouches ==
    ASSUME ClustersInv, Candidates = {}
    PROVE  Greedy!Touching = {}
BY TouchingHasEntry

\* and so is a forced one.
LEMMA ApartIsJoinApart == ClustersInv /\ MergeApart => Greedy!JoinApart
<1> SUFFICES ASSUME ClustersInv, MergeApart PROVE Greedy!JoinApart
    OBVIOUS
<1>1. /\ GoesOn /\ Forced /\ Candidates = {} /\ Largest # Smallest
      /\ cnm' = Merged(cnm, Largest, Smallest, {}, cnm.steps)
      /\ request' = request /\ aim' = aim
    BY DEF MergeApart
<1>2. Greedy!Unfinished /\ Greedy!Touching = {}
    BY <1>1, GoesOnIsUnfinished, NothingTouches
<1>3. PICK a, b : a = Largest /\ b = Smallest
    OBVIOUS
<1>4. /\ a \in Live /\ \A x \in Live : Size(x) <= Size(a)
      /\ b \in Live /\ \A x \in Live : Size(b) <= Size(x)
    BY <1>1, <1>3, LargestAndSmallest
<1>5. PICK small, large : small = cnm.members[b] /\ large = cnm.members[a]
    OBVIOUS
<1>6. small \in Parts /\ large \in Parts /\ small # large
    BY <1>1, <1>3, <1>4, <1>5, PartsAre DEF Parts
<1>7. \A p \in Parts : Cardinality(small) <= Cardinality(p) /\ Cardinality(p) <= Cardinality(large)
    BY <1>4, <1>5 DEF Parts, Size
<1>8. Greedy!Joins({small, large})
    <2>1. Joining(cnm, a, b)
        BY <1>1, <1>3, ApartMerge
    <2>2. PICK steps \in Nat : steps = cnm.steps
        BY DEF ClustersInv, StateRight, StateType
    <2>3. cnm' = Merged(cnm, a, b, {}, steps)
        BY <1>1, <1>3, <2>2
    <2>4. Greedy!Joins({cnm.members[a], cnm.members[b]})
        BY <1>1, <2>1, <2>3, MergedParts
    <2>5. {cnm.members[a], cnm.members[b]} = {small, large}
        BY <1>5
    <2> QED BY <2>4, <2>5 DEF Greedy!Joins
<1> QED BY <1>1, <1>2, <1>6, <1>7, <1>8, GreedyCounts DEF Greedy!JoinApart, Parts

\* There is a highest candidate.
LEMMA PickExists ==
    ASSUME ClustersInv, Candidates # {}
    PROVE  Picks # {}
<1> DEFINE C == Candidates
           gain == [e \in C |-> e.gain]
           D == {e \in C : \A f \in C : f.gain <= e.gain}
           first == [e \in D |-> e.a]
           E == {e \in D : \A f \in D : f.a <= e.a}
           second == [e \in E |-> e.b]
<1>1. \A e \in C : e.gain \in Int /\ e.a \in Int /\ e.b \in Int
    BY CandidateIs
<1>2. IsFiniteSet(C)
    <2>1. C \subseteq cnm.heap /\ IsFiniteSet(cnm.heap)
        BY DEF Candidates, ClustersInv, StateRight, StateType
    <2> HIDE DEF C
    <2> QED BY <2>1, FS_Subset
<1>3. C # {} /\ \A e \in C : gain[e] = e.gain /\ gain[e] \in Int
    BY <1>1
<1> HIDE DEF C
<1>4. \E e \in C : \A f \in C : gain[f] <= gain[e]
    <2> HIDE DEF gain
    <2> QED BY <1>2, <1>3, GreatestOf
<1>5. D # {} /\ D \subseteq C
    BY <1>3, <1>4
<1>6. \A e \in D : first[e] = e.a /\ first[e] \in Int
    BY <1>1
<1> HIDE DEF D
<1>7. IsFiniteSet(D)
    BY <1>2, <1>5, FS_Subset
<1>8. \E e \in D : \A f \in D : first[f] <= first[e]
    <2> HIDE DEF first
    <2> QED BY <1>5, <1>6, <1>7, GreatestOf
<1>9. E # {} /\ E \subseteq D
    BY <1>6, <1>8
<1>10. \A e \in E : second[e] = e.b /\ second[e] \in Int
    BY <1>1, <1>5, <1>9
<1> HIDE DEF E
<1>11. IsFiniteSet(E)
    BY <1>7, <1>9, FS_Subset
<1>12. \E e \in E : \A f \in E : second[f] <= second[e]
    <2> HIDE DEF second
    <2> QED BY <1>9, <1>10, <1>11, GreatestOf
<1>13. PICK e \in E : \A f \in E : f.b <= e.b
    BY <1>10, <1>12
<1>14. e \in C /\ e \in D /\ e.gain \in Int /\ e.a \in Int /\ e.b \in Int
    BY <1>1, <1>5, <1>9
<1>15. ASSUME NEW f \in C PROVE Above(e, f)
    <2>1. f.gain \in Int /\ f.a \in Int /\ f.b \in Int /\ f.gain <= e.gain
        BY <1>1, <1>14 DEF D
    <2>2. CASE f.gain < e.gain
        BY <1>14, <2>1, <2>2 DEF Above
    <2>3. CASE f.gain = e.gain
        <3>1. f \in D
            BY <1>14, <2>3 DEF D
        <3>2. f.a <= e.a
            BY <3>1 DEF E
        <3>3. CASE f.a < e.a
            BY <1>14, <2>1, <2>3, <3>3 DEF Above
        <3>4. CASE f.a = e.a
            <4>1. f \in E
                BY <1>13, <3>1, <3>4 DEF E
            <4> QED BY <1>13, <1>14, <2>1, <2>3, <3>4, <4>1 DEF Above
        <3> QED BY <1>14, <2>1, <3>2, <3>3, <3>4
    <2> QED BY <1>14, <2>1, <2>2, <2>3
<1> QED BY <1>14, <1>15 DEF Picks, C

\* A run ends when it should.
LEMMA EndedIsFinished ==
    ASSUME ClustersInv, report = <<>>, Ended
    PROVE  Greedy!Finished
<1>1. Greedy!Total = Total
    BY GreedyFigures DEF ClustersInv
<1>2. CASE ~GoesOn
    BY <1>1, <1>2, GoesOnIsUnfinished DEF Greedy!Finished
<1>3. CASE GoesOn /\ Candidates = {}
    <2>1. Greedy!Touching = {}
        BY <1>3, NothingTouches
    <2>2. CASE ~Forced
        <3>1. \A pair \in Greedy!Best : ~Greedy!Worthwhile(pair)
            BY <2>1 DEF Greedy!Best
        <3> QED BY <2>2, <3>1 DEF Greedy!Finished
    <2>3. CASE Forced
        <3>1. Largest = Smallest
            BY <1>3, <2>3 DEF Ended
        <3>2. /\ \A x \in Live : Size(x) <= Size(Largest) /\ Size(Largest) <= Size(x)
              /\ Largest \in Live
            BY <1>3, <3>1, LargestAndSmallest
        <3>3. \A x \in Live : Size(x) \in Nat
            BY LiveIs
        <3>4. \A x, y \in Live : Size(x) = Size(y)
            BY <3>2, <3>3
        <3>5. \A p, q \in Parts : Cardinality(p) = Cardinality(q)
            BY <3>4 DEF Parts, Size
        <3> QED BY <2>1, <3>5, GreedyCounts DEF Greedy!Finished, Parts
    <2> QED BY <2>2, <2>3
<1>4. CASE GoesOn /\ Candidates # {}
    <2>1. ~Forced /\ \A e \in Picks : ~Worthwhile(e.gain)
        BY <1>4 DEF Ended
    <2>2. PICK e \in Picks : TRUE
        BY <1>4, PickExists
    <2>3. e \in Candidates /\ \A f \in Candidates : Above(e, f)
        BY DEF Picks
    <2>4. PICK top : /\ top \in Greedy!Touching /\ Greedy!Gain(top) = 2 * e.gain /\ e.gain \in Int
        BY <2>3, EntryGain
    <2>5. ASSUME NEW pair \in Greedy!Best PROVE ~Greedy!Worthwhile(pair)
        <3>1. pair \in Greedy!Touching /\ Greedy!Gain(top) <= Greedy!Gain(pair)
            BY <2>4 DEF Greedy!Best
        <3>2. PICK f \in Candidates : Greedy!Gain(pair) = 2 * f.gain /\ f.gain \in Int
            BY <3>1, TouchingHasEntry
        <3>3. f.gain <= e.gain
            BY <2>3, <2>4, <3>2 DEF Above
        <3>4. Greedy!Gain(pair) = 2 * e.gain
            BY <2>4, <3>1, <3>2, <3>3
        <3> QED BY <2>1, <2>4, <3>4, WorthIs
    <2> QED BY <2>1, <2>5 DEF Greedy!Finished
<1> QED BY <1>2, <1>3, <1>4

LEMMA StartedParts ==
    RequestInv /\ AimInv /\ cnm = Started(request.coupling, aim.gamma)
    => Parts = {{i} : i \in Greedy!Units}
<1> SUFFICES ASSUME RequestInv, AimInv, cnm = Started(request.coupling, aim.gamma)
             PROVE  Parts = {{i} : i \in Greedy!Units}
    OBVIOUS
<1>1. StartedAs(cnm)
    BY StartedFields
<1>2. cnm.members = [i \in Unit |-> {i}]
    BY <1>1 DEF StartedAs
<1>3. Live = Unit
    BY <1>2 DEF Live, Unit
<1>4. Greedy!Units = Unit
    BY GreedyFigures
<1> QED BY <1>2, <1>3, <1>4 DEF Parts

LEMMA StartedPartsNext ==
    (RequestInv /\ AimInv /\ cnm = Started(request.coupling, aim.gamma)
     => Parts = {{i} : i \in Greedy!Units})'
BY StartedParts, PTL

LEMMA EndedIsBegin ==
    ASSUME ClustersInv, report = <<>>, Ended, request' = request, NEW next \in AimType,
           Begins(next)
    PROVE  Greedy!Begin
<1>1. Greedy!Finished
    BY EndedIsFinished
<1>2. RequestInv'
    BY DEF ClustersInv, RequestInv, N, Unit
<1>3. AimInv'
    BY DEF Begins, AimInv, AimType
<1>4. (cnm = Started(request.coupling, aim.gamma))'
    BY DEF Begins, Started, Entry
<1>5. (Parts = {{i} : i \in Greedy!Units})'
    BY <1>2, <1>3, <1>4, StartedPartsNext
<1>6. Greedy!Units' = Greedy!Units
    BY DEF Greedy!Units
<1>7. Parts' = {{i} : i \in Greedy!Units}
    BY <1>5, <1>6
<1> QED BY <1>1, <1>7 DEF Greedy!Begin, Parts

\* Every step is one of GreedyClusters or changes none of its parts.
LEMMA StepIsGreedy ==
    ClustersInv /\ [PartitionNext]_clusterVars => [Greedy!GreedyNext]_(Greedy!greedyVars)
<1> SUFFICES ASSUME ClustersInv, [PartitionNext]_clusterVars
             PROVE  Greedy!GreedyNext \/ UNCHANGED Greedy!greedyVars
    OBVIOUS
<1>1. CASE MergeBest
    BY <1>1, BestIsJoin DEF Greedy!GreedyNext
<1>2. CASE MergeApart
    BY <1>2, ApartIsJoinApart DEF Greedy!GreedyNext
<1>3. CASE NextRun
    <2>1. /\ report = <<>> /\ Ended /\ request' = request
          /\ later # <<>> /\ Begins(Head(later))
        BY <1>3 DEF NextRun
    <2>2. Head(later) \in AimType
        BY <2>1, HeadTailProperties DEF ClustersInv
    <2> QED BY <2>1, <2>2, EndedIsBegin DEF Greedy!GreedyNext
<1>4. CASE Recommend
    <2>1. PICK best : /\ best = Recommended(sweep')
                      /\ Begins(Aim(best.k, best.gamma, TRUE))
                      /\ request' = request /\ report = <<>> /\ Ended
                      /\ sweep' = Append(sweep, Result(Numbered(Communities)))
        BY <1>4 DEF Recommend
    <2>2. PICK runs \in Seq(ResultType) : runs = sweep' /\ runs # <<>>
        BY <2>1, SweepNext
    <2>3. best \in ResultType
        BY <2>1, <2>2, RecommendedIsOne
    <2>4. PICK next \in AimType : next = Aim(best.k, best.gamma, TRUE)
        BY <2>3 DEF Aim, AimType, ResultType
    <2> QED BY <2>1, <2>4, EndedIsBegin DEF Greedy!GreedyNext
<1>5. CASE UNCHANGED <<request, aim, cnm>>
    <2>1. Live' = Live /\ Least' = Least /\ Forced' = Forced
        BY <1>5 DEF Live, Least, Forced, N
    <2> QED BY <1>5, <2>1 DEF Greedy!greedyVars
<1>6. CASE Finish
    BY <1>5, <1>6 DEF Finish
<1>7. CASE UNCHANGED clusterVars
    BY <1>5, <1>7 DEF clusterVars
<1> QED BY <1>1, <1>2, <1>3, <1>4, <1>6, <1>7 DEF PartitionNext

\* At first every unit is a part.
LEMMA InitIsGreedy == PartitionInit => Greedy!GreedyInit
<1> SUFFICES ASSUME PartitionInit PROVE Greedy!GreedyInit
    OBVIOUS
<1>1. RequestInv /\ AimInv
    BY InitInv DEF ClustersInv
<1>2. cnm = Started(request.coupling, aim.gamma)
    <2>1. PICK graph, option, units, coupling :
              /\ request = [graph |-> graph, option |-> option, units |-> units,
                            coupling |-> coupling]
              /\ cnm = Started(coupling, aim.gamma)
        BY DEF PartitionInit
    <2>2. request.coupling = coupling
        BY <2>1
    <2> QED BY <2>1, <2>2
<1>3. Parts = {{i} : i \in Greedy!Units}
    BY <1>1, <1>2, StartedParts
<1> QED BY <1>3 DEF Greedy!GreedyInit, Parts

\* Every merge is of two parts that touch and raise the modularity most, and no run ends
\* or goes on unless it should, on every graph and for everything that may be asked
\* (CnmState::run, pop_valid, merge_communities, force_merge_disconnected).
THEOREM MergesGreedily == PartitionSpec => MergesAreGreedy
<1>1. PartitionSpec => []ClustersInv
    BY ClustersKeepInv
<1> QED BY <1>1, InitIsGreedy, StepIsGreedy, PTL
    DEF MergesAreGreedy, Greedy!GreedySpec, PartitionSpec

=============================================================================
