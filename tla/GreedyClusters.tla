--------------------------- MODULE GreedyClusters ---------------------------
(***************************************************************************)
(* What the clustering of src/graph/cluster.rs promises of a run: parts of *)
(* a weighted graph are joined two at a time, always two that touch and    *)
(* raise the modularity most, until there are few enough or, if no number  *)
(* was asked for, until it would rise no more. Parts are sets and every    *)
(* figure is taken from the graph: no heap, no counters, no running sums.  *)
(***************************************************************************)
EXTENDS Integers, FiniteSets, FiniteSetsExt, Functions

VARIABLES
    coupling,   \* of each two units the weight between them
    parts,      \* the parts so far
    aim         \* [least, forced, gamma, cap, gain]: when to stop

greedyVars == <<coupling, parts, aim>>

Units == DOMAIN coupling

Between(a, b) == SumFunctionOnSet([i \in a |-> SumFunctionOnSet(coupling[i], b)], a)

Total == Between(Units, Units)

\* The modularity of a part times twenty squares of the total; gamma is in twentieths.
Modularity(part) ==
    LET degree == Between(part, Units)
    IN  20 * Between(part, part) * Total - aim.gamma * degree * degree

Gain(pair) ==
    Modularity(UNION pair) - SumFunction([part \in pair |-> Modularity(part)])

Touching == {pair \in kSubset(2, parts) : \E a, b \in pair : a # b /\ Between(a, b) > 0}

Best == {pair \in Touching : \A other \in Touching : Gain(other) <= Gain(pair)}

\* A gain in thousandths of the modularity is worth a merge.
Worthwhile(pair) == 50 * Gain(pair) > aim.gain * Total * Total

\* A number asked for overrides the cap on the merges.
Unfinished ==
    /\ Cardinality(parts) > aim.least
    /\ aim.forced \/ Cardinality(Units) - Cardinality(parts) < aim.cap

Joins(pair) ==
    /\ parts' = (parts \ pair) \cup {UNION pair}
    /\ UNCHANGED <<coupling, aim>>

Join ==
    /\ Unfinished
    /\ \E pair \in Best : (aim.forced \/ Worthwhile(pair)) /\ Joins(pair)

\* Parts which do not touch are joined for the number's sake, the smallest to the largest.
JoinApart ==
    /\ Unfinished /\ aim.forced /\ Touching = {}
    /\ \E small, large \in parts :
          /\ small # large
          /\ \A p \in parts : Cardinality(small) <= Cardinality(p)
                              /\ Cardinality(p) <= Cardinality(large)
          /\ Joins({small, large})

\* Nothing more is to be joined. Parts which are all alike are left apart.
Finished ==
    \/ ~Unfinished
    \/ Total = 0
    \/ ~aim.forced /\ \A pair \in Best : ~Worthwhile(pair)
    \/ Touching = {} /\ \A p, q \in parts : Cardinality(p) = Cardinality(q)

Begin ==
    /\ Finished
    /\ UNCHANGED coupling
    /\ parts' = {{i} : i \in Units}

GreedyInit == parts = {{i} : i \in Units}

GreedyNext == Join \/ JoinApart \/ Begin

GreedySpec == GreedyInit /\ [][GreedyNext]_greedyVars

=============================================================================
