----------------------------- MODULE MCClusters -----------------------------
(***************************************************************************)
(* Small graphs to partition: chains, cycles through a table, pairs that   *)
(* nothing connects, units without edges, routines alike by their tables.  *)
(***************************************************************************)
EXTENDS Clusters

Arc(from, to, kind) == [from |-> from, to |-> to, kind |-> kind]
Arcs(triples) == [i \in DOMAIN triples |-> Arc(triples[i][1], triples[i][2], triples[i][3])]
Routines(n) == [i \in 1 .. n |-> "procedure"]
G(nodes, triples) == [nodes |-> nodes, edges |-> Arcs(triples)]

Graph1 == G(Routines(5), <<<<1, 2, "call">>, <<2, 3, "call">>, <<3, 4, "dynamic">>, <<4, 5, "call">>, <<1, 5, "composition">>>>)
Graph2 == G(<<"procedure", "table", "procedure", "class", "method">>,
            <<<<1, 2, "data_flow">>, <<2, 3, "reference">>, <<3, 1, "call">>, <<4, 5, "composition">>,
              <<5, 1, "call">>, <<4, 4, "call">>>>)
Graph3 == G(Routines(5), <<<<1, 2, "call">>, <<3, 4, "call">>>>)
Graph4 == G(Routines(4), <<<<1, 2, "anchor">>>>)
Graph5 == G(<<"procedure", "procedure", "procedure", "function", "table", "table">>,
            <<<<1, 5, "data_flow">>, <<2, 5, "data_flow">>, <<3, 6, "data_flow">>, <<4, 6, "data_flow">>,
              <<1, 4, "call">>, <<2, 1, "inheritance">>>>)
Graph6 == G(<<>>, <<>>)
TwoPairs == G(Routines(4), <<<<1, 2, "call">>, <<3, 4, "call">>>>)

PairGraphs == {TwoPairs}
PartedGraphs == {Graph1, Graph2, Graph3, Graph4, Graph5, Graph6}

Opt(auto, k, gamma, cap, gain, least, likeness) ==
    [auto |-> auto, k |-> k, gamma |-> gamma, cap |-> cap, gain |-> gain, least |-> least,
     likeness |-> likeness, nearest |-> 1]

OneCluster == {Opt(FALSE, 1, NoGamma, 99, 0, 1, 0)}

PartOptions == {
    Opt(TRUE, NoK, NoGamma, 99, 0, 1, 0),
    Opt(FALSE, NoK, NoGamma, 99, 0, 1, 1),
    Opt(TRUE, NoK, NoGamma, 2, 0, 2, 0),
    Opt(FALSE, NoK, 10, 99, 100, 1, 0),
    Opt(FALSE, 1, NoGamma, 0, 0, 1, 0),
    Opt(FALSE, 2, 20, 99, 0, 2, 1),
    Opt(FALSE, 0, 20, 99, 0, 1, 0)}

=============================================================================
