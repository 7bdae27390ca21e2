------------------------------ MODULE Clusters ------------------------------
(***************************************************************************)
(* The partition of a graph into clusters (src/graph/cluster.rs, the       *)
(* partition command): cycles are condensed into units, units are merged   *)
(* greedily with a heap of candidates whose stale entries are dropped when *)
(* they are met, for one aim after the other, and the aim that did best is *)
(* run once more for the report. A step is one merge.                      *)
(*                                                                         *)
(* Weights are tenths, gamma is twentieths, gains are taken times ten      *)
(* squares of the total weight: all floating-point figures become integers *)
(* and compare alike. Of two tables' likeness only how many telling tables *)
(* are shared is kept.                                                     *)
(***************************************************************************)
EXTENDS Integers, Sequences, SequencesExt, FiniteSets, FiniteSetsExt, Graphs

CONSTANTS
    CodeGraph,     \* the graphs: [nodes, edges], nodes are kinds
    Option,        \* what is asked for: [auto, k, gamma, cap, gain, least, likeness]
    NoK,           \* no number of clusters, and
    NoGamma,       \* no resolution asked for
    Few, Many      \* the numbers of clusters worth recommending (5 and 20)

VARIABLES
    request,       \* [graph, option, units, coupling]
    aim,           \* [k, gamma] of this run
    later,         \* the aims of the runs after it
    cnm,           \* the state of this run
    sweep,         \* what the runs gave: [gamma, k, quality]
    report         \* <<>> until there is one

clusterVars == <<request, aim, later, cnm, sweep, report>>

-----------------------------------------------------------------------------
(* Units. *)

Participates == {"procedure", "function", "method", "mapper", "class"}

Weight ==
    [call |-> 10, inheritance |-> 15, data_flow |-> 3, reference |-> 1, dynamic |-> 5,
     composition |-> 20, anchor |-> 0]

\* Graphs have their edges between their nodes; what is asked for are numbers, or nothing.
ASSUME ClusterAssumption ==
    /\ NoK \notin Nat /\ NoGamma \notin Int /\ Few \in Nat /\ Many \in Nat
    /\ \A graph \in CodeGraph :
          /\ graph.nodes \in Seq(STRING)
          /\ graph.edges \in Seq([from : DOMAIN graph.nodes, to : DOMAIN graph.nodes,
                                  kind : DOMAIN Weight])
    /\ \A option \in Option :
          /\ option.k \in Nat \cup {NoK} /\ option.gamma \in Int \cup {NoGamma}
          /\ option.cap \in Nat /\ option.gain \in Int

Participants(graph) == {n \in DOMAIN graph.nodes : graph.nodes[n] \in Participates}

Linking(graph, N) == {<<e.from, e.to>> : e \in {x \in ToSet(graph.edges) : {x.from, x.to} \subseteq N}}

\* compute_wcc_topology: the parts of the participants that edges of any kind hold together.
Components(graph) ==
    LET N == Participants(graph)
        pairs == Linking(graph, N)
        joined == ConnectionsIn([node |-> N, edge |-> pairs \cup {<<p[2], p[1]>> : p \in pairs}])
    IN  {{m \in N : m = n \/ joined[n, m]} : n \in N}

Topology(graph) ==
    LET sizes == {Cardinality(c) : c \in Components(graph)}
        largest == Max(sizes \cup {0})
    IN  [participants |-> Cardinality(Participants(graph)),
         components |-> Cardinality(Components(graph)),
         largest |-> largest,
         isolated |-> Cardinality(Participants(graph)) - largest]

Allowed(graph, least) ==
    IF least <= 1 THEN Participants(graph)
                  ELSE UNION {c \in Components(graph) : Cardinality(c) >= least}

\* Whether a node leads to another along edges of any kind.
Leads(graph) ==
    ConnectionsIn([node |-> DOMAIN graph.nodes, edge |-> Linking(graph, DOMAIN graph.nodes)])

Cycles(graph) ==
    LET leads == Leads(graph)
    IN  {{m \in DOMAIN graph.nodes : m = n \/ (leads[n, m] /\ leads[m, n])} :
            n \in DOMAIN graph.nodes}

\* condense_sccs: cycles through anything are one unit, of the participants in them.
Condensed(graph, allowed) == {cycle \cap allowed : cycle \in Cycles(graph)} \ {{}}

\* petgraph: kosaraju_scc lists what is reached before what reaches it.
Orders(graph, allowed) ==
    LET leads == Leads(graph)
    IN  {order \in SetToSeqs(Condensed(graph, allowed)) :
            \A i, j \in DOMAIN order :
                i < j => \A n \in order[i], m \in order[j] : ~leads[n, m]}

-----------------------------------------------------------------------------
(* The condensed graph. *)

\* build_proc_table_matrix
Accessed(graph, n) ==
    {e.to : e \in {x \in ToSet(graph.edges) :
        x.from = n /\ x.kind = "data_flow" /\ graph.nodes[x.to] = "table"}}

Users(graph) == {n \in Participants(graph) : Accessed(graph, n) # {}}

\* compute_tfidf_cosine_edges: a table that all use tells nothing, and each routine names
\* only so many others, those it is most alike.
Likeness(graph, p, q) ==
    LET telling(n) ==
            {t \in Accessed(graph, n) : \E u \in Users(graph) : t \notin Accessed(graph, u)}
    IN  Cardinality(telling(p) \cap telling(q))

Nearest(graph, option, p) ==
    LET like(q) == Likeness(graph, p, q)
        ranked == SetToSortSeq({q \in Users(graph) \ {p} : like(q) > 0},
                      LAMBDA q, r : like(q) > like(r) \/ (like(q) = like(r) /\ q < r))
    IN  {ranked[i] : i \in {k \in DOMAIN ranked :
            k <= option.nearest /\ like(ranked[k]) >= option.likeness}}

Alike(graph, option) ==
    {[from |-> x[1], to |-> x[2], weight |-> 3 * Likeness(graph, x[1], x[2])] :
        x \in {p \in Users(graph) \X Users(graph) : p[1] < p[2]
            /\ (p[2] \in Nearest(graph, option, p[1]) \/ p[1] \in Nearest(graph, option, p[2]))}}

\* build_condensed_graph: of each two units the weight between them, of each unit the
\* weight within it.
Coupling(graph, option, units) ==
    LET between(e, i, j) == \/ e.from \in units[i] /\ e.to \in units[j]
                            \/ e.to \in units[i] /\ e.from \in units[j]
        edges(i, j) == {k \in DOMAIN graph.edges : between(graph.edges[k], i, j)}
        alike == IF option.likeness = 0 THEN {} ELSE Alike(graph, option)
    IN  [i \in DOMAIN units |-> [j \in DOMAIN units |->
            SumFunction([k \in edges(i, j) |-> Weight[graph.edges[k].kind]])
            + SumFunction([a \in {x \in alike : between(x, i, j)} |-> a.weight])]]

N == Len(request.units)

Linked(i, j) == request.coupling[i][j]

UnitDegree(i) == SumFunction(request.coupling[i])

Total == SumFunction([i \in 1 .. N |-> UnitDegree(i)])

-----------------------------------------------------------------------------
(* One run of CnmState. *)

Gain(e, degreeA, degreeB) == 20 * e * Total - aim.gamma * degreeA * degreeB

Entry(a, b, gain, generation) ==
    [a |-> a, b |-> b, gain |-> gain, ga |-> generation[a], gb |-> generation[b]]

\* CnmState::new
Started(coupling, gamma) ==
    LET units == DOMAIN coupling
        degree == [i \in units |-> SumFunction(coupling[i])]
        total == SumFunction(degree)
        linked == {p \in units \X units : p[1] < p[2] /\ coupling[p[1]][p[2]] > 0}
        gain(p) == 20 * coupling[p[1]][p[2]] * total - gamma * degree[p[1]] * degree[p[2]]
    IN  [of |-> [i \in units |-> i],
         members |-> [i \in units |-> {i}],
         degree |-> degree,
         generation |-> [i \in units |-> 0],
         weight |-> [pair \in {{p[1], p[2]} : p \in linked} |->
                        LET i == Min(pair) j == Max(pair) IN coupling[i][j]],
         near |-> [i \in units |-> {j \in units : <<i, j>> \in linked \/ <<j, i>> \in linked}],
         heap |-> {Entry(p[1], p[2], gain(p), [i \in units |-> 0]) : p \in linked},
         left |-> Cardinality(units),
         steps |-> 0]

Live == {c \in 1 .. N : cnm.members[c] # {}}

Forced == aim.k # NoK

Least == IF Forced THEN Min({aim.k, N}) ELSE Min({1, N})

\* pop_valid: entries whose ends were merged since are dropped on the way.
Valid(e) == cnm.generation[e.a] = e.ga /\ cnm.generation[e.b] = e.gb

Above(e, f) ==
    \/ e.gain > f.gain
    \/ e.gain = f.gain /\ (e.a > f.a \/ (e.a = f.a /\ e.b >= f.b))

Candidates == {e \in cnm.heap : Valid(e)}

\* The highest gain first; of equal gains the highest pair.
Picks == {e \in Candidates : \A f \in Candidates : Above(e, f)}

\* Mutant: what is left of a pair keeps its generation.
OutdatedGone(generation, a, b) == [generation EXCEPT ![b] = @ + 1]

\* The entries of both are stale now.
Outdated(generation, a, b) == [generation EXCEPT ![a] = @ + 1, ![b] = @ + 1]

\* merge_communities: b becomes part of a.
Merged(c, a, b, heap, steps) ==
    LET others == c.near[b] \ {a}
        kept == {p \in DOMAIN c.weight : b \notin p} \cup {{a, x} : x \in others}
        weighs(p) == IF p \in DOMAIN c.weight THEN c.weight[p] ELSE 0
        weight == [p \in kept |->
            weighs(p) + (IF a \in p /\ p \cap others # {} THEN weighs((p \ {a}) \cup {b}) ELSE 0)]
        near == [x \in 1 .. N |->
            CASE x = a -> (c.near[a] \ {b}) \cup others
              [] x = b -> {}
              [] x \in others -> (c.near[x] \ {b}) \cup {a}
              [] OTHER -> c.near[x]]
        degree == [c.degree EXCEPT ![a] = @ + c.degree[b], ![b] = 0]
        generation == Outdated(c.generation, a, b)
        fresh == {Entry(Min({a, x}), Max({a, x}), Gain(weight[{a, x}], degree[a], degree[x]),
                        generation) : x \in near[a]}
    IN  [of |-> [i \in 1 .. N |-> IF i \in c.members[b] THEN a ELSE c.of[i]],
         members |-> [c.members EXCEPT ![a] = @ \cup c.members[b], ![b] = {}],
         degree |-> degree, generation |-> generation, weight |-> weight, near |-> near,
         heap |-> heap \cup fresh, left |-> c.left - 1, steps |-> steps]

\* A gain must exceed so many thousandths of the modularity.
Worthwhile(gain) == 100 * gain > request.option.gain * Total * Total

\* force_merge_disconnected: the first of the largest takes in the first of the smallest.
Size(c) == Cardinality(cnm.members[c])

Largest == Min({c \in Live : \A d \in Live : Size(d) <= Size(c)})

Smallest == Min({c \in Live : \A d \in Live : Size(c) <= Size(d)})

\* The loop of CnmState::run; the cap on the merges is for runs without a number only.
GoesOn ==
    /\ report = <<>>
    /\ cnm.left > Least /\ Total > 0
    /\ Forced \/ cnm.steps < request.option.cap

MergeBest ==
    /\ GoesOn
    /\ \E e \in Picks :
          /\ Forced \/ Worthwhile(e.gain)
          /\ cnm' = Merged(cnm, e.a, e.b, {f \in cnm.heap : ~Above(f, e)}, cnm.steps + 1)
    /\ UNCHANGED <<request, aim, later, sweep, report>>

MergeApart ==
    /\ GoesOn /\ Forced
    /\ Candidates = {} /\ Largest # Smallest
    /\ cnm' = Merged(cnm, Largest, Smallest, {}, cnm.steps)
    /\ UNCHANGED <<request, aim, later, sweep, report>>

Ended ==
    GoesOn => IF Candidates = {} THEN Forced => Largest = Smallest
                                 ELSE ~Forced /\ \A e \in Picks : ~Worthwhile(e.gain)

\* Without any weight there is no run: the units are dealt out as they come.
Communities == IF Total = 0 THEN [i \in 1 .. N |-> Min({i, Max({Least, 1})})] ELSE cnm.of

\* finalize: clusters are numbered as they are met.
Numbered(labels) ==
    [i \in DOMAIN labels |->
        LET met == Min({k \in DOMAIN labels : labels[k] = labels[i]})
        IN  Cardinality({labels[k] : k \in 1 .. met})]

\* compute_modularity, times the square of the total.
Quality(labels) ==
    LET within(c) == {i \in DOMAIN labels : labels[i] = c}
        degree(c) == SumFunction([i \in within(c) |-> UnitDegree(i)])
        inner(c) == SumFunction([i \in within(c) |->
                        SumFunctionOnSet(request.coupling[i], within(c))])
    IN  SumFunction([c \in ToSet(labels) |-> inner(c) * Total - degree(c) * degree(c)])

-----------------------------------------------------------------------------
(* What is asked for, and the report. *)

Automatic(option) == option.auto \/ (option.k = NoK /\ option.gamma = NoGamma)

Aim(k, gamma, last) == [k |-> k, gamma |-> gamma, last |-> last]

\* auto_partition_with_progress: five resolutions, then the numbers below that of the units.
Resolutions == [i \in 1 .. 5 |-> Aim(NoK, <<20, 10, 5, 2, 1>>[i], FALSE)]

Numbers(units) ==
    LET numbers == IF units > 10000 THEN <<10, 20, 50>> ELSE <<3, 5, 10, 20, 50>>
        below == {i \in DOMAIN numbers : numbers[i] < Max({units, 1})}
    IN  [i \in 1 .. Cardinality(below) |-> Aim(numbers[i], 20, FALSE)]

Aims(option, units) ==
    IF Automatic(option)
    THEN Resolutions \o Numbers(units)
    ELSE <<Aim(option.k, IF option.gamma = NoGamma THEN 20 ELSE option.gamma, TRUE)>>

\* The fewest clusters; if the first run has too many to look at, the best of those with a
\* handy number.
Recommended(runs) ==
    LET fewest == Min({i \in DOMAIN runs : \A j \in DOMAIN runs : runs[i].k <= runs[j].k})
        handy == {i \in DOMAIN runs : runs[i].k \in Few .. Many}
        best == {i \in handy : \A j \in handy : runs[j].quality <= runs[i].quality}
        small == {i \in DOMAIN runs : runs[i].k <= Many}
    IN  runs[CASE runs[1].k <= Many -> fewest
               [] runs[1].k > Many /\ handy # {} -> Max(best)
               [] runs[1].k > Many /\ handy = {} /\ small # {} -> Min(small)
               [] OTHER -> fewest]

Result(labels) == [gamma |-> aim.gamma, k |-> Cardinality(ToSet(labels)), quality |-> Quality(labels)]

\* compute_inter_cluster_coupling
Coupled(cluster) ==
    LET edges == request.graph.edges
        across(c, d) == {i \in DOMAIN edges :
            {edges[i].from, edges[i].to} \subseteq DOMAIN cluster
            /\ cluster[edges[i].from] = c /\ cluster[edges[i].to] = d}
        ids == {cluster[n] : n \in DOMAIN cluster}
    IN  {[from |-> p[1], to |-> p[2], edges |-> Cardinality(across(p[1], p[2])),
          weight |-> MapThenSumSet(LAMBDA i : Weight[edges[i].kind], across(p[1], p[2]))] :
            p \in {x \in ids \X ids : x[1] # x[2] /\ across(x[1], x[2]) # {}}}

\* partition, compute_cluster_stats
Reported(labels) ==
    LET assigned == UNION ToSet(request.units)
        unit(n) == CHOOSE i \in 1 .. N : n \in request.units[i]
        cluster == [n \in assigned |-> labels[unit(n)]]
        within(c) == {i \in 1 .. N : labels[i] = c}
        sum(I, J) == MapThenSumSet(LAMBDA i : MapThenSumSet(LAMBDA j : Linked(i, j), J), I)
    IN  [cluster |-> cluster,
         result |-> Result(labels),
         asked |-> aim.k,
         stats |-> [c \in ToSet(labels) |->
            [nodes |-> {n \in assigned : cluster[n] = c},
             inner |-> sum(within(c), within(c)),
             outer |-> sum(within(c), (1 .. N) \ within(c))]],
         coupled |-> Coupled(cluster),
         topology |-> Topology(request.graph)]

Begins(next) ==
    /\ aim' = next
    /\ cnm' = Started(request.coupling, next.gamma)

NextRun ==
    /\ report = <<>> /\ Ended /\ later # <<>>
    /\ sweep' = Append(sweep, Result(Numbered(Communities)))
    /\ later' = Tail(later)
    /\ Begins(Head(later))
    /\ UNCHANGED <<request, report>>

\* Mutant: the number is taken, the resolution it was found with is not.
RecommendNumber ==
    /\ report = <<>> /\ Ended /\ later = <<>> /\ ~aim.last
    /\ sweep' = Append(sweep, Result(Numbered(Communities)))
    /\ Begins(Aim(Recommended(sweep').k, 20, TRUE))
    /\ UNCHANGED <<request, later, report>>

Recommend ==
    /\ report = <<>> /\ Ended /\ later = <<>> /\ ~aim.last
    /\ sweep' = Append(sweep, Result(Numbered(Communities)))
    /\ LET best == Recommended(sweep') IN Begins(Aim(best.k, best.gamma, TRUE))
    /\ UNCHANGED <<request, later, report>>

Finish ==
    /\ report = <<>> /\ Ended /\ aim.last
    /\ report' = <<Reported(Numbered(Communities))>>
    /\ UNCHANGED <<request, aim, later, cnm, sweep>>

PartitionInit ==
    \E graph \in CodeGraph, option \in Option :
        \E units \in Orders(graph, Allowed(graph, option.least)) :
            \E coupling \in {Coupling(graph, option, units)} :
                /\ request = [graph |-> graph, option |-> option, units |-> units,
                              coupling |-> coupling]
                /\ aim = Head(Aims(option, Len(units)))
                /\ later = Tail(Aims(option, Len(units)))
                /\ cnm = Started(coupling, aim.gamma)
                /\ sweep = <<>> /\ report = <<>>

PartitionNext == MergeBest \/ MergeApart \/ NextRun \/ Recommend \/ Finish

PartitionSpec == PartitionInit /\ [][PartitionNext]_clusterVars

-----------------------------------------------------------------------------
(* Properties. *)

\* Each run is greedy on the modularity itself: whatever entries have gone stale in the
\* heap, the two parts merged are, of all that touch, those whose union raises the
\* modularity most, figured from the graph; and a run ends only when it may (CnmState).
Greedy ==
    INSTANCE GreedyClusters WITH
        coupling <- request.coupling,
        parts <- {cnm.members[c] : c \in Live},
        aim <- [least |-> Least, forced |-> Forced, gamma |-> aim.gamma,
                cap |-> request.option.cap, gain |-> request.option.gain]

MergesAreGreedy == Greedy!GreedySpec

PartOf(graph, n) == CHOOSE c \in Components(graph) : n \in c

\* The report is of one partition: the participants of the components that are large
\* enough have each one cluster, nobody else has, cycles are not torn, what the clusters
\* are coupled by is what their figures say, and an automatic answer is the run that was
\* recommended, not another one (partition, compute_cluster_stats,
\* compute_inter_cluster_coupling, auto_partition_with_progress).
PartitionAddsUp ==
    \A r \in ToSet(report) :
        LET graph == request.graph
            outer(c) == MapThenSumSet(LAMBDA x : x.weight, {x \in r.coupled : c \in {x.from, x.to}})
        IN  /\ DOMAIN r.cluster = {n \in Participants(graph) :
                    Cardinality(PartOf(graph, n)) >= request.option.least}
            /\ \A n, m \in DOMAIN r.cluster :
                    (\E cycle \in Cycles(graph) : {n, m} \subseteq cycle) => r.cluster[n] = r.cluster[m]
            /\ {r.cluster[n] : n \in DOMAIN r.cluster} = 1 .. r.result.k
            /\ request.option.likeness = 0 => \A c \in DOMAIN r.stats : r.stats[c].outer = outer(c)
            /\ Automatic(request.option) => r.result = Recommended(sweep)

\* A number of clusters that was asked for is reached if there are units enough: so the
\* comment on ClusterConfig::max_iterations says (CnmState::run, force_merge_disconnected).
TargetIsReached ==
    \A r \in ToSet(report) :
        r.asked # NoK /\ r.asked > 0 => r.result.k = Min({r.asked, N})

=============================================================================
