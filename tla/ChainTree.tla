----------------------------- MODULE ChainTree -----------------------------
(***************************************************************************)
(* Call chains as trees (src/graph/traverse.rs): who calls a node and what *)
(* it calls, level by level, with a limit on depth and a budget of nodes   *)
(* which both trees share; the nodes within some hops; the files of a      *)
(* chain; and the nodes of low degree.                                     *)
(*                                                                         *)
(* A graph has nodes, each of a kind, in a file and with a name, and       *)
(* edges, each with the label it is shown with. As petgraph does, the      *)
(* neighbours of a node are met latest edge first, and once per edge.      *)
(***************************************************************************)
EXTENDS Naturals, Sequences, SequencesExt, FiniteSets

CONSTANTS
    NoFile,       \* of nodes which stand for something outside of the sources
    NoLabel       \* of edges that only say what is part of what

Nodes(graph) == DOMAIN graph.nodes

-----------------------------------------------------------------------------
(* petgraph. *)

\* neighbors_directed
NeighboursOf(graph, n, way) ==
    LET mine == SelectSeq(Reverse(graph.edges), LAMBDA e : e[way] = n)
        other == IF way = "from" THEN "to" ELSE "from"
    IN  [i \in DOMAIN mine |-> mine[i][other]]

Degree(graph, n) == Len(NeighboursOf(graph, n, "from")) + Len(NeighboursOf(graph, n, "to"))

-----------------------------------------------------------------------------
(* Trees. *)

\* edge_label_for: the labels of parallel edges, each once, oldest first.
Labels(graph, a, b) ==
    LET labels == {e.label : e \in {e \in ToSet(graph.edges) : e.from = a /\ e.to = b}} \ {NoLabel}
        First(l) == CHOOSE i \in DOMAIN graph.edges :
                        /\ [from |-> a, to |-> b, label |-> l] = graph.edges[i]
                        /\ \A k \in 1 .. i - 1 : graph.edges[k] # graph.edges[i]
    IN  SetToSortSeq(labels, LAMBDA l, k : First(l) < First(k))

\* What is asked of a chain, for one of its trees: way is the end of an edge we are at.
Asked(way, depth, budget, skip) == [way |-> way, depth |-> depth, budget |-> budget, skip |-> skip]

\* The neighbours a node may have below it.
Below(graph, n, ancestors, asked) ==
    SelectSeq(NeighboursOf(graph, n, asked.way),
              LAMBDA m : /\ m \notin ancestors
                         /\ ~(asked.skip /\ graph.nodes[m].kind = "builtin"))

RECURSIVE Tree(_, _, _, _, _, _)

\* build_tree_dfs: the trees below a node, how many are missing, and how many nodes of
\* the budget have been used.
Tree(graph, n, ancestors, depth, before, asked) ==
    LET below == Below(graph, n, ancestors, asked)
        With(done, m) ==
            IF done.visited >= asked.budget THEN done
            ELSE LET sub == Tree(graph, m, ancestors \cup {m}, depth + 1, done.visited + 1, asked)
                     node == [idx |-> m, children |-> sub.roots, more |-> sub.missing,
                              labels |-> IF asked.way = "from" THEN Labels(graph, n, m)
                                         ELSE Labels(graph, m, n)]
                 IN  [done EXCEPT !.roots = Append(@, node), !.visited = sub.visited]
        none == [roots |-> <<>>, visited |-> before]
        all == IF before >= asked.budget \/ depth > asked.depth THEN none
               ELSE FoldLeft(With, none, below)
    IN  [roots |-> all.roots, visited |-> all.visited, missing |-> Len(below) - Len(all.roots)]

\* Mutant: neighbours count as missing only when the loop over them was left.
UncutTree(graph, n, ancestors, asked, before) ==
    LET tree == Tree(graph, n, ancestors, 1, before, asked)
    IN  [tree EXCEPT !.roots = [i \in DOMAIN @ |-> [@[i] EXCEPT !.more = 0]]]

TreeOf(graph, n, ancestors, asked, before) == Tree(graph, n, ancestors, 1, before, asked)

\* Mutant: the start is not an ancestor of its own.
TraceThrough(graph, start, depth, budget, skip) ==
    LET callers == TreeOf(graph, start, {}, Asked("to", depth, budget, skip), 0)
        callees == TreeOf(graph, start, {}, Asked("from", depth, budget, skip), callers.visited)
    IN  [target |-> start, visited |-> callees.visited,
         callers |-> callers.roots, callees |-> callees.roots]

\* trace_chain: callers first, so it may be callees that the budget does not reach.
Trace(graph, start, depth, budget, skip) ==
    IF depth = 0 THEN [target |-> start, visited |-> 0, callers |-> <<>>, callees |-> <<>>]
    ELSE LET callers == TreeOf(graph, start, {start}, Asked("to", depth, budget, skip), 0)
             callees == TreeOf(graph, start, {start}, Asked("from", depth, budget, skip),
                               callers.visited)
         IN  [target |-> start, visited |-> callees.visited,
              callers |-> callers.roots, callees |-> callees.roots]

\* The tools and the web server tell that a chain was cut by the budget.
Truncated(chain, budget) == chain.visited >= budget

RECURSIVE PathsIn(_)

\* The ways down from the roots to any node of a tree.
PathsIn(roots) ==
    UNION {{<<t.idx>>} \cup {<<t.idx>> \o p : p \in PathsIn(t.children)} : t \in ToSet(roots)}

RECURSIVE LeafPaths(_)

\* collect_leaf_paths
LeafPaths(roots) ==
    FlattenSeq([i \in DOMAIN roots |->
        IF roots[i].children = <<>> THEN <<<<roots[i].idx>>>>
        ELSE LET below == LeafPaths(roots[i].children)
             IN  [k \in DOMAIN below |-> <<roots[i].idx>> \o below[k]]])

\* format_chain_paths: callers read towards the target, longest paths first.
AsPaths(chain) ==
    LET Longer(p, q) == Len(p) > Len(q)
        callers == LeafPaths(chain.callers)
    IN  [callers |-> SortSeq([i \in DOMAIN callers |-> Reverse(callers[i])], Longer),
         callees |-> SortSeq(LeafPaths(chain.callees), Longer)]

-----------------------------------------------------------------------------
(* Nodes within some hops. *)

\* Mutant: a node is marked when it is gone beyond.
NextLevelTwice(graph, level, way, met) ==
    SelectSeq(FlattenSeq([i \in DOMAIN level |-> NeighboursOf(graph, level[i], way)]),
              LAMBDA n : n \notin met)

\* The nodes next to those of a level that were not met before.
NextLevel(graph, level, way, met) ==
    LET next == FlattenSeq([i \in DOMAIN level |-> NeighboursOf(graph, level[i], way)])
    IN  FoldLeft(LAMBDA new, n : IF n \in met \cup ToSet(new) THEN new ELSE Append(new, n),
                 <<>>, next)

RECURSIVE Levels(_, _, _, _, _)

Levels(graph, level, way, met, hops) ==
    LET next == NextLevel(graph, level, way, met)
    IN  IF hops = 0 \/ next = <<>> THEN <<>>
        ELSE next \o Levels(graph, next, way, met \cup ToSet(next), hops - 1)

\* neighbors_at_depth: depth 0 is no limit.
Around(graph, start, way, depth) ==
    Levels(graph, <<start>>, way, {start}, IF depth = 0 THEN Len(graph.nodes) ELSE depth)

-----------------------------------------------------------------------------
(* Files of a chain. *)

InChain(chain) ==
    {chain.target} \cup UNION {ToSet(p) : p \in PathsIn(chain.callers) \cup PathsIn(chain.callees)}

\* attach_related_ddl: indexes and synonyms of what is in the chain, and the triggers on
\* its tables and views.
RelatedTo(graph, nodes) ==
    LET Host(n) == graph.nodes[n].kind \in {"table", "view"}
        On(n, m) == /\ graph.nodes[n].kind = "trigger" /\ graph.nodes[m].kind \in {"table", "view"}
                    /\ graph.nodes[n].on = graph.nodes[m].name
    IN  {e.from : e \in {e \in ToSet(graph.edges) : e.to \in nodes /\ e.label \in {"indexes", "aliases"}}}
        \cup {n \in Nodes(graph) : \E m \in nodes : On(n, m)}

\* collect_chain_files
ChainFiles(graph, chain, related) ==
    LET nodes == InChain(chain) \cup IF related THEN RelatedTo(graph, InChain(chain)) ELSE {}
        File(n) == graph.nodes[n].file
    IN  [f \in {File(n) : n \in nodes} \ {NoFile} |-> {n \in nodes : File(n) = f}]

-----------------------------------------------------------------------------
(* Lists of nodes. *)

\* low_degree_nodes
LowDegree(graph, most) ==
    LET Before(n, m) ==
            \/ Degree(graph, n) < Degree(graph, m)
            \/ (Degree(graph, n) = Degree(graph, m) /\ n < m)
    IN  SetToSortSeq({n \in Nodes(graph) : Degree(graph, n) <= most}, Before)

\* find_nodes_by_name and, of their statements, search_by_sql: a node has a rank for
\* each query of each sort that it is found by, the best one being 1.
Found(graph, sort, query) ==
    LET Rank(n) == graph.nodes[n].ranks[sort][query]
        Before(n, m) == Rank(n) < Rank(m) \/ (Rank(n) = Rank(m) /\ n < m)
    IN  SetToSortSeq({n \in Nodes(graph) : Rank(n) > 0}, Before)

-----------------------------------------------------------------------------
(* What they should be. *)

IsEdge(graph, a, b, way) ==
    \E e \in ToSet(graph.edges) : e[way] = a /\ e[IF way = "from" THEN "to" ELSE "from"] = b

\* The ways from a node along edges that do not meet a node twice.
SimplePaths(graph, start, way, depth, skip) ==
    LET short == IF depth < Len(graph.nodes) THEN depth ELSE Len(graph.nodes)
    IN  {p \in UNION {[1 .. k -> Nodes(graph) \ {start}] : k \in 1 .. short} :
            /\ IsInjective(p)
            /\ \A i \in DOMAIN p : IsEdge(graph, IF i = 1 THEN start ELSE p[i - 1], p[i], way)
            /\ skip => \A i \in DOMAIN p : graph.nodes[p[i]].kind # "builtin"}

RECURSIVE CutAt(_, _)

\* A way that is not in the tree leaves it at a node which says that more is below.
CutAt(roots, p) ==
    \E t \in ToSet(roots) : /\ p # <<>> /\ t.idx = Head(p)
                            /\ \/ CutAt(t.children, Tail(p))
                               \/ /\ Len(p) > 1 /\ t.more > 0
                                  /\ Head(Tail(p)) \notin {c.idx : c \in ToSet(t.children)}

=============================================================================
