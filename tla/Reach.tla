-------------------------------- MODULE Reach -------------------------------
(***************************************************************************)
(* What a change reaches and what connects nodes: the impact command       *)
(* (src/main.rs), which goes some steps up and down from the nodes of      *)
(* files or from a node, and the inspect command (src/graph/inspect.rs),   *)
(* which finds the paths between each two of some nodes and says which are *)
(* connected.                                                              *)
(*                                                                         *)
(* Edges have a type, and the line they are at; of a fragment of SQL which *)
(* was taken out of a file the line is that of its node.                   *)
(***************************************************************************)
EXTENDS Lookup

CONSTANTS
    NoLine,       \* of edges that are not at a line
    Nowhere       \* the file of a path which is none of the graph's

-----------------------------------------------------------------------------
(* Impact. *)

Files(graph) == {graph.nodes[n].file : n \in Nodes(graph)} \ {NoFile}

\* resolve_file_path: the file a path stands for or, when that has no nodes, any whose
\* name ends like the path.
Resolved(graph, path) ==
    LET known == {path.file} \cap Files(graph)
        alike == {f \in Files(graph) : IsSuffix(path.text, f)}
    IN  IF known # {} THEN known ELSE IF alike # {} THEN alike ELSE {Nowhere}

\* find_edge: of parallel edges the latest.
TheEdge(graph, a, b) ==
    graph.edges[Max({i \in DOMAIN graph.edges : graph.edges[i].from = a /\ graph.edges[i].to = b})]

\* impact_entry_line
EntryLine(node, edge) ==
    IF node.kind \in {"sql", "mapper", "jspsql"} THEN node.line ELSE edge.line

\* The edge by which a step is made, if its type is asked for.
MeetStep(graph, n, m, way, types) ==
    LET edge == IF way = "from" THEN TheEdge(graph, n, m) ELSE TheEdge(graph, m, n)
    IN  {e \in {edge} : e.type \in types}

\* Mutant: a node is marked before the edge to it is looked at.
MeetMarking(graph, front, way, types, met) ==
    LET Meet(next, n, m) ==
            IF m \in met \cup {s.node : s \in ToSet(next)} THEN next
            ELSE Append(next, [node |-> m, by |-> MeetStep(graph, n, m, way, types)])
    IN  SelectSeq(FoldLeft(LAMBDA some, n :
                               FoldLeft(LAMBDA more, m : Meet(more, n, m), some, NeighboursOf(graph, n, way)),
                           <<>>, front),
                  LAMBDA s : s.by # {})

\* What is next to what was met last, with the edge by which it is met first.
MeetNext(graph, front, way, types, met) ==
    LET Meet(next, n, m) ==
            IF m \in met \cup {s.node : s \in ToSet(next)} \/ MeetStep(graph, n, m, way, types) = {}
            THEN next
            ELSE Append(next, [node |-> m, by |-> MeetStep(graph, n, m, way, types)])
    IN  FoldLeft(LAMBDA some, n :
                     FoldLeft(LAMBDA more, m : Meet(more, n, m), some, NeighboursOf(graph, n, way)),
                 <<>>, front)

RECURSIVE Wave(_, _, _, _, _, _)

\* collect_impact_entries: what is met in some steps, each node once.
Wave(graph, front, way, types, met, steps) ==
    LET Beyond(next) ==
            LET nodes == [i \in DOMAIN next |-> next[i].node]
            IN  next \o Wave(graph, nodes, way, types, met \cup ToSet(nodes), steps - 1)
    IN  IF steps = 0 \/ front = <<>> THEN <<>>
        ELSE Beyond(MeetNext(graph, front, way, types, met))

\* The entries of an answer: the file, the symbol and the line of what is met.
Entries(graph, starts, way, steps, types) ==
    LET met == Wave(graph, starts, way, types, ToSet(starts), steps)
    IN  {[file |-> graph.nodes[s.node].file, symbol |-> NameOf(graph, s.node),
          line |-> EntryLine(graph.nodes[s.node], CHOOSE e \in s.by : TRUE)] : s \in ToSet(met)}

Affected(graph, starts, asked) ==
    [starts |-> ToSet(starts),
     upstream |-> Entries(graph, starts, "to", asked.depth, asked.types),
     downstream |-> Entries(graph, starts, "from", asked.depth, asked.types)]

\* resolve_file_target
NodesIn(graph, file) ==
    SelectSeq([n \in Nodes(graph) |-> n], LAMBDA n : file # Nowhere /\ graph.nodes[n].file = file)

\* resolve_node_target
FirstFound(graph, query) == AtMost(Search(graph, query), 1)

\* cmd_impact of files, one after the other; a file without nodes affects nothing.
ImpactOfFile ==
    /\ question.sort = "files" /\ (answer # Unanswered => Len(answer) < Len(question.paths))
    /\ LET done == IF answer = Unanswered THEN <<>> ELSE answer
       IN  \E f \in Resolved(question.graph, question.paths[Len(done) + 1]) :
               answer' = Append(done, Affected(question.graph, NodesIn(question.graph, f), question))
    /\ UNCHANGED question

\* cmd_impact of the first node that is found.
ImpactOfNode ==
    /\ question.sort = "node" /\ answer = Unanswered
    /\ answer' = <<Affected(question.graph, FirstFound(question.graph, question.query), question)>>
    /\ UNCHANGED question

-----------------------------------------------------------------------------
(* Paths between nodes. *)

RECURSIVE PathsTo(_, _, _, _, _)

\* dfs_paths_to_target: the paths found so far and those that go on from a path; enough
\* are enough before a node is left, but not between its neighbours.
PathsTo(graph, path, target, asked, found) ==
    LET Onward(done, m) ==
            IF m \in ToSet(path) THEN done
            ELSE IF m = target THEN Append(done, Append(path, m))
            ELSE PathsTo(graph, Append(path, m), target, asked, done)
    IN  IF Len(path) > asked.depth \/ Len(found) >= asked.paths THEN found
        ELSE FoldLeft(Onward, found, NeighboursOf(graph, Last(path), "from"))

\* has_path_connecting
Connected(graph, a, b) == b = a \/ b \in ToSet(Around(graph, a, "from", 0))

Once(sequence) ==
    FoldLeft(LAMBDA some, x : IF x \in ToSet(some) THEN some ELSE Append(some, x), <<>>, sequence)

\* collect_paths_between: ways along parallel edges are the same path.
PathsBetween(graph, a, b, asked) ==
    IF Connected(graph, a, b) THEN Once(PathsTo(graph, <<a>>, b, asked, <<>>)) ELSE <<>>

PairsOf(targets) ==
    FlattenSeq([i \in DOMAIN targets |->
        FlattenSeq([k \in 1 .. Len(targets) - i |->
            <<<<targets[i], targets[i + k]>>, <<targets[i + k], targets[i]>>>>])])

\* How many of the paths up to the i-th have its ends.
SameEnds(paths, i) ==
    Cardinality({k \in 1 .. i : paths[k][1] = paths[i][1] /\ Last(paths[k]) = Last(paths[i])})

ShortestFirst(paths) ==
    LET order == SortSeq([i \in DOMAIN paths |-> i],
                         LAMBDA i, k : \/ Len(paths[i]) < Len(paths[k])
                                       \/ Len(paths[i]) = Len(paths[k]) /\ i < k)
    IN  [i \in DOMAIN order |-> paths[order[i]]]

\* Mutant: a pair counts both ways.
ForEitherWay(paths, most) ==
    LET Either(i) == Cardinality({k \in 1 .. i : {paths[k][1], Last(paths[k])} = {paths[i][1], Last(paths[i])}})
        kept == SelectSeq([i \in DOMAIN paths |-> i], LAMBDA i : Either(i) <= most)
    IN  [i \in DOMAIN kept |-> paths[kept[i]]]

ForEachPair(paths, most) ==
    LET kept == SelectSeq([i \in DOMAIN paths |-> i], LAMBDA i : SameEnds(paths, i) <= most)
    IN  [i \in DOMAIN kept |-> paths[kept[i]]]

\* find_paths_between: the shortest first, so many for each pair and so many in all.
FoundPaths(graph, targets, asked) ==
    LET pairs == PairsOf(targets)
        all == FlattenSeq([i \in DOMAIN pairs |->
                               PathsBetween(graph, pairs[i][1], pairs[i][2], asked)])
    IN  AtMost(ForEachPair(ShortestFirst(all), asked.paths), asked.total)

\* What is said of a pair: how many paths are shown and how long the shortest is.
Verdict(paths, a, b) ==
    LET mine == {p \in ToSet(paths) : p[1] = a /\ Last(p) = b}
    IN  [from |-> a, to |-> b,
         count |-> Len(SelectSeq(paths, LAMBDA p : p[1] = a /\ Last(p) = b)),
         hops |-> IF mine = {} THEN 0
                  ELSE CHOOSE h \in {Len(p) - 1 : p \in mine} : \A p \in mine : h <= Len(p) - 1]

Verdicts(paths, targets) ==
    {Verdict(paths, targets[i], targets[k]) :
        <<i, k>> \in {d \in (DOMAIN targets) \X (DOMAIN targets) : d[1] # d[2]}}

\* build_reverse_adjacency: the callers of each node on some paths, in the order of their
\* names.
CallersOn(graph, paths) ==
    [n \in UNION {ToSet(Tail(p)) : p \in paths} |->
        LET Calls(m) == \E p \in paths : \E i \in 1 .. Len(p) - 1 : p[i] = m /\ p[i + 1] = n
        IN  SortSeq(InOrder(graph, {m \in Nodes(graph) : Calls(m)}),
                    LAMBDA a, b : Sooner(NameOf(graph, a), NameOf(graph, b)))]

RECURSIVE Converging(_, _, _)

\* render_reverse_child: a line for a caller, and those of its own callers where it is
\* met first; one that is met again is called a cycle.
Converging(callers, n, done) ==
    IF n \in done.met THEN [done EXCEPT !.lines = Append(@, [node |-> n, cycle |-> TRUE])]
    ELSE FoldLeft(LAMBDA some, m : Converging(callers, m, some),
                  [met |-> done.met \cup {n},
                   lines |-> Append(done.lines, [node |-> n, cycle |-> FALSE])],
                  IF n \in DOMAIN callers THEN callers[n] ELSE <<>>)

\* format_paths_reverse_tree: for each node that paths lead to its callers on them.
ReverseTrees(graph, paths) ==
    [root \in {Last(p) : p \in ToSet(paths)} |->
        LET callers == CallersOn(graph, {p \in ToSet(paths) : Last(p) = root})
        IN  FoldLeft(LAMBDA some, m : Converging(callers, m, some),
                     [met |-> {root}, lines |-> <<>>], callers[root]).lines]

\* cmd_inspect: all names are resolved first, and the first which is not ends the command.
Inspect ==
    /\ question.sort = "inspect" /\ answer = Unanswered
    /\ \E found \in {[i \in DOMAIN question.queries |->
                         Resolve(question.graph, question.queries[i], question.all, question.fail).nodes]} :
       \E paths \in {FoundPaths(question.graph, FlattenSeq(found), question)} :
           answer' = IF \E i \in DOMAIN found : found[i] = <<>>
                     THEN [error |-> TRUE, paths |-> <<>>, verdicts |-> {}, trees |-> <<>>]
                     ELSE [error |-> FALSE, paths |-> paths,
                           verdicts |-> Verdicts(paths, FlattenSeq(found)),
                           trees |-> ReverseTrees(question.graph, paths)]
    /\ UNCHANGED question

ReachNext == LookupNext \/ ImpactOfFile \/ ImpactOfNode \/ Inspect

-----------------------------------------------------------------------------
(* What answers should be. *)

\* There is a way of some steps from one of the starts, and between any two nodes next
\* to each other on it some edge, or every edge, is of the types asked for.
Within(graph, starts, n, way, steps, types, every) ==
    LET Good(a, b) ==
            LET between == {e \in ToSet(graph.edges) : IF way = "from" THEN e.from = a /\ e.to = b
                                                       ELSE e.from = b /\ e.to = a}
            IN  /\ between # {}
                /\ IF every THEN \A e \in between : e.type \in types
                   ELSE \E e \in between : e.type \in types
    IN  \E k \in 1 .. steps : \E p \in [1 .. k + 1 -> Nodes(graph)] :
            p[1] \in starts /\ p[k + 1] = n /\ \A i \in 1 .. k : Good(p[i], p[i + 1])

\* All that is within the depth along edges of the types asked for is affected (where
\* parallel edges are of one mind), and nothing that is not.
ImpactIsWhole ==
    LET graph == question.graph
        Right(starts, entries, way) ==
            \A n \in Nodes(graph) \ starts :
                LET Met(every) == Within(graph, starts, n, way, question.depth, question.types, every)
                    listed == \E e \in entries : e.symbol = NameOf(graph, n)
                IN  (listed => Met(FALSE)) /\ (Met(TRUE) => listed)
    IN  question.sort \in {"files", "node"} /\ answer # Unanswered =>
            \A i \in DOMAIN answer :
                /\ Right(answer[i].starts, answer[i].upstream, "to")
                /\ Right(answer[i].starts, answer[i].downstream, "from")

\* The help says "Edge types to include in impact traversal": a node next to a start by
\* an edge of a type asked for is affected.
ImpactFollowsTypes ==
    LET graph == question.graph
    IN  question.sort \in {"files", "node"} /\ answer # Unanswered =>
            \A i \in DOMAIN answer : \A e \in ToSet(graph.edges) :
                /\ e.from \in answer[i].starts /\ e.to \notin answer[i].starts
                /\ e.type \in question.types /\ question.depth > 0
                => \E d \in answer[i].downstream : d.symbol = NameOf(graph, e.to)

\* Every path that is shown is one, is not longer than asked, and is among the shortest of
\* what was collected; what is called reachable in some hops is so in no fewer unless paths
\* were left out, and what is called unreachable is so within the depth unless the paths in
\* all were too many; the tree of a node has every caller on the paths to it.
VerdictsAreRight ==
    LET graph == question.graph
        Ways(a, b) == {<<a>> \o p : p \in {q \in SimplePaths(graph, a, "from", question.depth, FALSE) :
                                              Last(q) = b}}
        Full == Len(answer.paths) = question.total
    IN  question.sort = "inspect" /\ answer # Unanswered =>
        /\ \A p \in ToSet(answer.paths) : p \in Ways(p[1], Last(p))
        /\ \A v \in answer.verdicts : v.from # v.to =>
              LET ways == Ways(v.from, v.to)
              IN  /\ v.count = 0 => ways = {} \/ Full
                  /\ v.count > 0 /\ Cardinality(ways) < question.paths =>
                        \A w \in ways : v.hops <= Len(w) - 1
        /\ \A p \in ToSet(answer.paths) : \A i \in 1 .. Len(p) - 1 :
              \E line \in ToSet(answer.trees[Last(p)]) : line.node = p[i] /\ ~line.cycle

=============================================================================
