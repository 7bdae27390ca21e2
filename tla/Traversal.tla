----------------------------- MODULE Traversal -----------------------------
(***************************************************************************)
(* The walks of the query engine (src/graph/query/traversal.rs): one depth *)
(* first search which collects nodes, paths, or paths to a target.  The    *)
(* recursion is a stack of frames, one per call.  A query is chosen at the *)
(* start and never changes; it holds what the search sees of the graph.    *)
(***************************************************************************)
EXTENDS Naturals, Sequences, FiniteSets

CONSTANTS
    Node,      \* the nodes of the graph
    NoNode,    \* no target
    NoLimit,   \* no max_depth, no max_paths
    Query      \* the queries to be walked

\* A query: the neighbours of each node in the order of the graph, one entry per
\* edge in the direction of the walk; the pairs with an edge the edge filter
\* matches; the nodes `until` stops at, and those the node filter passes.
Limit == Nat \cup {NoLimit}

QueryType ==
    [mode   : {"nodes", "paths", "target"},
     nbrs   : [Node -> Seq(Node)],
     match  : SUBSET (Node \X Node),
     until  : SUBSET Node,
     pass   : SUBSET Node,
     start  : Node,
     target : Node \cup {NoNode},
     depth  : Limit,
     limit  : Limit]

\* A graph in memory is finite.
ASSUME TraversalAssumption ==
    /\ IsFiniteSet(Node)
    /\ NoNode \notin Node
    /\ NoLimit \notin Nat
    /\ Query \subseteq QueryType

VARIABLES
    q,         \* the query
    stack,     \* the calls under way, each with the neighbours it has left
    visited,
    out        \* the result: nodes, or paths

walk == <<q, stack, visited, out>>

-----------------------------------------------------------------------------

\* collect_paths_to_target without a target is collect_paths.
Mode == IF q.mode = "target" /\ q.target = NoNode THEN "paths" ELSE q.mode

Frame(n) == [node |-> n, rest |-> <<>>, open |-> FALSE, went |-> FALSE]

Depth == Len(stack) - 1

Top == stack[Len(stack)]

WithTop(frame) == [stack EXCEPT ![Len(stack)] = frame]

Callers == SubSeq(stack, 1, Depth)

\* current_path
Trail == [i \in 1 .. Len(stack) |-> stack[i].node]

Init ==
    /\ q \in Query
    /\ stack = <<Frame(q.start)>>
    /\ visited = IF q.mode = "nodes" THEN {} ELSE {q.start}
    /\ out = <<>>

Full == q.limit # NoLimit /\ Len(out) >= q.limit

Deep == q.depth # NoLimit /\ Depth >= q.depth

\* Mutant: the path does not take its node back.
LeaveVisited ==
    /\ stack' = Callers
    /\ UNCHANGED <<q, visited>>

\* A call returns; of a path its caller takes the node back.
Leave ==
    /\ stack' = Callers
    /\ visited' = IF Mode = "nodes" \/ Depth = 0 THEN visited
                  ELSE visited \ {Top.node}
    /\ UNCHANGED q

Entering == stack # <<>> /\ ~Top.open

\* max_paths is looked at when a call begins, and then only.
CutFull ==
    /\ Entering /\ Full
    /\ Leave
    /\ UNCHANGED out

\* So is max_depth: a path which is cut there is a result.
CutDeep ==
    /\ Entering /\ ~Full /\ Deep
    /\ Leave
    /\ out' = IF Mode = "paths" /\ Depth > 0 THEN Append(out, Trail) ELSE out

Open ==
    /\ Entering /\ ~Full /\ ~Deep
    /\ stack' = WithTop([Top EXCEPT !.open = TRUE, !.rest = q.nbrs[Top.node]])
    /\ UNCHANGED <<q, visited, out>>

-----------------------------------------------------------------------------
(* One neighbour. *)

Looking == stack # <<>> /\ Top.open /\ Top.rest # <<>>

Neighbor == Head(Top.rest)

\* Mutant: the node filter stops collect_nodes too.
GoesFiltered ==
    /\ Neighbor \notin visited
    /\ <<Top.node, Neighbor>> \in q.match
    /\ Neighbor \in q.pass

\* Whether the search goes to the next neighbour: the node filter hides a node
\* from the result of collect_nodes, but keeps paths from going there.
Goes ==
    /\ Neighbor \notin visited
    /\ <<Top.node, Neighbor>> \in q.match
    /\ Mode = "nodes" \/ Neighbor \in q.pass

\* Whether it stops there.
Stops ==
    \/ Neighbor \in q.until
    \/ Mode = "target" /\ Neighbor = q.target

Looked(went) == WithTop([Top EXCEPT !.rest = Tail(@), !.went = @ \/ went])

\* Mutant: the loop does not get beyond a neighbour it skips.
SkipStays ==
    /\ Looking /\ ~Goes
    /\ UNCHANGED walk

Skip ==
    /\ Looking /\ ~Goes
    /\ stack' = Looked(FALSE)
    /\ UNCHANGED <<q, visited, out>>

\* Mutant: a path which stops goes on nevertheless.
StopAndGo ==
    /\ Looking /\ Goes /\ Stops
    /\ stack' = Append(Looked(TRUE), Frame(Neighbor))
    /\ visited' = visited \cup {Neighbor}
    /\ out' = Append(out, IF Mode = "nodes" THEN Neighbor
                          ELSE Append(Trail, Neighbor))
    /\ UNCHANGED q

\* A node where the search stops is a result, whatever max_paths says; a path
\* takes the node back at once.
Stop ==
    /\ Looking /\ Goes /\ Stops
    /\ stack' = Looked(TRUE)
    /\ visited' = IF Mode = "nodes" THEN visited \cup {Neighbor} ELSE visited
    /\ out' = Append(out, IF Mode = "nodes" THEN Neighbor
                          ELSE Append(Trail, Neighbor))
    /\ UNCHANGED q

Go ==
    /\ Looking /\ Goes /\ ~Stops
    /\ stack' = Append(Looked(TRUE), Frame(Neighbor))
    /\ visited' = visited \cup {Neighbor}
    /\ out' = IF Mode = "nodes" /\ Neighbor \in q.pass
              THEN Append(out, Neighbor) ELSE out
    /\ UNCHANGED q

\* Mutant: every path is a result, one which went on too.
ReturnAlways ==
    /\ stack # <<>> /\ Top.open /\ Top.rest = <<>>
    /\ Leave
    /\ out' = IF Mode = "paths" /\ Depth > 0 THEN Append(out, Trail) ELSE out

\* No neighbour is left; a path which could not go on is a result.
Return ==
    /\ stack # <<>> /\ Top.open /\ Top.rest = <<>>
    /\ Leave
    /\ out' = IF Mode = "paths" /\ ~Top.went /\ Depth > 0
              THEN Append(out, Trail) ELSE out

Next == CutFull \/ CutDeep \/ Open \/ Skip \/ Stop \/ Go \/ Return

Spec == Init /\ [][Next]_walk

-----------------------------------------------------------------------------
(* What a walk should find. *)

Done == stack = <<>>

Results == {out[i] : i \in 1 .. Len(out)}

Step(n, m) == <<n, m>> \in q.match /\ \E i \in 1 .. Len(q.nbrs[n]) : q.nbrs[n][i] = m

\* The search goes on from the start and from every node it does not stop at.
Passable(n) == n = q.start \/ n \notin q.until

\* The nodes the start reaches in 1 to k steps, the start itself if on a cycle.
Reached[k \in Nat] ==
    IF k = 0 THEN {}
    ELSE LET from == {q.start} \cup {n \in Reached[k - 1] : Passable(n)}
         IN  {m \in Node : \E n \in from : Step(n, m)}

\* The nodes the start reaches in any number of steps: those in every set which
\* has, with the start and its own passable nodes, the nodes these step to.
Closed(set) ==
    \A n \in set \cup {q.start} :
        Passable(n) => \A m \in Node : Step(n, m) => m \in set

Reachable == {m \in Node : \A set \in SUBSET Node : Closed(set) => m \in set}

Shown == q.pass \cup q.until

Distinct(s) == \A i, j \in 1 .. Len(s) : s[i] = s[j] => i = j

\* A path the search may take: simple, along matching edges, to nodes which pass
\* the filter, through none it stops at.
Walkable(p) ==
    /\ p[1] = q.start
    /\ Distinct(p)
    /\ \A i \in 2 .. Len(p) : Step(p[i - 1], p[i]) /\ p[i] \in q.pass
    /\ \A i \in 2 .. Len(p) - 1 :
          p[i] \notin q.until /\ ~(Mode = "target" /\ p[i] = q.target)

Short(p) == q.depth = NoLimit \/ Len(p) <= q.depth + 1

\* A path to the target ends there or at a node of `until`; any other path goes
\* on until it must stop.
Ends(p) ==
    LET last == p[Len(p)]
    IN  \/ last \in q.until
        \/ Mode = "target" /\ last = q.target
        \/ /\ Mode = "paths"
           /\ \/ q.depth # NoLimit /\ Len(p) = q.depth + 1
              \/ \A m \in q.pass :
                    Step(last, m) => \E i \in 1 .. Len(p) : p[i] = m

Sought(p) == Walkable(p) /\ Short(p) /\ Ends(p)

Answer ==
    LET Paths == UNION {[1 .. n -> Node] : n \in 2 .. Cardinality(Node)}
    IN  {p \in Paths : Sought(p)}

Simple ==
    \A n \in Node : Distinct(q.nbrs[n])
-----------------------------------------------------------------------------
(* Properties. *)

FrameType ==
    [node : Node, rest : Seq(Node), open : BOOLEAN, went : BOOLEAN]

\* The variables keep their types; what is collected is of one kind.
TypeOK ==
    /\ q \in QueryType
    /\ stack \in Seq(FrameType)
    /\ visited \in SUBSET Node
    /\ out \in Seq(IF Mode = "nodes" THEN Node ELSE Seq(Node))

\* Paths only: whatever was cut, stopped or taken back in between, visited holds
\* the nodes of the current path and nothing else, and none of them twice.
VisitedIsPath ==
    Mode # "nodes" /\ stack # <<>> =>
        /\ visited = {Trail[i] : i \in 1 .. Len(Trail)}
        /\ Distinct(Trail)

\* collect_nodes returns no node twice, and only nodes which the start reaches,
\* not beyond a node of `until`.
NodesSound ==
    Mode = "nodes" => Distinct(out) /\ Results \subseteq Reachable \cap Shown

\* Without limits it returns all of them, though it visits each node once.
NodesComplete ==
    Mode = "nodes" /\ Done /\ q.depth = NoLimit /\ q.limit = NoLimit =>
        Results = Reachable \cap Shown

\* Every path returned is one the query asks for.
PathsSound == Mode # "nodes" => \A p \in Results : Sought(p)

\* max_paths only ever loses paths when that many were found: a search which
\* returns fewer returns all, cut by the depth or not. Without parallel edges no
\* path is returned twice, and a search for all paths without `until` returns
\* max_paths at most, though it looks at the number only when a call begins.
PathsComplete ==
    Mode # "nodes" =>
        /\ Done /\ (q.limit = NoLimit \/ Len(out) < q.limit) => Results = Answer
        /\ Simple => Distinct(out)
        /\ Mode = "paths" /\ q.until = {} /\ q.limit # NoLimit => Len(out) <= q.limit

=============================================================================
