----------------------------- MODULE QuerySpec -----------------------------
(***************************************************************************)
(* What a query spec (src/graph/query/spec.rs) makes of its steps, and the *)
(* walks of module Traversal it runs, one for each start node.             *)
(***************************************************************************)
EXTENDS Traversal, SequencesExt

CONSTANTS
    Category,  \* the categories of edges
    AnyCat,       \* no edge_categories given
    Request    \* the queries somebody asks

\* What a step gives; the nodes a filter or an until step is about are given as a set.
StepType ==
    [action : {"outgoing", "incoming"}, cats : (SUBSET Category) \cup {AnyCat}, depth : Limit]
    \cup [action : {"until", "filter"}, nodes : SUBSET Node]

\* A request: a graph, as the sequence of its edges in the order they were added,
\* the nodes its start spec finds, its steps, and what it collects.  Without a start
\* or a step nothing is walked.  GraphTraversal's other users (impact, inspect) come
\* with a limit or a target, and one start.
RequestType ==
    [edges   : Seq([from : Node, to : Node, cat : Category]),
     starts  : Seq(Node) \ {<<>>},
     steps   : Seq(StepType) \ {<<>>},
     collect : {"nodes", "paths", "target"},
     target  : Node \cup {NoNode},
     limit   : Limit]

ASSUME RequestAssumption == Request \subseteq RequestType

VARIABLES
    req,       \* the request
    todo,      \* the starts after this one
    rows,      \* all_nodes, or all_paths
    answered

execution == <<walk, req, todo, rows, answered>>

-----------------------------------------------------------------------------

\* GraphTraversal::new
Builder == [dir |-> "outgoing", cats |-> AnyCat, depth |-> NoLimit, until |-> {},
            pass |-> Node]

\* Each step sets what it gives, over what the steps before it gave.
Apply(b, step) ==
    IF step.action \in {"outgoing", "incoming"}
    THEN [b EXCEPT !.dir = step.action,
                   !.cats = IF step.cats = AnyCat THEN @ ELSE step.cats,
                   !.depth = IF step.depth = NoLimit THEN @ ELSE step.depth]
    ELSE [b EXCEPT ![IF step.action = "until" THEN "until" ELSE "pass"] = step.nodes]

Configure(steps) == FoldLeft(Apply, Builder, steps)

\* EdgeFilter::matches; a filter without categories lets every edge pass.
Matches(cats, edge) == cats \in {AnyCat, {}} \/ edge.cat \in cats

Hop(edge, dir) ==
    IF dir = "outgoing" THEN <<edge.from, edge.to>> ELSE <<edge.to, edge.from>>

\* petgraph puts each edge before those its node has.
Added(found, hop, n) == IF hop[1] = n THEN <<hop[2]>> \o found ELSE found

Neighbours(edges, dir) ==
    [n \in Node |-> FoldLeft(LAMBDA found, e : Added(found, Hop(e, dir), n), <<>>, edges)]

\* The walk from a start with these settings.
QueryFor(made, r, s) ==
    [mode   |-> r.collect,
     nbrs   |-> Neighbours(r.edges, made.dir),
     match  |-> {Hop(e, made.dir) : e \in {x \in ToSet(r.edges) : Matches(made.cats, x)}},
     until  |-> made.until,
     pass   |-> made.pass,
     start  |-> s,
     target |-> r.target,
     depth  |-> made.depth,
     limit  |-> r.limit]

QueryOf(r, s) == QueryFor(Configure(r.steps), r, s)

-----------------------------------------------------------------------------

ExecuteInit ==
    /\ req \in Request
    /\ todo = Tail(req.starts)
    /\ rows = <<>>
    /\ answered = FALSE
    /\ q = QueryOf(req, Head(req.starts))
    /\ stack = <<Frame(q.start)>>
    /\ visited = IF q.mode = "nodes" THEN {} ELSE {q.start}
    /\ out = <<>>

Walk == Next /\ UNCHANGED <<req, todo, rows, answered>>

\* Mutant: the starts share one visited set.
NextStartVisited ==
    /\ Done /\ todo # <<>>
    /\ rows' = rows \o out
    /\ todo' = Tail(todo)
    /\ q' = QueryOf(req, Head(todo))
    /\ stack' = <<Frame(q'.start)>>
    /\ visited' = IF q'.mode = "nodes" THEN visited ELSE visited \cup {q'.start}
    /\ out' = <<>>
    /\ UNCHANGED <<req, answered>>

\* execute_traversal on the next start, with everything of its own.
NextStart ==
    /\ Done /\ todo # <<>>
    /\ rows' = rows \o out
    /\ todo' = Tail(todo)
    /\ q' = QueryOf(req, Head(todo))
    /\ stack' = <<Frame(q'.start)>>
    /\ visited' = IF q'.mode = "nodes" THEN {} ELSE {q'.start}
    /\ out' = <<>>
    /\ UNCHANGED <<req, answered>>

AddedOnce(firsts, x) == IF x \in ToSet(firsts) THEN firsts ELSE Append(firsts, x)

FirstOfEach(s) == FoldLeft(AddedOnce, <<>>, s)

Reply ==
    /\ Done /\ todo = <<>> /\ ~answered
    /\ rows' = IF req.collect = "nodes" THEN FirstOfEach(rows \o out)
               ELSE rows \o out
    /\ answered' = TRUE
    /\ UNCHANGED <<walk, req, todo>>

ExecuteNext == Walk \/ NextStart \/ Reply

ExecuteSpec == ExecuteInit /\ [][ExecuteNext]_execution

ExecuteFairSpec == ExecuteSpec /\ WF_execution(ExecuteNext)

-----------------------------------------------------------------------------
(* Properties. *)

Of(query) == INSTANCE Traversal WITH q <- query

Starts == ToSet(req.starts)

\* What the last of the steps at these places gives.
Latest(steps, places, field, default) ==
    IF places = {} THEN default ELSE steps[Max(places)][field]

\* The settings the steps at these places leave in force, each read off the last step
\* which gives it.
MeantAt(steps, places) ==
    LET Doing(actions) == {i \in places : steps[i].action \in actions}
        walking == Doing({"outgoing", "incoming"})
    IN  [dir   |-> Latest(steps, walking, "action", "outgoing"),
         cats  |-> Latest(steps, {i \in walking : steps[i].cats # AnyCat}, "cats", AnyCat),
         depth |-> Latest(steps, {i \in walking : steps[i].depth # NoLimit}, "depth", NoLimit),
         until |-> Latest(steps, Doing({"until"}), "nodes", {}),
         pass  |-> Latest(steps, Doing({"filter"}), "nodes", Node)]

Meant(steps) == MeantAt(steps, DOMAIN steps)

\* The one walk the request stands for.
MeantFrom(s) == QueryFor(Meant(req.steps), req, s)

\* The answer is that of one walk from each start, with the settings read off the last
\* steps to give them: it holds every path from some start, or, once, every node some
\* start reaches.  One start's visited set hides nothing from the next, and no setting is
\* left from before.  (Whether one walk is what the steps promise: StepsRunInOrder.)
AnswerIsUnion ==
    answered /\ req.limit = NoLimit =>
        IF req.collect # "nodes"
        THEN ToSet(rows) = UNION {Of(MeantFrom(s))!Answer : s \in Starts}
        ELSE /\ Distinct(rows)
             /\ Meant(req.steps).depth = NoLimit =>
                   ToSet(rows) = UNION {Of(MeantFrom(s))!Reachable \cap Of(MeantFrom(s))!Shown :
                                        s \in Starts}

\* Every request is answered.
EveryQueryAnswered == <>answered

-----------------------------------------------------------------------------
(* What the docs say of steps: each is applied to what the one before it    *)
(* found.                                                                   *)

\* The nodes a step makes of some: a walk of this step alone from each of them, or those
\* the filter passes.
Stepped(nodes, step) ==
    IF step.action = "filter" THEN nodes \cap step.nodes
    ELSE UNION {Of(QueryFor(Meant(<<step>>), req, s))!Reachable : s \in nodes}

\* "Optional traversal steps to apply sequentially" (src/graph/query/spec.rs:9): the nodes
\* a query of walks without a limit and of filters collects are what the steps make of
\* the starts, one after the other.
StepsRunInOrder ==
    /\ answered /\ req.collect = "nodes" /\ req.limit = NoLimit
    /\ \A i \in DOMAIN req.steps :
          \/ req.steps[i].action = "filter"
          \/ req.steps[i].action # "until" /\ req.steps[i].depth = NoLimit
    => ToSet(rows) = FoldLeft(Stepped, Starts, req.steps)
=============================================================================
