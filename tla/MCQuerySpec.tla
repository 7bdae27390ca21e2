---------------------------- MODULE MCQuerySpec ----------------------------
(* Requests for model checking QuerySpec: all graphs of up to two edges on  *)
(* three nodes with each way of walking them, all of three edges and the    *)
(* plain ones of four with fewer, and a graph with several steps and starts. *)
EXTENDS QuerySpec

CONSTANTS a, b, c, call, flow

Three == {a, b, c}
Categories == {call, flow}

Call(x, y) == [from |-> x, to |-> y, cat |-> call]

Flow(x, y) == [from |-> x, to |-> y, cat |-> flow]

Hops == {Call(x, y) : x, y \in Three}

EdgeLists(n) == UNION {[1 .. i -> Hops] : i \in 0 .. n}

\* Graphs without loops and parallel edges.
PlainGraphs(n) ==
    {g \in EdgeLists(n) : Distinct(g) /\ \A i \in 1 .. Len(g) : g[i].from # g[i].to}

Out(depth) == [action |-> "outgoing", cats |-> AnyCat, depth |-> depth]

Along(dir, cats) == [action |-> dir, cats |-> cats, depth |-> NoLimit]

Filter(s) == [action |-> "filter", nodes |-> s]

Until(s) == [action |-> "until", nodes |-> s]

Ask(edges, starts, steps, collect, target, limit) ==
    [edges |-> edges, starts |-> starts, steps |-> steps, collect |-> collect,
     target |-> target, limit |-> limit]

\* collect, target
Modes == {<<"nodes", NoNode>>, <<"paths", NoNode>>, <<"target", c>>, <<"target", NoNode>>}

Limits == {NoLimit, 0, 1}

Depths == {NoLimit, 0, 2}

Stepses ==
    {<<Out(depth)>> : depth \in Depths} \cup
    {<<Out(NoLimit), Until({b})>>, <<Out(NoLimit), Filter({a, c})>>,
     <<Out(2), Until({c}), Filter({b})>>}

Small ==
    {Ask(g, <<a>>, steps, m[1], m[2], limit) :
        g \in EdgeLists(2), steps \in Stepses, m \in Modes, limit \in Limits}

Plain ==
    {Ask(g, <<a>>, <<Out(depth)>>, m[1], m[2], limit) :
        g \in PlainGraphs(4) \cup EdgeLists(3), depth \in {NoLimit, 2}, m \in Modes, limit \in {NoLimit, 1}}

Diamond == <<Call(a, b), Flow(a, c), Flow(b, c), Call(b, a), Call(c, b)>>

Several ==
    {Ask(Diamond, starts, steps, collect, NoNode, NoLimit) :
        starts \in {<<a, b>>, <<c, a, b>>, <<b, b>>},
        collect \in {"nodes", "paths"},
        steps \in {<<Along("outgoing", {call}), Along("incoming", AnyCat)>>,
                   <<Along("outgoing", {call}), Along("incoming", {flow}), Until({b})>>,
                   <<Along("outgoing", {call}), Along("outgoing", {})>>,
                   <<Out(2), Filter({a}), Filter({b, c})>>}}

\* A filter before a walk, and a walk back after a walk.
TwoSteps ==
    {Ask(g, <<a>>, steps, "nodes", NoNode, NoLimit) :
        g \in EdgeLists(2),
        steps \in {<<Out(NoLimit), Filter({b})>>, <<Filter({a}), Out(NoLimit)>>,
                   <<Along("outgoing", {call}), Along("incoming", AnyCat)>>}}

Requests == Small \cup Plain \cup Several

Queries == {}
=============================================================================
