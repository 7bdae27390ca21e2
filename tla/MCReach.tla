------------------------------ MODULE MCReach -------------------------------
(***************************************************************************)
(* Questions for Reach: texts of up to three letters and prefixes with     *)
(* aliases about nine nodes; changes in all graphs of two edges and some  *)
(* larger ones; connections in all plain graphs of up to four edges.       *)
(***************************************************************************)
EXTENDS Reach

\* . 2 3 : a b g j p
DotLetter == 1
ColonLetter == 4
LineDigits == {2, 3}

Schemes == [sql |-> <<8, 4>>, jsp |-> <<7, 4>>, jspsql |-> <<7, 8, 4>>]

OneNode(kind, file, name, alias, line) ==
    [kind |-> kind, file |-> file, name |-> name, alias |-> alias, line |-> line]

Routine1(file, name) == OneNode("routine", file, name, NoAlias, 1)

Path1 == <<5, 6>>
Path2 == <<6, 6>>

\* p:a.b p:b p:ab j:ab:2 j:ab:3 g:bb gj:bb:2 -- the statements of method a.b, and page ab
Named ==
    <<Routine1(Path1, <<9, 4, 5, 1, 6>>), Routine1(Path1, <<9, 4, 6>>), Routine1(Path2, <<9, 4, 5, 6>>),
      OneNode("sql", Path1, <<8, 4, 5, 6, 4, 2>>, <<5, 1, 6>>, 2),
      OneNode("sql", Path1, <<8, 4, 5, 6, 4, 3>>, <<5, 1, 6>>, 3),
      OneNode("jsp", Path2, <<7, 4, 6, 6>>, <<5, 6>>, 1),
      OneNode("jspsql", Path2, <<7, 8, 4, 6, 6, 4, 2>>, <<5, 6, 4, 2>>, 2),
      OneNode("builtin", NoFile, <<9, 4, 6, 6>>, NoAlias, 1),
      OneNode("index", Path2, <<6, 4, 5>>, NoAlias, 1)>>

Joined(from, to, type, line) == [from |-> from, to |-> to, label |-> type, type |-> type, line |-> line]

\* The first calls the second twice and itself, and so on in a ring to the last statement.
NamedGraph ==
    [nodes |-> Named,
     edges |-> <<Joined(1, 2, "call", 1), Joined(1, 2, "call", 2), Joined(1, 1, "call", 1),
                 Joined(2, 3, "call", 1), Joined(3, 1, "call", 1), Joined(4, 3, "flow", 1),
                 Joined(5, 3, "flow", 1), Joined(5, 8, "call", 1),
                 Joined(9, 3, "indexes", 1)>>]

ReachLetters == {DotLetter, 2, ColonLetter, 5, 6, 8, 9}
Texts == UNION {[1 .. k -> ReachLetters] : k \in 1 .. 2}
    \cup {<<9, 4>> \o t : t \in {<<5>>, <<6>>, <<5, 6>>, <<5, 1, 6>>}}
    \cup {<<8, 4>> \o t : t \in {<<5>>, <<6>>, <<5, 1, 6>>, <<5, 1, 6, 4, 3>>, <<5, 1, 6, 4>>, <<4, 2>>}}
    \cup {<<7, 4, 5, 6>>, <<7, 8, 4, 5, 6, 4, 2>>, <<7, 8, 4, 5>>}

Queried == {Asking("substring", t, {}) : t \in Texts}
    \cup {Asking("exact", t, {}) : t \in {<<9, 4, 6>>, <<6>>}}
    \cup {Asking("regex", <<>>, m) : m \in {{}, {<<9, 4, 6>>, <<9, 4, 5, 6>>}}}

TraceOf(query, all, fail) ==
    [sort |-> "trace", graph |-> NamedGraph, query |-> query, all |-> all, fail |-> fail, builtins |-> FALSE]

ToolOf(query, depth, budget) ==
    [sort |-> "tool", graph |-> NamedGraph, query |-> query, depth |-> depth, budget |-> budget]

DetailsOf(texts, all, fail, depth) ==
    [sort |-> "details", graph |-> NamedGraph, queries |-> [i \in DOMAIN texts |-> Asking("substring", texts[i], {})],
     all |-> all, fail |-> fail, depth |-> depth, builtins |-> TRUE, related |-> TRUE]

ListOf(text, limit, kinds, most) ==
    [sort |-> "list", graph |-> NamedGraph, text |-> text, limit |-> limit, kinds |-> kinds, most |-> most]

PagesOf(of, text, limit, kinds, most) ==
    [sort |-> "pages", of |-> of, graph |-> NamedGraph, text |-> text, limit |-> limit, kinds |-> kinds, most |-> most]

PagesAround(node, way, limit, depth) ==
    [sort |-> "pages", of |-> way, graph |-> NamedGraph, node |-> node, limit |-> limit, depth |-> depth]

SomeKinds == {{"routine"}, {"routine", "sql", "jsp", "jspsql", "builtin", "index"}}

LookupQuestions ==
    {TraceOf(query, all, fail) : query \in Queried, all, fail \in BOOLEAN}
    \cup {ToolOf(query, depth, budget) : query \in Queried, depth \in {1, 51}, budget \in {3, 500}}
    \cup {DetailsOf(texts, all, fail, depth) : all, fail \in BOOLEAN, depth \in {-2, -1, 0, 2},
             texts \in {<<<<6>>, <<9, 4, 6>>>>, <<<<8, 9>>, <<2>>>>, <<<<9, 4, 5, 6>>>>, <<<<2>>, <<6>>>>}}
    \cup {[sort |-> "ids", graph |-> NamedGraph, ids |-> ids, depth |-> depth] :
             ids \in {<<1>>, <<8, 11, 2>>}, depth \in 0 .. 2}
    \cup {ListOf(text, limit, kinds, most) :
             text \in Texts \cup {<<>>}, limit \in {1, 10}, kinds \in SomeKinds, most \in {1, 10}}
    \cup {PagesOf(of, text, limit, kinds, most) : of \in {"nodes", "tool"},
             text \in Texts \cup {<<>>}, limit \in {1, 2, 10}, kinds \in SomeKinds, most \in {1, 10}}
    \cup {PagesAround(node, way, limit, depth) :
             node \in {1, 3}, way \in {"from", "to"}, limit \in {1, 2}, depth \in {0, 1}}
    \cup {[sort |-> "export", graph |-> NamedGraph, text |-> text] : text \in Texts}

ThreeNodes ==
    <<OneNode("routine", Path1, <<5>>, NoAlias, 1), OneNode("sql", Path1, <<6>>, NoAlias, 2),
      OneNode("routine", Path2, <<7>>, NoAlias, 3)>>
FourNodes == Append(ThreeNodes, OneNode("routine", Path2, <<8>>, NoAlias, 4))

Types == {"call", "flow"}
Joins(n) == {Joined(f, t, type, NoLine) : f, t \in 1 .. n, type \in Types}

TwoJoins == {[nodes |-> ThreeNodes, edges |-> e] : e \in UNION {[1 .. k -> Joins(3)] : k \in 0 .. 2}}

\* A chain with a way around, a ring with parallel edges of both types, a diamond.
Chained ==
    {[nodes |-> FourNodes, edges |-> [i \in DOMAIN e |-> Joined(e[i][1], e[i][2], e[i][3], i)]] :
        e \in {<<<<1, 2, "call">>, <<2, 3, "flow">>, <<3, 4, "call">>, <<1, 3, "call">>>>,
               <<<<1, 2, "call">>, <<1, 2, "flow">>, <<2, 3, "call">>, <<3, 4, "call">>, <<4, 1, "call">>>>,
               <<<<1, 2, "call">>, <<1, 3, "flow">>, <<2, 4, "call">>, <<3, 4, "call">>>>}}

PathTo(text, file) == [text |-> text, file |-> file]

Changes ==
    {[sort |-> "files", graph |-> g, paths |-> p, depth |-> depth, types |-> types] :
        g \in TwoJoins \cup Chained, types \in {{"call"}, Types}, depth \in 0 .. 2,
        p \in {<<PathTo(Path1, Path1)>>}}
    \cup {[sort |-> "files", graph |-> g, paths |-> p, depth |-> depth, types |-> Types] :
        g \in Chained, depth \in 1 .. 3,
        p \in {<<PathTo(<<6>>, Nowhere), PathTo(Path2, Path2)>>, <<PathTo(<<5>>, Nowhere)>>}}
    \cup {[sort |-> "node", graph |-> g, query |-> query, depth |-> depth, types |-> types] :
        g \in Chained, depth \in 1 .. 3, types \in {{"call"}, Types},
        query \in {Asking("exact", <<7>>, {}), Asking("substring", <<9>>, {})}}

\* Edges in the order of their ends, without loops and parallels.
CallGraphs(most) ==
    LET pairs == {e \in (1 .. 4) \X (1 .. 4) : e[1] # e[2]}
    IN  {[nodes |-> FourNodes,
          edges |-> LET s == SetToSeq(p) IN [i \in DOMAIN s |-> Joined(s[i][1], s[i][2], "call", i)]] :
            p \in {s \in SUBSET pairs : Cardinality(s) <= most}}

Exactly(names) == [i \in DOMAIN names |-> Asking("exact", names[i], {})]

InspectOf(graph, queries, all, fail, depth, paths) ==
    [sort |-> "inspect", graph |-> graph, queries |-> queries, all |-> all, fail |-> fail,
     depth |-> depth, paths |-> paths, total |-> 10 * paths]

Connections ==
    {InspectOf(g, Exactly(<<<<5>>, <<6>>, <<8>>>>), FALSE, FALSE, depth, paths) :
        g \in CallGraphs(4), depth \in {1, 3}, paths \in {1, 10}}
    \cup {InspectOf(g, q, all, fail, 3, paths) : g \in Chained, all, fail \in BOOLEAN, paths \in {0, 1, 2},
             q \in {Exactly(<<<<5>>, <<6>>, <<7>>, <<8>>>>), Exactly(<<<<5>>, <<5>>, <<7>>>>),
                    Exactly(<<<<5>>, <<9>>>>), <<Asking("regex", <<>>, {<<5>>, <<8>>})>>}}

ReachInit == question \in LookupQuestions \cup Changes \cup Connections /\ answer = Unanswered

ReachSpec == ReachInit /\ [][ReachNext]_lookupVars

=============================================================================
