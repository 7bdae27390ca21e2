------------------------------- MODULE Lookup -------------------------------
(***************************************************************************)
(* From names to nodes and to lists of nodes: the search of the store      *)
(* (src/graph/store.rs), which every command and tool begins with, the     *)
(* lists which the nodes command, the MCP tool and the web server page     *)
(* through, and the part of a graph that export --filter writes.           *)
(*                                                                         *)
(* A name is a sequence of letters in lower case, which are numbers in     *)
(* their order.  A node has, besides its key, maybe a name of its class    *)
(* and method or its page, by which it is found behind a prefix.           *)
(***************************************************************************)
EXTENDS ChainTree, Integers

CONSTANTS
    Dot, Colon,   \* the letters that are no part of a word
    Digits,       \* those which make up the number of a line
    Scheme,       \* for each kind of node which has an alias the prefix of its key
    NoAlias,
    Unanswered

VARIABLES
    question,     \* what is asked of which graph
    answer        \* what has been answered

lookupVars == <<question, answer>>

-----------------------------------------------------------------------------
(* Names. *)

\* Where a text begins in a name.
At(text, name) ==
    {i \in 1 .. Len(name) + 1 - Len(text) : SubSeq(name, i, i + Len(text) - 1) = text}

InWord(name, i) == i \in DOMAIN name /\ name[i] \notin {Dot, Colon}

FirstAt(letter, name) == Min({Len(name)} \cup {i \in DOMAIN name : name[i] = letter})

LastAt(letter, name) == Max({0} \cup {i \in DOMAIN name : name[i] = letter})

\* MatchRank::classify, 0 for none: the text is the name or its last part, it begins or
\* ends (before the end of the name) with a word where it is first found, or it is in it.
Rank(text, name) ==
    LET From(sequence, i) == SubSeq(sequence, i + 1, Len(sequence))
        behind == IF Colon \in ToSet(name) THEN From(name, FirstAt(Colon, name)) ELSE name
        bare == From(behind, LastAt(Dot, behind))
        at == CHOOSE i \in At(text, name) : \A k \in At(text, name) : i <= k
        end == at + Len(text)
    IN  CASE text \in {name, behind, bare} -> 1
          [] At(text, name) = {} -> 0
          [] ~InWord(name, at - 1) \/ (end <= Len(name) /\ ~InWord(name, end)) -> 2
          [] OTHER -> 3

\* The order of strings.
Sooner(p, q) ==
    \E i \in 1 .. Len(q) :
        /\ i <= Len(p) + 1 /\ SubSeq(p, 1, i - 1) = SubSeq(q, 1, i - 1)
        /\ i \in DOMAIN p => p[i] < q[i]

NameOf(graph, n) == graph.nodes[n].name

InOrder(graph, nodes) == SelectSeq([n \in Nodes(graph) |-> n], LAMBDA n : n \in nodes)

\* name_index
NameIndex(graph) ==
    SortSeq(InOrder(graph, Nodes(graph)),
            LAMBDA n, m : \/ Sooner(NameOf(graph, n), NameOf(graph, m))
                          \/ NameOf(graph, n) = NameOf(graph, m) /\ n < m)

-----------------------------------------------------------------------------
(* Search. *)

\* Mutant: a text which is the name of a node is looked for no further.
ByNameAlone(graph, text) ==
    LET same == SelectSeq(NameIndex(graph), LAMBDA n : NameOf(graph, n) = text)
    IN  IF same # <<>> THEN same
        ELSE SelectSeq(NameIndex(graph), LAMBDA n : At(text, NameOf(graph, n)) # {})

\* The entries for the text itself or else those that begin with it, which are next to
\* each other in the index, and then all others that contain it.
ByName(graph, text) ==
    LET index == NameIndex(graph)
        same == SelectSeq(index, LAMBDA n : NameOf(graph, n) = text)
        quick == IF same # <<>> THEN same
                 ELSE SelectSeq(index, LAMBDA n : IsPrefix(text, NameOf(graph, n)))
        In(n) == n \notin ToSet(quick) /\ At(text, NameOf(graph, n)) # {}
    IN  quick \o SelectSeq(index, In)

\* What is asked for behind the prefix of a kind: of a statement in Java without the
\* number of the line, by which nothing is told apart.
Unprefixed(text, kind) ==
    LET rest == SubSeq(text, Len(Scheme[kind]) + 1, Len(text))
        last == LastAt(Colon, rest)
        line == SubSeq(rest, last + 1, Len(rest))
    IN  IF kind = "sql" /\ last > 0 /\ line # <<>> /\ ToSet(line) \subseteq Digits
        THEN SubSeq(rest, 1, last - 1) ELSE rest

\* The rank of a node that is found by its alias.
AliasRank(graph, n, text) ==
    LET node == graph.nodes[n]
    IN  IF /\ node.kind \in DOMAIN Scheme /\ node.alias # NoAlias
           /\ IsPrefix(Scheme[node.kind], text) /\ Unprefixed(text, node.kind) # <<>>
        THEN Rank(Unprefixed(text, node.kind), node.alias) ELSE 0

RankedAs(graph, text, named) ==
    [n \in named \cup {n \in Nodes(graph) : AliasRank(graph, n, text) > 0} |->
        IF n \in named THEN Rank(text, NameOf(graph, n)) ELSE AliasRank(graph, n, text)]

\* The nodes a text finds, each with its rank.
Ranked(graph, text) == RankedAs(graph, text, ToSet(ByName(graph, text)))

\* neighbors_undirected: a loop counts once.
Touching(graph, n) == Len(SelectSeq(graph.edges, LAMBDA e : n \in {e.from, e.to}))

\* The best rank first, then what most edges touch.
ByRank(graph, rank) ==
    LET Before(n, m) ==
            \/ rank[n] < rank[m]
            \/ rank[n] = rank[m] /\ Touching(graph, n) > Touching(graph, m)
            \/ /\ rank[n] = rank[m] /\ Touching(graph, n) = Touching(graph, m)
               /\ Sooner(NameOf(graph, n), NameOf(graph, m))
    IN  SortSeq(InOrder(graph, DOMAIN rank), Before)

AtMost(sequence, limit) ==
    SubSeq(sequence, 1, IF limit < Len(sequence) THEN limit ELSE Len(sequence))

\* search_nodes_limit
SearchNodes(graph, text, limit) == AtMost(ByRank(graph, Ranked(graph, text)), limit)

\* A query has a mode and a text or, of a regular expression, the names it matches.
Asking(mode, text, matches) == [mode |-> mode, text |-> text, matches |-> matches]

\* search_nodes_with_mode_limit: the limit is for texts alone.
Search(graph, query) ==
    LET Exactly(n) == NameOf(graph, n) = query.text
        Matching(n) == NameOf(graph, n) \in query.matches
    IN  CASE query.mode = "substring" -> SearchNodes(graph, query.text, Len(graph.nodes))
          [] query.mode = "exact" -> SelectSeq(NameIndex(graph), Exactly)
          [] query.mode = "regex" -> SelectSeq(NameIndex(graph), Matching)

Resolution(found, all, fail) ==
    LET Result(kind, nodes) == [kind |-> kind, nodes |-> nodes]
    IN  CASE found = <<>>   -> Result("empty", <<>>)
          [] Len(found) = 1 -> Result("single", found)
          [] OTHER -> IF all THEN Result("multiple", found)
                      ELSE IF fail THEN Result("ambiguous", <<>>)
                      ELSE Result("single", <<found[1]>>)

\* resolve_single_node
Resolve(graph, query, all, fail) == Resolution(Search(graph, query), all, fail)

-----------------------------------------------------------------------------
(* Lists. *)

\* cmd_nodes: the limit is on what the search finds, before the nodes are filtered.
NodesListed(graph, text, limit, kinds, most) ==
    LET found == IF text = <<>> THEN [n \in Nodes(graph) |-> n] ELSE SearchNodes(graph, text, limit)
    IN  SelectSeq(found, LAMBDA n : graph.nodes[n].kind \in kinds /\ Degree(graph, n) <= most)

\* The web server's nodes: by rank and key.
Summaries(graph, text, kinds, most) ==
    LET rank == [n \in Nodes(graph) |-> Rank(text, NameOf(graph, n))]
        Shown(n) == /\ graph.nodes[n].kind \in kinds /\ Degree(graph, n) <= most
                    /\ At(text, NameOf(graph, n)) # {}
        Before(n, m) ==
            \/ rank[n] < rank[m]
            \/ rank[n] = rank[m] /\ Sooner(NameOf(graph, n), NameOf(graph, m))
    IN  SortSeq(InOrder(graph, {n \in Nodes(graph) : Shown(n)}), Before)

\* codeweb_nodes: whatever touches them.
ToolSummaries(graph, text, kinds) == Summaries(graph, text, kinds, 2 * Len(graph.edges))

\* A page of a list and how long the list is.
Page(nodes, offset, limit) ==
    [total |-> Len(nodes), nodes |-> AtMost(SubSeq(nodes, offset + 1, Len(nodes)), limit)]

\* build_filtered_subgraph: what is found, what is next to it, and the edges between them.
Filtered(graph, text) ==
    LET Near(n) == {n} \cup ToSet(NeighboursOf(graph, n, "from")) \cup ToSet(NeighboursOf(graph, n, "to"))
        Part(nodes) == [nodes |-> nodes,
                        edges |-> SelectSeq(graph.edges, LAMBDA e : e.from \in nodes /\ e.to \in nodes)]
    IN  Part(UNION {Near(n) : n \in ToSet(SearchNodes(graph, text, Len(graph.nodes)))})

-----------------------------------------------------------------------------
(* Questions. *)

NoBound(graph) == 100 + Len(graph.edges)

\* Builtins are left out of the chains of what is none itself.
ChainOf(graph, n, depth, builtins) ==
    Trace(graph, n, depth, NoBound(graph), ~builtins /\ graph.nodes[n].kind # "builtin")

\* cmd_trace: the chains of the one node that is found, or of all.
TraceCommand ==
    /\ question.sort = "trace" /\ answer = Unanswered
    /\ \E found \in {Resolve(question.graph, question.query, question.all, question.fail)} :
           answer' = [found |-> found,
                      chains |-> [i \in DOMAIN found.nodes |->
                                     ChainOf(question.graph, found.nodes[i], 51, question.builtins)]]
    /\ UNCHANGED question

\* codeweb_trace and the web server's trace: of the first node found, ten levels at most,
\* with a budget, and whether it was used up.
TraceTool ==
    /\ question.sort = "tool" /\ answer = Unanswered
    /\ \E found \in {Search(question.graph, question.query)} :
           LET chain == Trace(question.graph, found[1],
                              IF question.depth < 10 THEN question.depth ELSE 10, question.budget, FALSE)
           IN  answer' = IF found = <<>> THEN [found |-> found, chains |-> <<>>, cut |-> FALSE]
                         ELSE [found |-> <<found[1]>>, chains |-> <<chain>>,
                               cut |-> Truncated(chain, question.budget)]
    /\ UNCHANGED question

RECURSIVE WithoutIndexes(_, _)

\* filter_indexes_from_tree
WithoutIndexes(graph, roots) ==
    LET kept == SelectSeq(roots, LAMBDA t : graph.nodes[t.idx].kind # "index")
    IN  [i \in DOMAIN kept |-> [kept[i] EXCEPT !.children = WithoutIndexes(graph, @)]]

\* print_node_detail: a depth of -1 is none, and any other below zero is 1.
NodeDetail(graph, n, depth, builtins, related) ==
    LET most == CASE depth = -1 -> NoBound(graph) [] depth < -1 -> 1 [] OTHER -> depth
        Shown(chain) == [chain EXCEPT !.callers = WithoutIndexes(graph, @)]
        chain == Shown(ChainOf(graph, n, most, builtins))
    IN  [node |-> n, chain |-> chain, files |-> ChainFiles(graph, chain, related)]

\* cmd_detail: name after name; one that is ambiguous ends the command.
DetailCommand ==
    /\ question.sort = "details"
    /\ answer # Unanswered => ~answer.failed /\ answer.done < Len(question.queries)
    /\ \E had \in {IF answer = Unanswered THEN [done |-> 0, failed |-> FALSE, details |-> <<>>] ELSE answer} :
       \E found \in {Resolve(question.graph, question.queries[had.done + 1], question.all, question.fail)} :
           answer' = [done    |-> had.done + 1,
                      failed  |-> found.kind = "ambiguous",
                      details |-> had.details \o
                          [i \in DOMAIN found.nodes |->
                              NodeDetail(question.graph, found.nodes[i], question.depth,
                                         question.builtins, question.related)]]
    /\ UNCHANGED question

\* The web server's node_detail; depth 0 is no limit.
Surroundings(graph, n, depth) ==
    [node |-> n, name |-> NameOf(graph, n),
     callers |-> Around(graph, n, "to", depth), callees |-> Around(graph, n, "from", depth)]

\* codeweb_node_detail: nodes by their number; one which there is not does not stop it.
ShowNodes ==
    /\ question.sort = "ids" /\ answer = Unanswered
    /\ answer' = [i \in DOMAIN question.ids |->
                      IF question.ids[i] \in Nodes(question.graph)
                      THEN Surroundings(question.graph, question.ids[i], question.depth)
                      ELSE [node |-> question.ids[i], name |-> NoAlias, callers |-> <<>>, callees |-> <<>>]]
    /\ UNCHANGED question

ListNodes ==
    /\ question.sort = "list" /\ answer = Unanswered
    /\ answer' = NodesListed(question.graph, question.text, question.limit, question.kinds, question.most)
    /\ UNCHANGED question

\* node_callers and node_callees page through what is around a node.
Paged(asked) ==
    CASE asked.of = "nodes" -> Summaries(asked.graph, asked.text, asked.kinds, asked.most)
      [] asked.of = "tool"  -> ToolSummaries(asked.graph, asked.text, asked.kinds)
      [] OTHER              -> Around(asked.graph, asked.node, asked.of, asked.depth)

\* A client asks for page after page until it has as many as there are.
NextPage ==
    /\ question.sort = "pages"
    /\ answer # Unanswered => Len(answer.nodes) < answer.total
    /\ LET had == IF answer = Unanswered THEN <<>> ELSE answer.nodes
       IN  answer' = [Page(Paged(question), Len(had), question.limit) EXCEPT !.nodes = had \o @]
    /\ UNCHANGED question

\* cmd_export with a filter.
ExportPart ==
    /\ question.sort = "export" /\ answer = Unanswered
    /\ answer' = Filtered(question.graph, question.text)
    /\ UNCHANGED question

LookupNext ==
    TraceCommand \/ TraceTool \/ DetailCommand \/ ShowNodes \/ ListNodes \/ NextPage \/ ExportPart

-----------------------------------------------------------------------------
(* What answers should be. *)

\* The nodes whose key contains a text, or whose alias does behind the prefix.
MeantNodes(graph, text) ==
    {n \in Nodes(graph) : At(text, NameOf(graph, n)) # {} \/ AliasRank(graph, n, text) > 0}

\* The best there is among what is meant.
BestMeant(graph, text, n) ==
    LET Of(m) == Ranked(graph, text)[m]
    IN  n \in MeantNodes(graph, text) /\ \A m \in MeantNodes(graph, text) : Of(n) <= Of(m)

\* Shortcuts of the search, paging and the filter of export lose nothing and repeat
\* nothing: a name resolves to a node that is meant, and to the best of them unless all
\* are shown; a list has every node that is meant and of the kinds asked for, once, when
\* all its pages are read; the part that is exported is what is meant, what is next to
\* it, and every edge between them, as often as it is there.
ListsAreWhole ==
    LET graph == question.graph
        text == question.text
        Sought(n) == graph.nodes[n].kind \in question.kinds /\ Degree(graph, n) <= question.most
    IN  answer # Unanswered =>
        CASE question.sort = "trace" /\ question.query.mode = "substring" ->
                LET found == answer.found
                    meant == MeantNodes(graph, question.query.text)
                IN  /\ found.kind = "empty" <=> meant = {}
                    /\ found.kind = "ambiguous" => question.fail /\ Cardinality(meant) > 1
                    /\ found.kind = "multiple" => ToSet(found.nodes) = meant
                    /\ found.kind = "single" => BestMeant(graph, question.query.text, found.nodes[1])
                    /\ IsInjective(found.nodes)
          [] question.sort = "details" /\ answer.done = Len(question.queries) /\ ~answer.failed ->
                \A i \in DOMAIN question.queries :
                    LET meant == MeantNodes(graph, question.queries[i].text)
                        shown == {d.node : d \in ToSet(answer.details)}
                    IN  IF question.all THEN meant \subseteq shown ELSE meant = {} \/ meant \cap shown # {}
          [] question.sort = "list" /\ question.limit >= Len(graph.nodes) ->
                /\ ToSet(answer) = {n \in MeantNodes(graph, text) : Sought(n)}
                /\ IsInjective(answer)
          [] question.sort = "pages" /\ Len(answer.nodes) = answer.total ->
                /\ IsInjective(answer.nodes)
                /\ question.of = "nodes" => ToSet(answer.nodes) =
                       {n \in Nodes(graph) : At(text, NameOf(graph, n)) # {} /\ Sought(n)}
                /\ question.of \in {"from", "to"} /\ question.depth = 1 => ToSet(answer.nodes) =
                       {n \in Nodes(graph) \ {question.node} : IsEdge(graph, question.node, n, question.of)}
          [] question.sort = "export" ->
                LET Near(n) == \E m \in MeantNodes(graph, text), way \in {"from", "to"} :
                                    n = m \/ IsEdge(graph, m, n, way)
                    Count(edges, e) == Len(SelectSeq(edges, LAMBDA f : f = e))
                IN  /\ answer.nodes = {n \in Nodes(graph) : Near(n)}
                    /\ \A e \in ToSet(graph.edges) :
                           Count(answer.edges, e) =
                               IF Near(e.from) /\ Near(e.to) THEN Count(graph.edges, e) ELSE 0
          [] OTHER -> TRUE

=============================================================================
