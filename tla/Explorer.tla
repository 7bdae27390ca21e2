------------------------------ MODULE Explorer ------------------------------
(***************************************************************************)
(* The terminal UI (src/tui/app.rs): a list of nodes to search, filter and *)
(* step through, the detail of one, and a page of figures. An analysis can *)
(* be started from the list, which replaces the graph all node indexes on  *)
(* the screen are of. A step is a key; what was typed is a query of a      *)
(* small set.                                                              *)
(***************************************************************************)
EXTENDS ChainTree

CONSTANTS
    Graph,         \* the graphs an analysis may find
    Traced,        \* the graphs whose chains are asked for
    Needle,         \* what may be searched for
    NoQuery,       \* nothing
    MaxThreshold   \* the highest degree to filter by

VARIABLES
    store,         \* the graph of the project
    screen,        \* "explorer", "detail", "info", or "none" when it was quit
    search,        \* [typing, sort, query]
    list,          \* the nodes listed
    selected,      \* the place in the list
    options,       \* [style, attributes, low, threshold, files]
    detail         \* what is shown of a node, if the screen is "detail"

vars == <<store, screen, search, list, selected, options, detail>>

\* The deepest chain shown, and no budget.
DepthShown == 51

NoBudget == 10000

NoDetail == [node |-> 0, lines |-> <<>>]

-----------------------------------------------------------------------------
(* The list. *)

Listed(graph, s, o) ==
    CASE s.query # NoQuery -> Found(graph, s.sort, s.query)
      [] s.query = NoQuery /\ o.low -> LowDegree(graph, o.threshold)
      [] OTHER -> [n \in Nodes(graph) |-> n]

\* Mutant: the selection may be left behind the end of the list.
RefreshUnclamped(graph, s, o, at) ==
    /\ list' = Listed(graph, s, o)
    /\ selected' = at

\* refresh_node_list
Refresh(graph, s, o, at) ==
    /\ list' = Listed(graph, s, o)
    /\ selected' = IF list' # <<>> /\ at > Len(list') THEN Len(list') ELSE at

-----------------------------------------------------------------------------
(* The detail. *)

\* open_detail: what is shown of a node under some options.
Lines(graph, n, o) ==
    LET chain == Trace(graph, n, DepthShown, NoBudget, FALSE)
    IN  [chain |-> IF o.style = "tree" THEN chain ELSE AsPaths(chain),
         attributes |-> o.attributes,
         files |-> IF o.files THEN <<ChainFiles(graph, chain, FALSE)>> ELSE <<>>]

Opens(n, o) == detail' = [node |-> n, lines |-> Lines(store, n, o)]

-----------------------------------------------------------------------------
(* Keys. *)

InList == screen = "explorer" /\ ~search.typing

\* Typing: any other query; a longer one is not empty.
Typing == screen = "explorer" /\ search.typing

Searches(s) ==
    /\ search' = s
    /\ Refresh(store, s, options, 1)
    /\ UNCHANGED <<store, screen, options, detail>>

BeginSearch == InList /\ search' = [search EXCEPT !.typing = TRUE]
               /\ UNCHANGED <<store, screen, list, selected, options, detail>>

EndSearch == Typing /\ search' = [search EXCEPT !.typing = FALSE]
             /\ UNCHANGED <<store, screen, list, selected, options, detail>>

TypeLetter == Typing /\ \E q \in Needle : Searches([search EXCEPT !.query = q])

Backspace == Typing /\ \E q \in Needle \cup {NoQuery} : Searches([search EXCEPT !.query = q])

SwitchSearch ==
    Typing /\ Searches([search EXCEPT !.sort = IF @ = "name" THEN "sql" ELSE "name",
                                      !.query = NoQuery])

\* An analysis which fails leaves the graph as it was, and is not told from one that
\* does not; the list is made anew at the place it was at.
Analyze ==
    /\ InList
    /\ store' \in Graph \cup {store}
    /\ Refresh(store', search, options, selected)
    /\ UNCHANGED <<screen, search, options, detail>>

SwitchStyle(o) == [o EXCEPT !.style = IF @ = "tree" THEN "path" ELSE "tree"]

StyleOfList == InList /\ options' = SwitchStyle(options)
               /\ UNCHANGED <<store, screen, search, list, selected, detail>>

Attributes == InList /\ options' = [options EXCEPT !.attributes = ~@]
              /\ UNCHANGED <<store, screen, search, list, selected, detail>>

Filters(o) ==
    /\ options' = o
    /\ Refresh(store, search, o, 1)
    /\ UNCHANGED <<store, screen, search, detail>>

SwitchFilter == InList /\ Filters([options EXCEPT !.low = ~@])

Raise == InList /\ Filters([options EXCEPT !.threshold = IF @ < MaxThreshold THEN @ + 1 ELSE @])

Lower == InList /\ Filters([options EXCEPT !.threshold = IF @ > 0 THEN @ - 1 ELSE @])

Down ==
    /\ InList
    /\ selected' = IF selected < Len(list) THEN selected + 1 ELSE IF list = <<>> THEN 1 ELSE Len(list)
    /\ UNCHANGED <<store, screen, search, list, options, detail>>

Up == InList /\ selected' = (IF selected > 1 THEN selected - 1 ELSE 1)
      /\ UNCHANGED <<store, screen, search, list, options, detail>>

OpenDetail ==
    /\ InList /\ selected \in DOMAIN list
    /\ Opens(list[selected], options)
    /\ screen' = "detail"
    /\ UNCHANGED <<store, search, list, selected, options>>

InDetail == screen = "detail"

\* Mutant: the detail is left in the old style.
RestyleLater ==
    /\ InDetail
    /\ options' = SwitchStyle(options)
    /\ UNCHANGED <<store, screen, search, list, selected, detail>>

Restyle ==
    /\ InDetail
    /\ options' = SwitchStyle(options)
    /\ Opens(detail.node, options')
    /\ UNCHANGED <<store, screen, search, list, selected>>

SwitchFiles ==
    /\ InDetail
    /\ options' = [options EXCEPT !.files = ~@]
    /\ Opens(detail.node, options')
    /\ UNCHANGED <<store, screen, search, list, selected>>

Close ==
    /\ InDetail
    /\ screen' = "explorer" /\ detail' = NoDetail
    /\ UNCHANGED <<store, search, list, selected, options>>

ShowInfo == InList /\ screen' = "info" /\ UNCHANGED <<store, search, list, selected, options, detail>>

LeaveInfo == screen = "info" /\ screen' = "explorer"
             /\ UNCHANGED <<store, search, list, selected, options, detail>>

Quit == (InList \/ InDetail \/ screen = "info") /\ screen' = "none"
        /\ UNCHANGED <<store, search, list, selected, options, detail>>

\* App::new
ExplorerInit ==
    /\ store \in Graph
    /\ screen = "explorer"
    /\ search = [typing |-> FALSE, sort |-> "name", query |-> NoQuery]
    /\ options = [style |-> "tree", attributes |-> TRUE, low |-> FALSE, threshold |-> 0, files |-> FALSE]
    /\ list = Listed(store, search, options)
    /\ selected = 1
    /\ detail = NoDetail

ExplorerNext ==
    \/ BeginSearch \/ EndSearch \/ TypeLetter \/ Backspace \/ SwitchSearch
    \/ Analyze \/ StyleOfList \/ Attributes \/ SwitchFilter \/ Raise \/ Lower
    \/ Down \/ Up \/ OpenDetail \/ Restyle \/ SwitchFiles \/ Close
    \/ ShowInfo \/ LeaveInfo \/ Quit

ExplorerSpec == ExplorerInit /\ [][ExplorerNext]_vars

-----------------------------------------------------------------------------
(* Properties. *)

\* What the screen shows is of the graph the project has now, after any keys and analyses:
\* the list is what the search and the filter say of it, with the selection in it, and the
\* detail is that of one of its nodes, in the way the options say. No index of an older
\* graph is ever looked up (refresh_node_list, handle_explorer_key, open_detail).
ScreenIsCurrent ==
    /\ list = Listed(store, search, options)
    /\ list # <<>> => selected \in DOMAIN list
    /\ InDetail => /\ detail.node \in Nodes(store)
                   /\ detail.lines = Lines(store, detail.node, options)

\* The trees of a graph have the ways to and from a node that do not meet a node twice, up
\* to the depth asked for.
HasSimplePaths(graph) ==
    \A n \in Nodes(graph), depth \in {0, 1, 2, DepthShown}, skip \in BOOLEAN :
        LET chain == Trace(graph, n, depth, NoBudget, skip)
        IN  /\ PathsIn(chain.callers) = SimplePaths(graph, n, "to", depth, skip)
            /\ PathsIn(chain.callees) = SimplePaths(graph, n, "from", depth, skip)

\* The nodes around a node are those within so many hops, each once, nearer ones first.
HasNearNodes(graph) ==
    \A n \in Nodes(graph), way \in {"from", "to"}, depth \in 0 .. 2 :
        LET around == Around(graph, n, way, depth)
            Within(m, k) == \E p \in SimplePaths(graph, n, way, k, FALSE) : Last(p) = m
            most == IF depth = 0 THEN Len(graph.nodes) ELSE depth
        IN  /\ ToSet(around) = {m \in Nodes(graph) : Within(m, most)}
            /\ IsInjective(around)
            /\ \A i, j \in DOMAIN around, k \in 1 .. most :
                  i < j /\ Within(around[j], k) => Within(around[i], k)

TracedHaveWays == \A graph \in Traced : HasSimplePaths(graph) /\ HasNearNodes(graph)

\* A way that a budget and a depth leave out stops at a node which says that it has more,
\* or the answer says that it is truncated.
ShowsCuts(graph) ==
    \A n \in Nodes(graph), depth \in 1 .. 3, budget \in 1 .. 4 :
        LET chain == Trace(graph, n, depth, budget, FALSE)
            Visible(roots, way) ==
                \A p \in SimplePaths(graph, n, way, DepthShown, FALSE) :
                    \/ p \in PathsIn(roots)
                    \/ CutAt(roots, p)
                    \/ Truncated(chain, budget) /\ Head(p) \notin {t.idx : t \in ToSet(roots)}
        IN  /\ Visible(chain.callers, "to") /\ Visible(chain.callees, "from")
            /\ chain.visited <= budget

TracedShowCuts == \A graph \in Traced : ShowsCuts(graph)

\* Without a budget a chain is all the ways to and from a node that do not meet a node
\* twice, and no others, and the neighbours of a node are the ends of those, in the
\* project's graph as in any graph that is traced: cycles end, and unlike in
\* a walk with one visited set no sibling hides what another one leads to (trace_chain,
\* neighbors_at_depth).  With a budget nothing is cut off in silence, though both trees
\* share one that may end in the middle of either, and it holds (build_tree_dfs,
\* codeweb_trace).
WaysAreFound == TracedHaveWays /\ TracedShowCuts /\ store \in Traced

=============================================================================
