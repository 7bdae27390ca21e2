# Verification of codeweb

codeweb reads a tree of SQL, PL/SQL, Java, JSP and iBATIS files, builds a graph of the
code in it, keeps the graph in a store on disk and answers questions about it: on the
command line, in a terminal UI, over HTTP and as an MCP server. This directory holds
TLA+ models of it, the TLC runs that check them and the TLAPS proofs about them.
`PROJECT.json` lists the components, runs, mutants and hazards, and the source lines each
definition models. Paths below are those of the repository's `src/`, mostly under `src/`
again; line numbers are of this commit.

## Inventory

| Part | State | Operations | What is hard | What makes it correct |
|---|---|---|---|---|
| Project lifecycle (`project/mod.rs`, `parser/fingerprint.rs`) | codeweb.toml, the loaded store, locals of one call | `init_at`, `load_from`, `analyze`, `diff`, `load_store`, `save_store` | sources change while a call reads them; a call dies; two processes share the files; fingerprints are made in two places | an answer "up to date" is true; no untouched file is lost; a rebuild repairs anything; rebuilds have a reason |
| Store files (`graph/store.rs`, save and load) | the store, its header, the manifest sidecar | `save_bincode`, `save_manifest_sidecar`, `load_bincode`, `file_is_current` | two files, neither written atomically | the manifest describes the graph beside it |
| MCP server (`mcp/server.rs`, `mcp/tools.rs`) | `Mutex<Option<Project>>`, `RwLock<GraphSnapshot>` | `codeweb_init`, `codeweb_analyze`, `codeweb_diff`, the queries | concurrent tool calls, failures on every path, a second process | what it answers is true of the snapshot, which never goes back; the mutex is released |
| Parsers and extractors (`parser/`) | a walk over one syntax tree: names in scope, texts of variables, aliases, cursors | one extractor for calls, anchors, accesses, columns and filters, predicates | scopes, nested routines, branches, texts executed later, aliases over subqueries | whatever a run of the routine does was extracted |
| Graph builder (`graph/builder.rs`, `graph/key.rs`) | the graph under construction, a dozen indexes of names | one pass per kind of source and chunk, then `finalize_graph` | names met before what they name; chunks; placeholders; renumbering by removal | a definition is one node, a name ends at its definition, an access at its table |
| Store (`graph/store.rs`) | a graph and its secondary indexes | `from_graph`, `enrich_*`, `merge`, `dedup`, rebuilds, searches by name and by statement | indexes out of step with the graph; relaxed matching of schemas; shortcuts of searches | indexes say what the graph says; merge and dedup keep every relation; searches find what is meant |
| Graph queries (`graph/query/`) | a walk: its stack, visited set and results | `collect_nodes`, `collect_paths`, `collect_paths_to_target`, query specs | limits, cycles, parallel edges, filters that stop or only hide | what is found is reachable, nothing reachable is missed, walks end |
| Chains and trees (`graph/traverse.rs`) | two trees under one budget | `trace_chain`, `neighbors_at_depth`, `MatchRank` | cycles, a shared budget | all ways without a circle; cuts are told |
| Impact and inspection (`main.rs`, `graph/inspect.rs`) | none | `impact`, `inspect` | parallel edges of several types, budgets | affected is what can be reached, verdicts are true |
| Lineage and lock conflicts (`graph/lineage.rs`, `graph/conflict.rs`) | none | lineage of tables and columns, conflicts | cycles, views, modes of several statements | any flow and any wait of a run is told |
| Columns, predicates, seed hints (`graph/columns.rs`, `parser/predicates.rs`) | none | `columns`, `predicates`, `--seed-hints` | aliases, records, branches, the merging of edges | rows a statement takes meet what is said of them |
| Clustering (`graph/cluster.rs`) | communities and a heap of merges | condense, merge, sweep, recommend, report | stale heap entries, stop conditions | merges are greedy, the report is of one partition |
| SQL search and marks (`sql_match.rs`, `mark.rs`) | the indexes of fingerprints and locks | `search_by_sql`, `mark` | three ways to compare, stale indexes, hash order | a statement leads to where it comes from |
| Import of graphs (`import/`) | a graph under construction | `validate`, `parse`, `cmd_import` | two passes each see part of the errors | accepted as a whole or refused, unless forced |
| Terminal UI (`tui/app.rs`) | screen, selection, graph | keys | an analysis under node indexes still shown | no index outlives its graph |
| Web server (`server/`), logs | a store that never changes | GET handlers | pages | pages add up |
| Export (`export/`) | none | printing | - | - |

The command line, the MCP server and the terminal UI all work on a directory through
`Project`, which reads and writes the two files of the store. Nothing locks these files;
only the MCP server has a lock, its own mutex. `Project::analyze` hands the parsed files to
the builder in chunks; the builder hands what the extractors found of each routine to
its passes; the finished graph becomes a store with indexes. All other commands, the
handlers and the queries read a store in memory and never touch the project.

## Modules

`A <- B` means A extends B. MC modules hold the sets the configurations give to the
constants.

| Models | Modules |
|---|---|
| lifecycle, store files, server | `Project`, refining `SourceIndex`; `McpServer` <- `Project`; `MCProject`, which composes it with the two below, `MCMcpServer`; proofs `ProjectProofs`, `McpProofs` <- `ProjectProofs` |
| queries | `Traversal`; `QuerySpec` <- `Traversal`; `MCQuerySpec`; proofs `TraversalProofs`, `AnswerProofs` <- `QuerySpec`, `TraversalProofs` |
| stores and import | `CgefImport` <- `PetGraph`; `GraphStore` <- `CgefImport`; `MCGraphStore`; proofs `PetGraphProofs` <- `PetGraph`, `Sums`; `GraphStoreProofs` <- `GraphStore`, `PetGraphProofs` |
| builder | `PetGraph`; `BuildContext` <- `PetGraph`; `SqlNodes` <- `BuildContext`; `SqlEdges` <- `SqlNodes`; `OtherNodes` <- `SqlEdges`; `BuildFinish` <- `BuildContext`; `Builder` <- `OtherNodes`, `BuildFinish`; `MCBuilder` |
| extraction | `PlRuns` (its first part); `TableAccess`; `ColumnAccess` <- `TableAccess`; `HardFilters` <- `ColumnAccess`; `ColumnReports` <- `HardFilters` (its first part) |
| runs of routines | `PlRuns`; `DataRuns` <- `Lineage`, `SqlEdges`, `BuildFinish`, `ColumnAccess`; `HintRuns` <- `ColumnReports`; `MCRoutines` composes the three |
| reading a graph | `ChainTree`; `Explorer` <- `ChainTree`; `Lookup` <- `ChainTree`; `Reach` <- `Lookup`; `Clusters`, refining `GreedyClusters`; `SqlSearch`; `MCReach`, `MCClusters`; `MCReports` composes them with the queries; proofs `Sums`, `ClustersProofs` <- `Clusters`, `Sums` |

### Lifecycle and server

`SourceIndex` says what the project promises: an index of the sources which an update
replaces at once and which is lost only while it is being replaced; an answer says whether
it is fresh.

`Project` is `Project::analyze` and `Project::diff` cut at the places where somebody else can
act: between the scan, the manifest, each file compared, each file parsed, each file
stamped, and around each of the two writes of a save. `src`, `mtime` and `clock` are the
sources; `header`, `body` and `sidecar` the two files of the store; `pc` to `records` the
locals of each call; `bodySince`, `since`, `verdict` and `fails` are history. A file's content
is a member of a small set and the graph is what it says of each file, so that "the graph
shows the file as it is" can be said. A hash is the content it was taken of, marked by
whether it was taken of the bytes (`FileRecord::compute`) or of synthesized code (the JSP
loader). A write is two steps, the truncation and the fill; a half-written payload is `Torn`.
The edits are the environment's; `QuietEdits` keeps them between calls, `Serial` makes calls
exclude one another, `MaxFail` bounds failed saves and crashes.

`McpServer` extends `Project`: tool calls are runs which first take the mutex `holder`. It adds
the slot of the project, the store which `analyze` leaves in `Project.store` (`held`) and the
snapshot the queries read (`snap`). `codeweb_stats` stands for all queries, since they differ
only in what they compute from one snapshot. Runs outside `Mcp` are `codeweb` commands in
the same directory.

### Queries, stores, import

`Traversal` is `GraphTraversal`: one walk over a graph whose edges are listed in the order
petgraph yields them. The recursion is `stack`, whose frames have the neighbours still to
look at; every turn the code can take at a neighbour or at the end of a call is an action
(`Skip`, `Stop`, `Go`, `Return`), and the three modes of collecting differ in their guards, as
they do in the code. `QuerySpec` adds the request: the steps are merged into one search,
later ones over earlier ones, and one walk is done for each start.

`CgefImport` says what the validator reports of a document, what the parser makes of it, and when
the command saves it. `GraphStore` extends it: `shelf` holds the stores in files, and
each command (`Analyze`, `Import`, `MergeInto`, `DedupStore`) is one action, since it runs alone
over stores in memory. A merge takes any number of them, one after the other, as the command does. Nodes and edges are numbered by their place, and removal moves
the last one into the gap, as petgraph does; the indexes are functions of the graph, kept
or rebuilt where the code keeps or rebuilds them. Where a hash map decides which of two
routines a schema-less one is matched with, `prefer` decides either way.

### Builder

`Builder` has three variables: the program (sources, chunks, the order of hash maps), the
tasks left to do and the `context`, which is the `BuildContext` struct: the nodes and edges
so far and the indexes of names. A task is one handler over one statement, file or chunk, in
the order in which `project/mod.rs` (SQL in chunks, then Java, XML, JSP) or the older pipeline
of `parse` (SQL, XML, Java, JSP, all at once) calls them. `SqlNodes` is the first pass over a
chunk (`create_sql_nodes`), `SqlEdges` the passes after it (accesses and calls with their
placeholders, anchors, types, sequences, predicates, parameters), `OtherNodes` the mappers,
Java classes and pages with the bridges between them, `BuildFinish` what `finalize_graph`
does: tables of two names become one, comments find their columns, accesses are united,
placeholders resolved, twins dropped. Removing nodes and edges renumbers, as in `PetGraph`.
What extraction finds of a body is given with it; that extraction finds it is the matter of
the next modules.

### Extraction and runs of routines

The extractor of `PlRuns`, `TableAccess`, `ColumnAccess`, `HardFilters`, the conditions of `ColumnReports`
and the anchors of `SqlEdges` are the walks of `parser/extractor.rs` and `parser/predicates.rs` over syntax trees, as operators. A
statement is a record with the parts the walks look at; a text is the sequence of its words.

Their meaning is given by runs. In `PlRuns` one routine runs alone, takes any branch and
any turn of a loop, may raise an exception anywhere, and executes texts its variables
hold. In `DataRuns` two sessions run two routines over tables and views whose values carry
the columns they come from, with table locks until commit and a rollback where two wait for
each other; the graph is what `SqlEdges` and `BuildFinish` make of what `TableAccess` and
`ColumnAccess` say, and `Lineage` (flows and lock conflicts) is asked of it. In `HintRuns` one routine
runs over tables that hold every row there can be, NULLs included; `ColumnReports` is the path
from the extractor by the edges and their merging to the answers of `columns` and
`predicates`. The runs are the semantics of PL/SQL and SQL, which no file of this repository
implements, so their definitions are marked external in the map: the extractors are what is
checked against them.

### Reading a graph

`ChainTree` is `trace_chain` with its budget and `neighbors_at_depth`. `Explorer` is the terminal
UI, a step for each key, with an analysis which exchanges the graph between two keys.
`Lookup` is the search by name with its ranks and shortcuts (binary search over names,
prefixes with aliases), the lists, pages, details and the part of a graph that is exported;
`Reach` adds impact and inspection. In both a question is asked of a graph and answered in
one step, or page by page. `SqlSearch` has statements as sequences of words, signs and blanks: normalizing,
wildcards, segments, likeness; the indexes of fingerprints and locks as `from_graph` makes
them and as a rebuild leaves them; the search; and what `mark` says of a logged statement.

`GreedyClusters` says what the clustering promises of a run: parts of a weighted graph are
joined two at a time, always two that touch and raise the modularity most, until it may
stop; sets and sums, no heap. `Clusters` is `CnmState` with its heap whose entries go stale,
generation counters and running sums, the condensation of cycles before it, the sweep, the
recommendation, the run repeated for the report and the figures of the report.

Operators marked "Mutant" in a module are deliberate mistakes: for each property at least one
of them, put in place of the definition it follows, makes TLC report a violation.

## Runs

| Run | Shows |
|---|---|
| `Analysis` | The parts of an analysis, one at a time (`AnalysisSpec`: while one goes on, the others rest). *Runs over files*: two files, one a JSP, contents one of which no loader takes, edits between the calls of one run which is called again and again. `SidecarDescribesBody`: the manifest is of the graph beside it. `UpToDateIsFresh`: an answer "up to date" is true. `RebuildHasReason`: what rebuilds were for. `EventuallyFresh`, `EventuallyUpToDate`: once the edits stop, the graph becomes that of the sources and calls say so. `SourceIndexSpec`: `Project` implements `SourceIndex`. *Builds*: small programs in every order, chunking, pipeline and hash order. `DefinitionsAreNodes`: a definition is one node with its own attributes, and neither an index nor a placeholder is left wrong. `CallsReachDefinitions`. `TablesAreWhole`: a table of several names is one node with all accesses, columns and indexes. *Routines which run* beside what is said of them. `CallsAreExtracted`: the calls of a run. `FlowIsTraced`: the flows of data, between tables and between columns. `WaitIsReported`: the waits of one session for another. `HintsAreNecessary`: the rows a statement takes meet its hints. `ReportsAreWhole`: reports lose no hint of the edges. `BranchesAreExplained`: the rows with which a branch is taken. The comment of each says what it leaves out, and the sections below why. |
| `Mcp` | Two concurrent tool calls and no other process, edits at any time, one failed save or panic anywhere. `LifecycleSpec`: under the mutex the server is a serial user of `Project`. `AnswersAreFresh`: what it says of its graph is true of the snapshot its queries read. `SnapshotNeverOlder`, `RebuiltIsFresh`, and `LockIsReleased` on every way out of a handler. |
| `Mcp_and_cli` | A tool call beside a `codeweb` command, two files, edits at any time, one failure anywhere. `CapturesUntouched`, `SnapshotCapturesUntouched`: the graph on disk, and that in the snapshot, show each file that was left alone since their analysis began. |
| `Stores` | Four commands on four files, with merges of up to three stores. `IndexesAgree` with the graph after any of them; `MergeKeepsGraphs`: nodes and relations of all its stores; `DedupKeepsGraph`; `ImportIsWhole` or refused. |
| `Reports` | What is asked of a graph: walks, and all keys of the explorer, trees, clusters, searches and questions over small graphs. *Queries*: all graphs of two edges on three nodes with every way of walking them, plain ones of up to four edges, requests of several steps and starts. What is found is reachable, within its limits and found once (`NodesSound`, `PathsSound`), nothing is missed (`NodesComplete`, `PathsComplete`), an answer is the union of the walks of its starts, with the settings that the last steps give (`AnswerIsUnion`), and each query ends (`EveryQueryAnswered`). *The rest*: `ScreenIsCurrent`: whatever is on the screen is of the graph there is. `WaysAreFound`: chains and neighbours are the ways there are, cuts are told. `MergesAreGreedy`: `Clusters` implements `GreedyClusters`. `PartitionAddsUp`. `ListsAreWhole`: pages, lists, details and exports. `ImpactIsWhole`, `VerdictsAreRight`: what is affected and connected. `StatementsAreTold`: where a statement comes from. |
| `Project_edit_during` | **Violation** of `UpToDateIsFresh`: an edit between parse and stamp. |
| `Build_chunks` | **Violation** of `PlaceholdersAreUndefined`: a procedure called in an earlier chunk than it is defined in stays a placeholder. |
| `Impact_types` | **Violation** of `ImpactFollowsTypes`: of parallel edges only one is asked for its type. |
| `Partition_target` | **Violation** of `TargetIsReached`: two communities of one size which do not touch are never joined, though their number was asked for. |
| `Query_steps` | **Violation** of `StepsRunInOrder`: two steps in opposite directions are one walk in the last direction, not two walks one after the other. |
| `Texts_cut` | **Violation** of `CutTextsFallBack`: a variable with too many texts keeps old ones, and what EXECUTE calls is in no edge, nor is there an opaque one. |
| `Assigned_flow` | **Violation** of `AssignedFlowIsTraced`: data which a cursor and an assignment bring into a variable and from there into a table is in no lineage. |

`PROJECT.json` quotes for each violation the words of the repository that it contradicts.

### Bounds

* *Lifecycle.* Two files are enough for one to change while another is at rest and for one to be
  deleted while another is added. Two contents let a file go away from and back to a
  content. Two runs give every interleaving of two processes; the capture properties are
  proved for any number. One edit in the concurrent runs may fall anywhere, which is what the
  interesting interleavings need; `Analysis` takes three, between calls. One failure
  (`MaxFail`) may come at each place; `Mcp` has one file, since its properties are about runs.
* *Queries.* Three nodes are enough for a cycle beside a way out of it, and for a node to be met
  on two ways of different lengths; four edges give parallel edges and loops beside such a
  shape. `NodesComplete` is asked of walks without a depth, `PathsComplete` of those whose
  limit was not reached.
* *Stores.* The graphs have a routine in two schemas and in none, traced and defined, a table, a
  mapper, edges which become loops or the same by matching, anchors on two columns and accesses
  with different modes; the documents have each of the errors. Four files and four commands
  (`MaxSteps`) allow three stores and what they are merged to, merges of merged stores and of one
  store with itself, and a deduplication; a third store (`MaxMerged`) is what meets relaxed keys
  which two before it left. The proofs are for any number of both. The two schemas are
  symmetric: nothing orders them.
* *Builder.* Each theme of `MCBuilder` has the few statements which meet in one index of names
  (overloads, packages, schema-less names, views and tables, synonyms of one table, triggers,
  mappers and the calls of their statements, pages), in every order and in chunks of one or two files. The
  limits that the code sets on texts are not reached.
* *Runs.* A routine has a few statements with every choice for each, one nested routine and two
  variables. `MaxValueSet` is 2 where the code has 64, so that both the texts of a concatenation and
  those united after a branch are too many in some of the routines; the walk then marks itself (`cut`), and
  `CallsAreExtracted` is about the others, `CutTextsFallBack` about all. `MaxDepth` is 3. Two
  sessions are what a conflict takes. The tables of `HintRuns` hold every row over two or three
  columns and a few values with NULL, which is every database those statements tell apart.
* *Reports.* All graphs of four calls between three nodes, and larger ones of four; names of up to
  three letters over nine nodes of every kind; all graphs of two edges of any type and plain
  ones of four edges for impact and inspection; six graphs to partition under seven sorts of
  options; five small graphs with twenty sorts of statements and every query among them.
  `Few` and `Many` are 2 where the code shows more, so that lists are cut.

`CHECK_DEADLOCK FALSE` is there because bounded models stop: edits and failures are used
up, a build or a run of routines comes to its end, a question is answered.

### Fairness

`PolledSpec`, like the part of `AnalysisSpec` about runs, assumes that a call, once begun, goes on, since its loops are bounded and it waits for
nobody (weak fairness of `Step`), and that somebody calls `analyze` again and again (strong
fairness of its `Scan`), which is the premise of the two liveness properties. `MCPFairSpec`
assumes that the thread of a tool call is scheduled (weak fairness of `Handle`); it does not
assume who gets a free mutex. `ExecuteFairSpec` assumes that a query goes on: it runs in one thread
and waits for nothing. The other models state safety only.

## What the models show of the code beside the findings

The properties name the conditions under which they hold. These are the conditions, and other
behaviour of the code that a reader of the models meets.

### Lifecycle and server

* A file that no loader takes (XML which is no mapper, for instance) is in no manifest, so
  `codeweb diff` lists it as added for ever and `analyze` never takes the short cut.
  `RebuildHasReason` names this as one of the reasons of a rebuild.
* A JSP with a new mtime and old content is a reason as well: its recorded hash is that of
  the synthesized class and is compared with that of its bytes.
* `analyze` is all or nothing: one changed file makes it parse every file again.
* A server which started without a project can neither analyze nor be initialized once
  codeweb.toml was written by somebody else, or by its own `codeweb_init` which then failed:
  `InitRefused` answers for ever.
* After `codeweb_init` and before any analysis, an empty graph is reported as a project
  without analyzable sources. A query looks at the snapshot twice for this message
  (`mcp/tools.rs:90`).
* A store that was half written leaves a current header; the server then says "ready" over the
  graph it has. `AnswersAreFresh` is asked while no save has failed. With a command beside the
  server, `diff` vouches for sources by the new manifest and the server keeps its old graph.

### Queries, stores, import

* `collect_nodes` with `max_depth` may miss nodes within the depth: one first met on a long way
  is not gone beyond on a short one.
* In the modes which collect nodes, or paths to a target, `max_paths` is only looked at when
  a call begins, so a few more may be found; so they may where paths stop at `until`.
* Later steps of a query spec replace earlier ones, where the comments on them
  (`graph/query/spec.rs:9`, `:49`) and `docs/serve-api-guide.md:513` say they run one after the other.
  `AnswerIsUnion` is about what the code promises itself, one walk with the settings `Meant` reads off the
  last steps to give them; `StepsRunInOrder` states the words of the docs, and `Query_steps` refutes them.
* `merge` and `dedup` drop the fingerprints of statements in routines and of the variants of
  dynamic SQL, which an analysis had put into the index.
* `merge` keeps the node it meets first, not the one which says more, unlike `dedup`. A call which
  two stores have is twice in the merged one (`docs/DeveloperGuide.md:207` has one edge for
  each source, target and type).
* Of two accesses between one pair of nodes in one store, `merge` drops the second with its modes;
  only an imported store has two.
* Where three stores are merged, an anchor of a schema-less routine can be dropped as already seen,
  though the routine of an earlier store with that key became one of another schema: the seen
  anchors are kept by the keys nodes had before they were matched. So `MergeKeepsGraphs` promises
  an anchor for one only of the stores which have its key.
* A schema-less routine merged first makes the routines of two schemas one node; merged
  last, it becomes one of them. After such a match, files are listed with keys no node has.
* The recursion of a node which `dedup` removes is lost with it.

### Builder

* A bare call is looked for outside of packages before it is in the caller's own, where the comment
  at `graph/builder.rs:3023` says that the package comes first.
* A table without a schema is joined to the first of several schemas which have it.
* All accesses the builder makes carry one kind of flow; their column analysis is that of the
  edge which stays when accesses are united (`merge_duplicate_table_access_edges`).

### Extraction and runs

* Functions called in the conditions of `IF` and `ELSIF` are in no edge, since the visitor skips the
  children of an IF (`parser/extractor.rs:589`), though `tests/regress/function_call_edges/README.md:7`
  lists them as repaired. `CallsAreExtracted` leaves these calls out.
* Loops, CASE and handlers are walked once, in a row. A CASE expression with an arm that cannot be
  resolved has the texts of the others. After an assignment that cannot be resolved, or a set that
  overflows (`parser/extractor.rs:218`, `:562`, `:626`), the texts from before it stay and EXECUTE
  makes edges of them alone, where the comment at `parser/extractor.rs:182` speaks of an opaque edge.
  `CallsAreExtracted` is about the routines whose texts can be followed and fit; `Texts_cut` shows
  what is lost of one whose texts do not.
* Executed texts which are no calls are not followed; a text counts as a call when it begins
  with those letters.
* Types registered in one routine filter the calls of later ones, and names declared in an inner
  block stay in force behind it.
* A CTE with the name of a table hides the table; the CTEs of an UPDATE or DELETE are forgotten
  before the subqueries of its WHERE, which then give a table that does not exist.
  `FOR UPDATE OF` an alias locks a table of that name.
* Tables of `FOR rec IN (SELECT ...)` and of `OPEN c FOR SELECT` have no access edge, since these
  queries are no statements to `ProcedureSqlExtractor` (`parser/extractor.rs:39`). Columns fetched from
  them are known to the lineage upstream, but nothing is downstream of such a table: `FlowIsTraced` asks
  for the first alone (`Unread`).

### Lineage and locks

* A cursor target without a column shifts the positions of FETCH; aliases of `OPEN FOR` queries
  are not collected; only the last FETCH and the first OPEN of a cursor count, and only the
  first column of a computed target.
* `SELECT INTO v`, or an assignment to `v`, and a later `VALUES (v)` are not connected, not even as
  tables, since an INSERT with a column analysis and no table to read counts as one that reads nothing; yet
  `docs/user-guide.md:699` says that lineage passes through the assignments of a routine. `FlowIsTraced`
  leaves this data out (`Untold`), `Assigned_flow` shows it. An INSERT without columns takes the
  names of its query's outputs. Columns of derived tables and CTEs get no table; scalar
  subqueries and INSERT ALL map no columns. Statements without columns fall back to all the
  tables the routine reads.
* The lineage of a column of a table with a schema is always empty, though the message about an
  ambiguous name asks for that form; materialized views are not found by name.
* Waits of one routine run by two sessions, and locks taken by views, called routines, FOR and OPEN
  FOR, are not reported. `WaitIsReported` is about the other statements of two routines (`Unread`, `BelowViews`).

### Columns, predicates, hints

* `NOT IN` and `NOT BETWEEN` are reported as if they were not negated, conditions of outer joins as
  filters of all rows, where `docs/DeveloperGuide.md:164` and `docs/user-guide.md:744` promise necessary
  conditions. `HintsAreNecessary` is asked of the other statements.
* Two aliases of one table, or an alias with a table's name, share what is said of them; a join
  written twice is listed twice; parenthesized conditions are not looked into; a DELETE gives
  no filter; materialized views are missing in the reports.
* A bare name in a routine whose cursors are all over one table counts as that table's column with
  high confidence even if it is a variable (`docs/user-guide.md:795` keeps this for columns compared
  directly); a computed column of a cursor stands for the first column in it; what was said of
  a variable is not taken back by an assignment.
* The hint for a parameter table has the column and the value of a condition and neither its operator nor
  its transformation (`parser/predicates.rs:182`): of `2 > a` and of `length(a) = 2` it says "set a to 2",
  with which the branch is not taken. `BranchesAreExplained` asks of the clauses of the predicate that they hold
  of the rows; of the hint it asks that the row the variables were selected from meets its filters, and, only where
  the condition is made of plain equalities, that this row has the values it says to set. The provenance of a hint is the first statement of the merged edge.

### Trees, lists, impact, inspection

* `truncated` is also true when a tree used exactly its budget.
* `nodes --limit` is applied before the filter by types, and without `--search` not at all. `--regex` is
  matched with keys in lower case, so a capital letter matches nothing. `MatchRank` looks at
  the first occurrence only, and the end of a name is no boundary to it. The line of a Java
  statement is not used to tell statements apart (`graph/store.rs:948`).
* `inspect` cuts the ways to the total budget, so a pair that is connected can be printed as
  unreachable; parallel ways use up the budget of a pair; targets given twice list their ways
  twice; a reverse tree says "(cycle)" of a diamond. `VerdictsAreRight` names
  this exception.
* `impact` matches any file whose name ends like the one given, in the order of a hash map.
* The numbers of nodes which the tools of the server return are stale after `codeweb_analyze`. In the
  explorer a change of the language does not redraw the detail.

### Clustering

* Edges inside a cycle are counted once and those between units twice. The modularity printed with
  the recommendation is that of the first entry of the sweep with its number of clusters. A graph
  without edges becomes one cluster.

### SQL search and marks

* After a rebuild of the indexes the statements of routines and the variants are not in them, so a
  mapper with the same statement hides the routine (`graph/store.rs:1637`).
* `FROM t, u` ends the collapsed text differently, so only whole texts match (`TableIsClear`);
  `WHERE 1 = 1 AND` is removed before literals are replaced, so a log with parameters in their
  place does not match (`OneIsOneIsClear`). Variables with other names are other statements.
  `--` inside a literal cuts the text; words of comments count as tables.
* A FOR UPDATE statement without an exact match gives every node that locks, with 0.9. Scores can tie
  at 1.0, and of several callers the first of a hash set is told. Mappers and Java statements are
  not compared by `mark`. Its branch for qualified calls is never taken.

## Proofs

`ProjectProofs` proves, for every set of files, contents and runs and every bound:

* `TypeCorrect`: `Spec => []TypeOK`.
* `GraphCapturesUntouched`: `Spec => []CapturesUntouched`. The property is not inductive: a
  graph is written from locals of a run, so `CaptureInv` also says that what a run has parsed
  so far shows, as it is now, every file untouched since that run began, and that
  files it has not parsed yet are still on its list (`Knows`). No assumption on `Serial`, `QuietEdits` or
  `MaxFail` is used.

The second part of `ProjectProofs` proves what holds when runs exclude one another (`Serial = TRUE`). `OneAtWork` is
that exclusion.

* `ManifestDescribesGraph`: `SidecarDescribesBody` as long as no save failed and no run crashed,
  whatever is edited meanwhile. `DescribeInv` follows a fingerprint from the parse to the disk:
  what a run records is of content it parsed (`Recording`), what it has written of the
  graph is what it parsed (`Saved`), and only a run between its two writes leaves the files of different
  runs (`DiskInv`).
* `RebuildsAreFresh`: `RebuiltIsFresh`, from `CaptureInv` and `DescribeInv`.
* `AnswersAreRight` and `RebuildsHaveReasons`: `UpToDateIsFresh` and `RebuildHasReason`. These also
  assume `QuietEdits = TRUE` and are of `CalmSpec`, in which no save fails and no run crashes. A
  verdict is about content, the comparison about times and fingerprints, so `QuietInv` says
  that one tells the other: what a run has compared so far (`CompareInv`), that the sources rest
  while it is at work (`RestInv`), that the graph on disk only gets newer (`Aged`), that what a run has stamped has the
  time it has now and is all it saves (`StampInv`), so that between saves the manifest records
  every file in time (`Kept`), and that what made a run call a file changed is a reason
  (`ReasonInv`).
* `ImplementsSourceIndex`: under the same assumptions `Project` refines `SourceIndex`, step by step:
  a save publishes the sources whole and whoever vouches has `UnchangedIsFresh` to do so.

`McpProofs` proves, for any number of calls and other processes:

* `SnapshotCaptures`: `MCPSpec => []SnapshotCapturesUntouched`. The snapshot is a copy of a store
  that was loaded, or left in `Project.store` by an analysis that may have failed to save since.
  `SnapshotInv` says that both show what was left alone (`Truthful`); that a store read from the disk is, comes from
  `CaptureInv`, since every step of the server is one of `Project` or leaves
  its variables alone (`ServerIsProject`).
* `ServerIsSerial`: `LifecycleSpec`. `MutexInv` says that the call in the middle of anything is the
  holder of the mutex and that of the runs of the server only its may be under way.
* `SnapshotGrows`: `SnapshotNeverOlder`, where no command runs beside the server. `AgeInv` relates the age of the snapshot to that of
  the held store and of the graph on disk, which only the holder can replace.

* `RepliesAreFresh`: `AnswersAreFresh`, where no command runs beside the server. A reply is of three copies of
  a graph, on disk, held and in the snapshot, which change hands in four steps; `AnswerInv` says
  which copy each call relies on (`CopyInv`), what each tool has asked (`Asked`) and what the
  verdict of the run is worth until it is sent (`Vouched`). It rests on `DescribeInv` and `CompareInv` of the
  run and on the mutex.
* `ServerRebuildsAreFresh`: `RebuiltIsFresh` of the server. `MutexInv` gives `OneAtWork`, so what
  was assumed of commands is proved of tools.

`TraversalProofs` proves, for every graph, filter, direction, limit and mode:

* `WalkTypeCorrect`: a walk keeps its types.
* `WalkVisitedIsPath`: `VisitedIsPath`, that taking nodes back by hand on every way out of a
  neighbour leaves visited equal to the current path, without a node twice.
* `WalkPathsSound`: `PathsSound`, that each path returned is simple, runs along edges the filters
  pass, stays within the depth and ends where it should. The inductive invariant adds that the
  stack spells the current path (`StackIsPath`), that its calls are of open nodes
  (`FramesOpen`), and that what a call still has to look at are neighbours of its node
  (`RestListed`): a path is recorded from the stack, so only this makes it a path of the graph.

and of `collect_nodes`:

* `WalkNodesSound`: `NodesSound`, under every limit. The inductive invariant `SoundInv` adds that
  the results are exactly the visited nodes which are shown, and that each call under way is
  of a node which is reached and passable and has only its neighbours left (`FrameSound`):
  a result is recorded when the walk goes to it, and only the call it is met in tells
  that it is reached.
* `WalkNodesComplete`: `NodesComplete`. The danger is that a node visited on one way hides what
  lies behind it from another. `CompleteInv` says why it does not: each visited node the walk
  may go on from has had all its steps visited, or some call of it is under way which
  has the others left to look at (`Attended`). When no call is left the visited nodes are
  closed under steps, and what is reached is the least such set (`ReachableIsLeast`). With a
  depth the invariant fails.

and of walks which return paths, `WalkPathsComplete`: `PathsComplete`, for every finite graph, every filter and
every limit, in three parts.

* Every path sought is returned unless `max_paths` is reached. `FoundInv` says that each is found or
  awaited: some call under way is of a node on it and has the next node left to look at or is yet to be opened
  (`Ahead`). A call is left only when its list is empty, and the finite graph bounds the length of a
  simple path, so when no call is left nothing is awaited.
* None is returned twice if there are no parallel edges. `OnceInv` says that no call has the
  node it has gone to left to look at, or any neighbour twice, so a path once returned is
  never awaited again.
* There are at most `max_paths`. The limit is tested when a call is entered, a result is added
  when it is left: `LimitInv` says that only a call which was entered under the limit
  and has gone nowhere will add one.

`AnswerProofs` proves of whole queries, for every request:

* `AnswersAreUnions`: `AnswerIsUnion`. The walks share their variables, one after the other, and the
  answer is put together from what each leaves behind. `ExecInv` says which start is at hand and
  that the rows are what the starts before it were to find (`AtStart`); that what a walk adds
  is what it was to find, comes from the invariants of the walk, which every start begins
  anew (`Begun`, `WalkFinds`). `Apply`, `Added` and `AddedOnce` are folded over sequences of any
  length. A fold of the library is a recursive function over sets of places; that one
  exists is proved first (`FoldExists`), then what it gives: the settings folded step over step are those
  read off the last step to give each (`ConfigureMeans`, by the steps up to each place: `LastSays`,
  `MeantNow`), so the walk done is the one meant (`QueryMeant`), and the nodes answered are those found, each once (`FirstsOnce`).
* `WalksAreRight`: `NodesSound`, `NodesComplete`, `PathsSound` and `PathsComplete` of every walk of a query,
  which the theorems before state of a walk that is alone.

`ClustersProofs` proves, for every graph and everything that may be asked, that the clustering does
what it would do without a heap:

* `MergesGreedily`: `PartitionSpec => MergesAreGreedy`, the refinement of `GreedyClusters`. There
  a step joins two parts of a graph that touch and raise the modularity most, all figured anew from
  the graph; in `Clusters` it takes the highest entry of a heap which is not stale. Whether that is the same
  cannot be told from the heap alone, so the inductive invariant `ClustersInv` (`ClustersKeepInv`)
  says of the state of a run:
  the parts are disjoint (`Parted`); degrees, weights and neighbours, which are added to
  merge by merge, are what they would be if summed over the graph (`Figured`); an entry which is not
  stale is of two parts that touch and has the gain of joining them now, and one which is
  stale has a generation below that of its part and so never comes back (`EntryRight`); any two parts that touch have an entry which is
  not stale (`HeapWhole`); the number of parts left is counted right and tells
  how many merges there were (`Counted`). The last decides when a run ends, the others which merge it makes:
  the best valid entry is the best pair (`Picks`), and without one nothing touches.

`GraphStoreProofs` proves what the commands on stores leave, for any stores, documents and graphs an
analysis may make, any number of merged stores and any choice of a hash map:

* `ImportsAreWhole`: `ImportIsWhole`. What a document says is followed through the nodes the parser
  takes and the edges it joins, by the places they get.
* `StoresIndexed`: `IndexesAgree`. It is not inductive: a merge gives a routine the parameters that
  another store has for its key, and a deduplication keeps another node of that key than the one
  which was indexed. `StoresWell` says of every store in a file that its edges are between its nodes
  (`IsGraph`), that keys and secondary indexes are of its graph (`KeysAreIndexed`, `Secondary`,
  `PrintsAgree`), and that parameters hold of *every* node with their key (`ParamsHold`), which is what
  analyses make, merges keep and deduplications rely on.
* `DedupsKeepGraphs`: `DedupKeepsGraph`. Of nodes with one key each gives way to another, which may give way
  in turn; `FinalOf` goes along that chain, which ends since its places are finite and no node
  gives way twice. That the edges sent to its end are still right when the others are removed and places move,
  rests on `PetGraphProofs`.
* `MergesKeepGraphs`: `MergeKeepsGraphs`. Stores are merged one after the other, nodes and then edges, so
  the proof has an invariant of the store so far: each node of the stores before is
  where its key, its key without a schema or a key of which it is that leads (`Settled`, in
  `NodesUpTo`), which no later store changes, since a key gets a place only when none of these leads
  anywhere (`Extends`); and each relation so far is of one of the stores and each of theirs is
  there (`EdgesUpTo`).

`PetGraphProofs` has the facts about places: dropping keeps the order of the others (`KeptIs`), and
removing by swapping with the last, done from the highest place down, removes what it
is told to and nothing else, with every edge at the nodes it was at (`RemoveDescendingIs`,
`RemoveNodesIs`). In the other order this is false, which the mutant `RemoveAscending` shows.

`Sums` has the laws of `SumFunctionOnSet` this rests on: a sum does not depend on the order, that over a
union is the sum of both, and the weights between two sets of units add up (`Across`). It also has what a fold over a sequence does from place to place
(`FoldWalk`, `WalkInduction`), on which the proofs about stores rest. The library states
induction with operators as parameters, which the provers cannot instantiate; `SetInduction`
states it over sets instead, from the well-foundedness of inclusion between finite sets.

The assumptions are those declared in `Project`, `McpServer`, `Traversal`, `QuerySpec`, `GraphStore` and `Clusters`: distinct model values,
sets and natural bounds; that the graph of a query is finite and a request is one (`RequestType`), with a start and a step at least; that `NoStore` is not a store; that an
analysis makes a graph in which no two definitions have one key, which is what `DefinitionsAreNodes` says of
the builder, and a document is a list of nodes and a list of edges of which none has what its type does
not take; that the
edges of a graph to partition are between its nodes and of a known kind, and that what is asked for is
a number or nothing.

Only model-checked are: everything under fairness, which the prover does not do (`EventuallyFresh`,
`EventuallyUpToDate`, `LockIsReleased`, `EveryQueryAnswered`); `PartitionAddsUp`, which compares two
runs, the recommended one and the one reported, adds over the edges and over the units in turn, and rests on the closures of
`Graphs`; and the builder, the extractors, the runs and the
reports. Many operators of the latter are recursive over trees of syntax or of calls, of which this
prover knows nothing. What could be proved next: `DefinitionsAreNodes`, from the facts
about removal in `PetGraphProofs`, and `ScreenIsCurrent` with `ChainTree` written as functions.

## Not modelled

* The parsers of SQL, Java and XML are other libraries; how the loaders walk the trees of Java,
  XML and JSP into lists is without state. The extractors of SQL are modelled from the syntax
  tree on.
* Configuration changes between two analyses (`project/mod.rs:156`): the model has one
  configuration, and no manifest says of which configuration a store is.
* Export, tables, colours and the wording of reports; the roles, coverages and formats of the
  lineage; suggestions of similar names.
* Scrolling, the language and drawing of the explorer; the assets and the logs of the web server,
  whose store never changes.
* Variants of dynamic SQL, DDL texts and predicates are marks in the builder: it carries them.
  Dynamic cursors and their texts are not in the runs of routines.
