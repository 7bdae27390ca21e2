------------------------------ MODULE DataRuns ------------------------------
(***************************************************************************)
(* Two sessions of a database run the routines the graph is built of. A    *)
(* session takes the table locks of a statement, if the other holds none   *)
(* that excludes them, computes its values, keeps what it writes to itself *)
(* and its locks until it commits; of two sessions which wait for each     *)
(* other one is rolled back.                                               *)
(*                                                                         *)
(* Every value carries its origins: the columns it was computed from, as   *)
(* they were when the sessions began. So the graph can be held against     *)
(* what a run does: every flow it makes is in the lineage, and every wait  *)
(* is among the lock conflicts.                                            *)
(***************************************************************************)
EXTENDS Lineage, SqlEdges, BuildFinish, ColumnAccess

CONSTANTS
    Scenario       \* the tables, views and two routines of each database

VARIABLES
    scenario,      \* the database that is run
    graph,        \* what the builder makes of its sources
    data,         \* of each column of each table the origins of its values
    session       \* of each session: what it does

dataVars == <<scenario, graph, data, session>>

Sessions == 1 .. 2

-----------------------------------------------------------------------------
(* The graph. *)

\* resolved_tables of collect_table_access_from_statements
Feeds(mappings) ==
    {s.table : s \in {s \in UNION {m.sources : m \in ToSet(mappings)} :
                         s.is = "column" /\ s.table # NoTable}}

\* has_column_data: a statement that names a column somewhere.
HasColumns(st) ==
    CASE st.sql = "select" -> \E e \in ToSet(ExpressionsOf(st.query)) : ColumnsIn(e) # <<>>
      [] st.sql = "delete" -> \E e \in ToSet(st.rest) : ColumnsIn(e) # <<>>
      [] OTHER -> st.sql \in {"insert", "update", "merge"}

\* What both extractors say of a statement.
Analysed(st, context) ==
    LET mappings == MappingsIn(st, context)
    IN  [accesses |-> AccessesIn(st), mappings |-> ToSet(mappings), feeds |-> Feeds(mappings),
         told |-> HasColumns(st)]

Select(query) == [sql |-> "select", query |-> query]

\* extract_body_sql: the queries of declared cursors, and the statements.
BodySql(routine) ==
    LET cursors == SelectSeq(routine.declares, LAMBDA d : d.sort = "cursor")
        statements == SelectSeq(routine.body, LAMBDA s : s.pl = "sql")
    IN  [i \in DOMAIN cursors |-> Select(cursors[i].query)]
        \o [i \in DOMAIN statements |-> statements[i].statement]

\* procedure_body_infos_with_fallback: each statement in the context of the routine.
AnalysedBody(routine) ==
    LET context == ContextOf(routine)
        sql == BodySql(routine)
    IN  [i \in DOMAIN sql |-> Analysed(sql[i], context)]

RoutineStatement(routine) ==
    [create |-> "routine", name |-> routine.name, at |-> routine.name,
     routine |-> [kind |-> "procedure",
                  body |-> <<[sql |-> AnalysedBody(routine)]>>]]

ViewStatement(view) ==
    LET mappings == ViewMappings(Last(view.name), view.columns, view.query)
    IN  [create |-> "view", name |-> view.name, at |-> view.name, mappings |-> ToSet(mappings),
         reads |-> LET accesses == OfQuery(NewAccesses, view.query).accesses
                   IN  [i \in DOMAIN accesses |-> accesses[i].name]]

TableStatement(table) ==
    [create |-> "table", name |-> table.name, at |-> table.name, constraints |-> <<>>,
     columns |-> ToSet(table.columns)]

\* What the builder makes of the sources, which are one chunk: the nodes, the accesses,
\* and what the end of a build does to both. Each phase takes what the one before made.
IsGraphOf(g, p) ==
    \E tables \in {FoldLeft(LAMBDA c, t : TableNodes(c, TableStatement(t)), NewContext("ascending"), p.tables)},
       routines \in {[i \in DOMAIN p.routines |-> RoutineStatement(p.routines[i])]} :
    \E views \in {FoldLeft(LAMBDA c, v : ViewNodes(c, ViewStatement(v)), tables, p.views)} :
    \E nodes \in {FoldLeft(RoutineNodes, views, routines)} :
    \E accesses \in {FoldLeft(AccessesOf, nodes, routines)} :
    \E unique \in {DedupTables(accesses)} :
    \E merged \in {MergeAccesses(unique)} :
       g = DropIdentical(merged)

-----------------------------------------------------------------------------
(* Values. *)

\* The origins of the outputs of a query, each with its name.
Output(name, from) == [name |-> name, from |-> from]

\* Of the rows of a query the outputs are told apart, not the rows.
Together(a, b) == [i \in DOMAIN a |-> Output(a[i].name, a[i].from \cup b[i].from)]

TableNamed(p, name) == {i \in DOMAIN p.tables : Last(p.tables[i].name) = Last(name)}

ViewNamed(p, name) == {i \in DOMAIN p.views : Last(p.views[i].name) = Last(name)}

RECURSIVE RowsOf(_, _), ValueOf(_, _), Relations(_, _)

\* The rows of a table, a view, or a query of a WITH clause around.
NamedRows(name, env) ==
    CASE Len(name) = 1 /\ Last(name) \in DOMAIN env.ctes -> env.ctes[Last(name)]
      [] ViewNamed(env.scenario, name) # {} ->
            LET view == env.scenario.views[CHOOSE i \in ViewNamed(env.scenario, name) : TRUE]
                rows == RowsOf(view.query, [env EXCEPT !.ctes = <<>>, !.layers = <<>>])
            IN  [i \in DOMAIN rows |->
                    Output(IF view.columns = <<>> THEN rows[i].name ELSE view.columns[i], rows[i].from)]
      [] OTHER ->
            LET table == env.scenario.tables[CHOOSE i \in TableNamed(env.scenario, name) : TRUE]
            IN  [i \in DOMAIN table.columns |->
                    Output(table.columns[i], env.data[Last(name)][table.columns[i]])]

\* What a FROM list puts in scope.
Relations(ref, env) ==
    CASE ref.ref = "table" ->
            <<[alias |-> IF ref.alias = NoName THEN Last(ref.name) ELSE ref.alias,
               rows |-> NamedRows(ref.name, env)]>>
      [] ref.ref = "join" -> Relations(ref.left, env) \o Relations(ref.right, env)
      [] ref.ref = "query" -> <<[alias |-> ref.alias, rows |-> RowsOf(ref.query, env)]>>

InFrom(env, refs) ==
    [env EXCEPT !.layers = <<FlattenSeq([i \in DOMAIN refs |-> Relations(refs[i], env)])>> \o @]

\* Each query of a WITH clause sees those before it.
WithCtes(env, with) ==
    FoldLeft(LAMBDA e, cte : [e EXCEPT !.ctes = (cte.name :> RowsOf(cte.query, e)) @@ @], env, with)

\* The innermost relations which have a column.
ColumnsNamed(env, name) ==
    LET Having(layer) == {x \in [r : ToSet(layer), i : 1 .. 9] :
                            /\ x.i \in DOMAIN x.r.rows /\ x.r.rows[x.i].name = Last(name)
                            /\ Len(name) > 1 => x.r.alias = name[Len(name) - 1]}
        layers == {k \in DOMAIN env.layers : Having(env.layers[k]) # {}}
    IN  IF layers = {} THEN {} ELSE {x.r.rows[x.i].from : x \in Having(env.layers[Min(layers)])}

\* A name is that of a column in scope, of a field of a record or of a variable.
NameValue(name, env) ==
    LET found == ColumnsNamed(env, name)
    IN  CASE found # {} -> UNION found
          [] found = {} /\ Len(name) > 1 /\ Head(name) \in DOMAIN env.records ->
                UNION {o.from : o \in {o \in ToSet(env.records[Head(name)]) : o.name = Last(name)}}
          [] found = {} /\ Len(name) = 1 /\ Head(name) \in DOMAIN env.variables ->
                env.variables[Head(name)]
          [] OTHER -> {}

ValueOf(expr, env) ==
    CASE expr.is \in {"column", "variable"} -> NameValue(expr.name, env)
      [] expr.is = "query" -> RowsOf(expr.query[1], env)[1].from
      [] OTHER -> UNION {ValueOf(e, env) : e \in ToSet(expr.of)}

RowsOf(query, env) ==
    LET inside == InFrom(WithCtes(env, query.with), query.from)
        Name(t) == CASE t.alias # NoName -> t.alias
                     [] t.alias = NoName /\ t.expr.is = "column" -> Last(t.expr.name)
                     [] OTHER -> NoName
        Outputs(t) == IF t.star THEN FlattenSeq([i \in DOMAIN inside.layers[1] |-> inside.layers[1][i].rows])
                      ELSE <<Output(Name(t), ValueOf(t.expr, inside))>>
        rows == FlattenSeq([i \in DOMAIN query.targets |-> Outputs(query.targets[i])])
    IN  IF query.union = <<>> THEN rows ELSE Together(rows, RowsOf(query.union[1], WithCtes(env, query.with)))

-----------------------------------------------------------------------------
(* Statements. *)

\* What a statement writes: origins which come to a column of a table.
Write(table, column, from) == [table |-> table, column |-> column, from |-> from]

WriteRows(table, columns, rows) ==
    {Write(table, columns[i], rows[i].from) : i \in DOMAIN columns \cap DOMAIN rows}

InsertWrites(st, env) ==
    LET table == Last(st.table)
        all == env.scenario.tables[CHOOSE i \in TableNamed(env.scenario, st.table) : TRUE].columns
        columns == IF st.columns = <<>> THEN all ELSE st.columns
        inside == WithCtes(env, st.with)
        OfRow(row) == [i \in DOMAIN row |-> Output(NoName, ValueOf(row[i], inside))]
    IN  UNION {WriteRows(table, columns, OfRow(row)) : row \in ToSet(st.rows)}
        \cup UNION {WriteRows(table, columns, RowsOf(query, inside)) : query \in ToSet(st.query)}
        \cup UNION {WriteRows(table, columns, env.records[record]) : record \in ToSet(st.record)}

UpdateWrites(st, env) ==
    LET inside == InFrom(WithCtes(env, st.with), st.tables \o st.from)
        Values(a) == IF a.value.is = "query" THEN RowsOf(a.value.query[1], inside)
                     ELSE <<Output(NoName, ValueOf(a.value, inside))>>
    IN  UNION {WriteRows(Last(st.tables[1].name), a.columns, Values(a)) : a \in ToSet(st.assignments)}

MergeWrites(st, env) ==
    LET inside == InFrom(env, <<st.target, st.source>>)
        Values(clause) == [i \in DOMAIN clause.values |-> Output(NoName, ValueOf(clause.values[i], inside))]
    IN  UNION {WriteRows(Last(st.target.name), clause.columns, Values(clause)) : clause \in ToSet(st.clauses)}

\* The row of the source goes to every target.
InsertAllWrites(st, env) ==
    UNION {WriteRows(Last(t.table), t.columns, RowsOf(st.source, env)) : t \in ToSet(st.targets)}

WritesOf(st, env) ==
    CASE st.sql = "insert" -> InsertWrites(st, env)
      [] st.sql = "update" -> UpdateWrites(st, env)
      [] st.sql = "merge" -> MergeWrites(st, env)
      [] st.sql = "insertall" -> InsertAllWrites(st, env)
      [] OTHER -> {}

Stored(contents, writes) ==
    [t \in DOMAIN contents |-> [x \in DOMAIN contents[t] |->
        contents[t][x] \cup UNION {w.from : w \in {w \in writes : w.table = t /\ w.column = x}}]]

RECURSIVE TablesOf(_, _), TablesBelow(_, _)

\* The tables a query reads, but for the queries of WITH clauses around.
TablesBelow(ref, ctes) ==
    CASE ref.ref = "table" -> {Last(ref.name)} \ ctes
      [] ref.ref = "join" -> TablesBelow(ref.left, ctes) \cup TablesBelow(ref.right, ctes)
      [] ref.ref = "query" -> TablesOf(ref.query, ctes)

TablesOf(query, ctes) ==
    LET inside == ctes \cup CteNames(query.with)
    IN  UNION {TablesBelow(ref, inside) : ref \in ToSet(query.from)}
        \cup UNION {TablesOf(q, inside) : q \in ToSet(query.union) \cup {cte.query : cte \in ToSet(query.with)}
                        \cup UNION {ToSet(QueriesIn(e)) : e \in ToSet(ExpressionsOf(query))}}

OfAll(queries, ctes) == UNION {TablesOf(q, ctes) : q \in queries}

QueriesBelow(exprs) == UNION {ToSet(QueriesIn(e)) : e \in ToSet(exprs)}

\* The modes a database locks tables in for a statement.
LocksOf(st) ==
    LET On(tables, mode) == {<<t, mode>> : t \in tables}
        Ctes == CteNames(st.with)
        With == OfAll({cte.query : cte \in ToSet(st.with)}, Ctes)
    IN  CASE st.sql = "select" ->
                On(TablesOf(st.query, {}), "accessshare")
                \cup IF st.query.lock = <<>> THEN {}
                     ELSE On({Last(r.name) : r \in {r \in ToSet(st.query.from) : r.ref = "table"}}
                             \ CteNames(st.query.with), "rowshare")
          [] st.sql = "insert" ->
                On({Last(st.table)}, "rowexclusive")
                \cup On(OfAll(ToSet(st.query) \cup UNION {QueriesBelow(r) : r \in ToSet(st.rows)}, Ctes)
                        \cup With, "accessshare")
          [] st.sql \in {"update", "delete"} ->
                On({Last(r.name) : r \in ToSet(st.tables)}, "rowexclusive")
                \cup On(UNION {TablesBelow(r, Ctes) : r \in ToSet(st.from)} \cup With
                        \cup OfAll(QueriesBelow(ExpressionsIn(st)), Ctes), "accessshare")
          [] st.sql = "merge" -> On({Last(st.target.name)}, "rowexclusive") \cup On(TablesBelow(st.source, {}), "accessshare")
          [] st.sql = "insertall" ->
                On({Last(t.table) : t \in ToSet(st.targets)}, "rowexclusive")
                \cup On(TablesOf(st.source, {}), "accessshare")
          [] OTHER ->
                On({Last(n) : n \in ToSet(st.names)},
                   CASE st.sql = "locktable" -> st.mode
                     [] st.sql = "truncate" -> "accessexclusive"
                     [] st.sql = "createindex" -> "share"
                     [] st.sql = "analyze" -> "shareupdateexclusive")

\* Which modes of other sessions a lock waits for, in words of the database's manual.
Excludes ==
    LET both == {"exclusive", "accessexclusive"}
        changes == {"rowexclusive"}
        self == {"sharerowexclusive"}
    IN  [accessshare |-> {"accessexclusive"},
         rowshare |-> both,
         rowexclusive |-> both \cup self \cup {"share"},
         shareupdateexclusive |-> both \cup self \cup {"share", "shareupdateexclusive"},
         share |-> both \cup self \cup changes \cup {"shareupdateexclusive"},
         sharerowexclusive |-> both \cup self \cup changes \cup {"share", "shareupdateexclusive"},
         exclusive |-> both \cup self \cup changes \cup {"share", "shareupdateexclusive", "rowshare"},
         accessexclusive |-> both \cup self \cup changes
                             \cup {"share", "shareupdateexclusive", "rowshare",
                              "accessshare"}]

-----------------------------------------------------------------------------
(* Sessions. *)

NewSession ==
    [at |-> 1, locks |-> {}, writes |-> {}, variables |-> <<>>, records |-> <<>>, cursors |-> <<>>,
     over |-> FALSE]

DataInit ==
    /\ scenario \in Scenario
    /\ IsGraphOf(graph, scenario)
    /\ data = [t \in {Last(table.name) : table \in ToSet(scenario.tables)} |->
                LET columns == ToSet(scenario.tables[CHOOSE i \in TableNamed(scenario, <<t>>) : TRUE].columns)
                IN  [x \in columns |-> {<<t, x>>}]]
    /\ session = [s \in Sessions |-> NewSession]

RoutineOf(s) == scenario.routines[s]

\* What a session sees: what is committed, and what it wrote itself.
Env(s) ==
    [scenario |-> scenario, data |-> Stored(data, session[s].writes), ctes |-> <<>>, layers |-> <<>>,
     variables |-> session[s].variables, records |-> session[s].records]

At(s) == RoutineOf(s).body[session[s].at]

Running(s) == ~session[s].over /\ session[s].at \in DOMAIN RoutineOf(s).body

IsAt(s, pl) == Running(s) /\ At(s).pl = pl

DeclaredQuery(s, cursor) ==
    LET decl == {d \in ToSet(RoutineOf(s).declares) : d.sort = "cursor" /\ d.name = cursor}
    IN  (CHOOSE d \in decl : TRUE).query

\* A view is locked with the tables below it.
LocksNext(s) ==
    LET read == CASE At(s).pl \in {"sql", "assign"} -> {}
                  [] At(s).pl \in {"open", "for"} -> TablesOf(At(s).query, {})
                  [] OTHER -> IF At(s).cursor \in DOMAIN session[s].cursors THEN {}
                              ELSE TablesOf(DeclaredQuery(s, At(s).cursor), {})
        locks == {<<t, "accessshare">> : t \in read}
                 \cup IF At(s).pl = "sql" THEN LocksOf(At(s).statement) ELSE {}
        views == {v \in ToSet(scenario.views) : \E lock \in locks : lock[1] = Last(v.name)}
    IN  locks \cup UNION {{<<t, "accessshare">> : t \in TablesOf(v.query, {})} : v \in views}

\* The tables whose locks another session has to give up first.
WaitsFor(s) ==
    IF ~Running(s) THEN {}
    ELSE {lock[1] : lock \in {lock \in LocksNext(s) : \E t \in Sessions \ {s} :
                                 \E held \in session[t].locks :
                                    held[1] = lock[1] /\ held[2] \in Excludes[lock[2]]}}

\* A session goes on when it has its locks.
Go(s, change) ==
    /\ WaitsFor(s) = {}
    /\ session' = [session EXCEPT ![s] = [change EXCEPT !.at = @ + 1, !.locks = @ \cup LocksNext(s)]]
    /\ UNCHANGED <<scenario, graph, data>>

\* Variables are given the outputs of a query by their places.
Given(variables, rows) ==
    [x \in ToSet(variables) |-> rows[CHOOSE i \in DOMAIN variables : variables[i] = x].from]

\* SELECT may be INTO variables.
Execute(s) ==
    /\ IsAt(s, "sql")
    /\ LET st == At(s).statement
           into == IF st.sql = "select" THEN st.query.vars ELSE <<>>
       IN  Go(s, [session[s] EXCEPT
                    !.writes = @ \cup WritesOf(st, Env(s)),
                    !.variables = IF into = <<>> THEN @ ELSE Given(into, RowsOf(st.query, Env(s))) @@ @])

SetVariable(s) ==
    /\ IsAt(s, "assign")
    /\ Go(s, [session[s] EXCEPT !.variables = (At(s).name :> ValueOf(At(s).expr, Env(s))) @@ @])

\* FETCH, of a cursor which was opened for a query or is declared: into a record, or into
\* variables by their places.
FetchRow(s) ==
    /\ IsAt(s, "fetch")
    /\ LET cursor == At(s).cursor
           into == At(s).into
           rows == IF cursor \in DOMAIN session[s].cursors THEN session[s].cursors[cursor]
                   ELSE RowsOf(DeclaredQuery(s, cursor), Env(s))
           isRecord == \E d \in ToSet(RoutineOf(s).declares) : d.sort = "record" /\ d.name = into[1]
       IN  Go(s, IF isRecord
                 THEN [session[s] EXCEPT !.records = (into[1] :> rows) @@ @]
                 ELSE [session[s] EXCEPT !.variables = Given(into, rows) @@ @])

\* OPEN FOR
OpenFor(s) ==
    /\ IsAt(s, "open")
    /\ Go(s, [session[s] EXCEPT !.cursors = (At(s).cursor :> RowsOf(At(s).query, Env(s))) @@ @])

\* FOR over a query: its body follows.
LoopOver(s) ==
    /\ IsAt(s, "for")
    /\ Go(s, [session[s] EXCEPT !.records = (At(s).variable :> RowsOf(At(s).query, Env(s))) @@ @])

Commit(s) ==
    /\ ~session[s].over /\ ~Running(s)
    /\ data' = Stored(data, session[s].writes)
    /\ session' = [session EXCEPT ![s] = [NewSession EXCEPT !.over = TRUE]]
    /\ UNCHANGED <<scenario, graph>>

\* Both wait: one is rolled back.
Abort(s) ==
    /\ \A t \in Sessions : WaitsFor(t) # {}
    /\ session' = [session EXCEPT ![s] = [NewSession EXCEPT !.over = TRUE]]
    /\ UNCHANGED <<scenario, graph, data>>

DataNext ==
    \E s \in Sessions :
        \/ Execute(s) \/ SetVariable(s) \/ FetchRow(s) \/ OpenFor(s) \/ LoopOver(s)
        \/ Commit(s) \/ Abort(s)

DataSpec == DataInit /\ [][DataNext]_dataVars

-----------------------------------------------------------------------------
(* Properties. *)

NodeOf(t) == {i \in Places(graph.nodes) : graph.nodes[i].name = t /\ graph.nodes[i].kind = "table"}

\* As deep as there are nodes no path is cut.
Deep == Len(graph.nodes) + 1

TablesOfAll(queries) == UNION {TablesOf(q, {}) : q \in queries}

PlStatements(s, pl) == {st \in ToSet(RoutineOf(s).body) : st.pl = pl}

\* The tables read by queries of FOR and OPEN FOR: no access is made of these queries.
Unread ==
    TablesOfAll(UNION {{st.query : st \in PlStatements(s, "for") \cup PlStatements(s, "open")} : s \in Sessions})

\* The tables whose values a routine takes into variables it then goes on with: by SELECT
\* INTO, or by a cursor if there are assignments. Mappings stop at these variables.
Untold ==
    LET Selects(s) == {st.statement.query : st \in {st \in PlStatements(s, "sql") :
                            st.statement.sql = "select" /\ st.statement.query.vars # <<>>}}
        Cursors(s) == IF PlStatements(s, "assign") = {} THEN {}
                      ELSE {d.query : d \in {d \in ToSet(RoutineOf(s).declares) : d.sort = "cursor"}}
    IN  TablesOfAll(UNION {Selects(s) \cup Cursors(s) : s \in Sessions})

\* Data which a run brought from one table into another is in the lineage of both, unless
\* it is of the tables left out.
TablesAreTraced(but) ==
    \A t \in DOMAIN data, i, j \in Places(graph.nodes) :
        \A origin \in UNION {data[t][x] : x \in DOMAIN data[t]} :
            i \in NodeOf(origin[1]) /\ j \in NodeOf(t) /\ i # j /\ origin[1] \notin but =>
                /\ \E h \in TableLineage(graph, j, "upstream", Deep) : h.far = i
                /\ \E h \in TableLineage(graph, i, "downstream", Deep) : h.far = j

RECURSIVE NamesTables(_)

\* The columns a query takes are those of tables or views that FROM names itself.
NamesTables(query) ==
    /\ query.with = <<>>
    /\ \A ref \in ToSet(query.from) :
          ref.ref = "table" \/ (ref.ref = "join" /\ {ref.left.ref, ref.right.ref} = {"table"})
    /\ \A t \in ToSet(query.targets) : QueriesIn(t.expr) = <<>>
    /\ \A q \in ToSet(query.union) : NamesTables(q)

IsDirect(st) ==
    CASE st.sql = "insert" -> st.with = <<>> /\ \A q \in ToSet(st.query) : NamesTables(q)
      [] st.sql = "update" -> st.with = <<>>
      [] st.sql = "merge" -> st.source.ref = "table"
      [] OTHER -> st.sql # "insertall"

\* Both routines take the columns they write from tables, views, cursors and records; of
\* what comes through WITH, a query in FROM or in an expression, or INSERT ALL, no column
\* is known.
AllDirect ==
    \A s \in Sessions : \A st \in ToSet(RoutineOf(s).body) : st.pl = "sql" => IsDirect(st.statement)

\* A column of a direct routine whose values came from another one has that one in its
\* lineage, under the very name it has there.
ColumnsAreTraced ==
    AllDirect =>
    \A t \in DOMAIN data : \A x \in DOMAIN data[t] : \A origin \in data[t][x] :
        \/ origin = <<t, x>> \/ origin[1] \in Untold
        \/ /\ ColumnOf(origin[1], origin[2]) \in ColumnLineage(graph, <<t>>, x, "upstream", Deep)
           /\ \/ origin[1] \in Unread
              \/ ColumnOf(t, x) \in ColumnLineage(graph, <<origin[1]>>, origin[2], "downstream", Deep)

\* Whatever data a run brings from one table into another, with any interleaving of the
\* two routines, the second is downstream of the first and the first upstream of the
\* second (build_table_lineage): through queries in WITH, FROM and expressions, through
\* views, cursors and the records and variables fetched from them, and through both
\* routines one after the other.  The same is so of columns (lineage_column), for routines
\* which are direct.  Left out is the data of tables read by FOR and OPEN FOR, of which
\* only the columns are known, upstream (ProcedureSqlExtractor makes no statement of their
\* queries), and that which goes through SELECT INTO or an assignment of a variable
\* (resolve_cursor_flows follows FETCH alone).
FlowIsTraced == TablesAreTraced(Unread \cup Untold) /\ ColumnsAreTraced

\* The user guide says that lineage goes through the assignments inside procedures: data
\* that a routine assigns to a variable on its way is traced like other data.
AssignedFlowIsTraced == TablesAreTraced(Unread)

\* The tables below the views a statement of a routine names.
BelowViews ==
    LET Names(s) == {lock[1] : lock \in UNION {LocksOf(st.statement) : st \in PlStatements(s, "sql")}}
    IN  TablesOfAll({v.query : v \in {v \in ToSet(scenario.views) :
                                        Last(v.name) \in UNION {Names(s) : s \in Sessions}}})

\* Whenever a session waits for a table, the two routines and this table are among the
\* lock conflicts (find_conflicts): the locks of statements far apart count together.  Left
\* out are the tables which are locked without an access: those that FOR and OPEN FOR read,
\* and those below a view.
WaitIsReported ==
    \A s \in Sessions : \A t \in WaitsFor(s) \ (Unread \cup BelowViews) :
        \E x \in Conflicts(graph) :
            /\ x.table \in NodeOf(t)
            /\ {<<graph.nodes[x.a].name>>, <<graph.nodes[x.b].name>>}
                 = {Bare(RoutineOf(1).name), Bare(RoutineOf(2).name)}

=============================================================================
