---------------------------- MODULE ColumnAccess ----------------------------
(***************************************************************************)
(* Which columns the values written by a SQL statement come from           *)
(* (ColumnAccessExtractor of src/parser/extractor.rs), with what is known  *)
(* of the cursors and records of the routine around it.                    *)
(*                                                                         *)
(* A mapping says what a column of a table is filled from: columns, each   *)
(* with its table if that is known, and variables.                         *)
(***************************************************************************)
EXTENDS TableAccess

CONSTANTS
    NoTable,      \* the table of a column which is not known
    NoName        \* the name of an output, or a column, which has none

ColumnOf(table, column) == [is |-> "column", table |-> table, column |-> column]

VariableOf(name) == [is |-> "variable", table |-> NoTable, column |-> name]

\* cursors: the columns of their queries; fetched: the variables of their last FETCH;
\* records: the cursor or the table of each record.
NewColumns ==
    [aliases |-> <<>>, scopes |-> <<>>, sole |-> NoTable, mappings |-> <<>>, current |-> NoName,
     cursors |-> <<>>, fetched |-> <<>>, records |-> <<>>]

\* new_with_context, procedure_context
WithContext(x) ==
    [NewColumns EXCEPT !.cursors = x.cursors, !.fetched = x.fetched, !.records = x.records]

InScope(x, with) == [x EXCEPT !.scopes = Append(@, CteNames(with))]

OutOfScope(x) == [x EXCEPT !.scopes = Front(@)]

-----------------------------------------------------------------------------
(* Tables in scope. *)

\* An alias is set anew, the name of a table without one is not.
AddAlias(x, ref) ==
    IF IsCte(x.scopes, ref.name) THEN x
    ELSE [x EXCEPT !.aliases = IF ref.alias # NoName THEN (ref.alias :> Last(ref.name)) @@ @
                               ELSE @ @@ (Last(ref.name) :> Last(ref.name))]

RECURSIVE AddAliases(_, _)

\* collect_aliases_from_table_refs: not those of queries.
AddAliases(x, ref) ==
    CASE ref.ref = "table" -> AddAlias(x, ref)
      [] ref.ref = "join" -> AddAliases(AddAliases(x, ref.left), ref.right)
      [] OTHER -> x

WithAliases(x, refs) == FoldLeft(AddAliases, x, refs)

\* scope_sole_table_of: the one table a FROM list names itself.
SoleTable(x, refs) ==
    LET names == {Last(r.name) : r \in {r \in ToSet(refs) : r.ref = "table" /\ ~IsCte(x.scopes, r.name)}}
    IN  IF Cardinality(names) = 1 THEN CHOOSE t \in names : TRUE ELSE NoTable

TableAt(x, prefix) == IF prefix \in DOMAIN x.aliases THEN x.aliases[prefix] ELSE NoTable

-----------------------------------------------------------------------------
(* Values. *)

\* The columns of a query which are not known by themselves.
IsCatchAll(columns) == Len(columns) = 1 /\ columns[1].output = NoName

\* record_field_source: by the name of the output, by the table of all outputs, or by the
\* table the record is like.
RecordField(x, record, field) ==
    IF record \notin DOMAIN x.records THEN {}
    ELSE LET of == x.records[record]
         IN  IF of \notin DOMAIN x.cursors THEN {ColumnOf(of, field)}
             ELSE LET columns == x.cursors[of]
                      named == SelectSeq(columns, LAMBDA c : c.output = field)
                  IN  CASE named # <<>> /\ named[1].column # NoName ->
                              {ColumnOf(named[1].table, named[1].column)}
                        [] IsCatchAll(columns) /\ columns[1].table # NoTable ->
                              {ColumnOf(columns[1].table, field)}
                        [] OTHER -> {}

\* column_source: a field of a record, a column of the table with this alias, or, without
\* one, of the only table.
Source(x, name) ==
    LET fields == IF Len(name) > 1 THEN RecordField(x, Head(name), Last(name)) ELSE {}
    IN  CASE fields # {} -> CHOOSE f \in fields : TRUE
          [] fields = {} /\ Len(name) > 1 -> ColumnOf(TableAt(x, Head(name)), Last(name))
          [] OTHER -> ColumnOf(x.sole, Last(name))

RECURSIVE Sources(_, _)

\* classify_value_expr, collect_value_sources: not those of queries in it, nor of forms
\* which are not looked into.
Sources(x, expr) ==
    CASE expr.is = "column" -> {Source(x, expr.name)}
      [] expr.is = "variable" -> {VariableOf(Last(expr.name))}
      [] expr.is \in {"compute", "in"} -> UNION {Sources(x, e) : e \in ToSet(expr.of)}
      [] OTHER -> {}

\* push_subquery_column_mapping: the value is what the query selects at this place, or
\* first, in its own scope.
QuerySources(x, query, position) ==
    LET inside == [WithAliases(x, query.from) EXCEPT !.sole = SoleTable(x, query.from)]
        place == IF Len(query.targets) = 1 THEN 1 ELSE position
    IN  IF place \notin DOMAIN query.targets \/ query.targets[place].star THEN {}
        ELSE Sources(inside, query.targets[place].expr)

\* push_column_mapping
Map(x, table, column, position, expr) ==
    LET sources == IF expr.is = "query" THEN QuerySources(x, expr.query[1], position)
                   ELSE Sources(x, expr)
    IN  [x EXCEPT !.mappings = Append(@, [table |-> table, column |-> column, sources |-> sources])]

\* Columns filled by the expressions at their places, as far as both go.
MapAll(x, table, columns, exprs) ==
    LET n == IF Len(columns) < Len(exprs) THEN Len(columns) ELSE Len(exprs)
    IN  FoldLeft(LAMBDA y, i : IF columns[i] = NoName THEN y ELSE Map(y, table, columns[i], i, exprs[i]),
                 x, [i \in 1 .. n |-> i])

\* map_columns_positionally: what * stands for is not known.
MapTargets(x, table, columns, query) ==
    IF \E t \in ToSet(query.targets) : t.star THEN x
    ELSE LET inside == [x EXCEPT !.sole = SoleTable(x, query.from)]
             exprs == [i \in DOMAIN query.targets |-> query.targets[i].expr]
         IN  [MapAll(inside, table, columns, exprs) EXCEPT !.sole = x.sole]

\* Mutant: only the head of a UNION is mapped.
FirstBranch(query) == <<query>>

RECURSIVE Branches(_)

\* set_operation_branches
Branches(query) == <<query>> \o IF query.union = <<>> THEN <<>> ELSE Branches(query.union[1])

MapBranches(x, table, columns, query) ==
    FoldLeft(LAMBDA y, branch : MapTargets(WithAliases(y, branch.from), table, columns, branch),
             x, Branches(query))

\* output_column_names
OutputNames(query) ==
    [i \in DOMAIN query.targets |->
        LET t == query.targets[i]
        IN  CASE t.star -> NoName
              [] ~t.star /\ t.alias # NoName -> t.alias
              [] ~t.star /\ t.alias = NoName /\ t.expr.is = "column" -> Last(t.expr.name)
              [] OTHER -> NoName]

\* extract_view_column_mappings: the columns a view declares, or those of its query.
ViewMappings(view, columns, query) ==
    LET names == IF columns # <<>> THEN columns ELSE OutputNames(query)
    IN  MapBranches(NewColumns, view, names, query).mappings

-----------------------------------------------------------------------------
(* Statements. *)

\* INSERT of a record: the columns of its cursor at their places.
MapRecord(x, table, columns, record) ==
    LET of == IF record \in DOMAIN x.records /\ x.records[record] \in DOMAIN x.cursors
              THEN x.cursors[x.records[record]] ELSE <<>>
        At(i) == IF i \in DOMAIN of THEN of[i] ELSE of[1]
        Fill(y, i) ==
            IF \/ i \notin DOMAIN of /\ ~IsCatchAll(of)
               \/ At(i).column = NoName
            THEN y
            ELSE [y EXCEPT !.mappings =
                    Append(@, [table |-> table, column |-> columns[i],
                               sources |-> {ColumnOf(At(i).table, At(i).column)}])]
    IN  FoldLeft(Fill, x, [i \in DOMAIN columns |-> i])

\* visit_insert
InsertColumns(x, st) ==
    LET inside == InScope(x, st.with)
        table == Last(st.table)
        names == IF st.columns # <<>> \/ st.query = <<>> THEN st.columns ELSE OutputNames(st.query[1])
        Rows(y) == FoldLeft(LAMBDA z, row : MapAll(z, table, names, row), y, st.rows)
        Queries(y) == FoldLeft(LAMBDA z, query : MapBranches(z, table, names, query), y, st.query)
        Records(y) == FoldLeft(LAMBDA z, record : MapRecord(z, table, names, record), y, st.record)
    IN  OutOfScope(Records(Queries(Rows(inside))))

\* SET of one or several columns to one value.
Assign(x, table, assignment) ==
    FoldLeft(LAMBDA y, i : Map(y, table, assignment.columns[i], i, assignment.value),
             x, [i \in DOMAIN assignment.columns |-> i])

\* visit_update: only the tables named themselves have aliases.
UpdateColumns(x, st) ==
    LET refs == SelectSeq(st.tables \o st.from, LAMBDA r : r.ref = "table")
        aliased == FoldLeft(AddAlias, InScope(x, st.with), refs)
        table == IF st.tables[1].ref = "table" THEN Last(st.tables[1].name) ELSE NoTable
        inside == [aliased EXCEPT !.sole = IF st.from = <<>> THEN SoleTable(aliased, st.tables) ELSE NoTable]
        mapped == FoldLeft(LAMBDA y, a : Assign(y, table, a), inside, st.assignments)
    IN  OutOfScope([mapped EXCEPT !.sole = x.sole])

\* visit_merge_statement
MergeColumns(x, st) ==
    LET inside == [WithAliases(x, <<st.target, st.source>>) EXCEPT !.sole = SoleTable(x, <<st.source>>)]
        table == Last(st.target.name)
        mapped == FoldLeft(LAMBDA y, c : MapAll(y, table, c.columns, c.values), inside, st.clauses)
    IN  IF st.target.ref # "table" THEN x ELSE [mapped EXCEPT !.sole = x.sole]

\* visit_select, of the query itself.
SelectColumns(x, query) ==
    WithAliases(InScope(x, query.with), query.from)

MapStatement(x, st) ==
    CASE st.sql = "insert" -> InsertColumns(x, st)
      [] st.sql = "update" -> UpdateColumns(x, st)
      [] st.sql = "merge" -> MergeColumns(x, st)
      [] st.sql = "select" -> OutOfScope(SelectColumns(x, st.query))
      [] OTHER -> x

-----------------------------------------------------------------------------
(* Cursors. *)

RECURSIVE ColumnsIn(_)

\* collect_expr_columns
ColumnsIn(expr) ==
    CASE expr.is = "column" -> <<expr.name>>
      [] expr.is = "compute" -> FlattenSeq([i \in DOMAIN expr.of |-> ColumnsIn(expr.of[i])])
      [] OTHER -> <<>>

RECURSIVE FromTables(_)

\* collect_from_tables
FromTables(refs) ==
    UNION {CASE r.ref = "table" -> {Last(r.name)}
             [] r.ref = "query" -> FromTables(r.query.from)
             [] OTHER -> {} : r \in ToSet(refs)}

\* The only table below FROM.
OnlyTable(refs) ==
    LET tables == FromTables(refs)
    IN  IF Cardinality(tables) = 1 THEN CHOOSE t \in tables : TRUE ELSE NoTable

\* collect_cursor_select_sources: of each target its first column; a target without one
\* leaves no place.
CursorColumns(x, query) ==
    LET only == OnlyTable(query.from)
        Table(name) == CASE Len(name) = 1 -> only
                         [] Len(name) > 1 /\ name[Len(name) - 1] \in DOMAIN x.aliases ->
                                x.aliases[name[Len(name) - 1]]
                         [] OTHER -> name[Len(name) - 1]
        Column(t) ==
            LET columns == IF t.star THEN <<>> ELSE ColumnsIn(t.expr)
            IN  CASE t.star -> IF only = NoTable THEN <<>>
                               ELSE <<[output |-> NoName, table |-> only, column |-> NoName]>>
                  [] ~t.star /\ columns # <<>> ->
                        <<[output |-> OutputNames([query EXCEPT !.targets = <<t>>])[1],
                           table |-> Table(columns[1]), column |-> Last(columns[1])]>>
                  [] OTHER -> <<>>
    IN  FlattenSeq([i \in DOMAIN query.targets |-> Column(query.targets[i])])

\* visit_pl_declaration, with the query of the cursor: PlDeclaration::Cursor sets the cursor
\* the next query is that of.
DeclareColumns(x, decl) ==
    CASE decl.sort = "cursor" ->
            LET inside == SelectColumns(x, decl.query)
            IN  OutOfScope([inside EXCEPT !.cursors = (decl.name :> CursorColumns(inside, decl.query)) @@ @])
      [] decl.sort = "record" -> [x EXCEPT !.records = (decl.name :> decl.like) @@ @]
      [] OTHER -> x

\* FETCH: of a cursor the last one counts; a record is then one of this cursor.
FetchColumns(x, st) ==
    [x EXCEPT !.fetched = (st.cursor :> st.into) @@ @,
              !.records = IF Len(st.into) = 1 /\ st.into[1] \in DOMAIN @
                          THEN (st.into[1] :> st.cursor) @@ @ ELSE @]

\* OPEN of a query: the first one counts, and its aliases are not collected.
OpenColumns(x, st) ==
    IF st.cursor \in DOMAIN x.cursors THEN x
    ELSE [x EXCEPT !.cursors = (st.cursor :> CursorColumns(x, st.query)) @@ @]

\* FOR over a query: the variable of the loop is a record, and its own cursor.
ForColumns(x, st) ==
    [x EXCEPT !.cursors = (st.variable :> CursorColumns(x, st.query)) @@ @,
              !.records = (st.variable :> st.variable) @@ @]

\* The walk over a routine, before its statements are looked at one by one.
ContextOf(routine) ==
    LET One(x, st) ==
            CASE st.pl = "fetch" -> FetchColumns(x, st)
              [] st.pl = "open" -> OpenColumns(x, st)
              [] st.pl = "for" -> ForColumns(x, st)
              [] st.pl = "sql" -> MapStatement(x, st.statement)
              [] OTHER -> x
    IN  FoldLeft(One, FoldLeft(DeclareColumns, NewColumns, routine.declares), routine.body)

\* Mutant: the variables of a FETCH are taken for those of its columns in reverse.
FetchedInReverse(x, name) ==
    UNION {LET vars == x.fetched[c] columns == x.cursors[c]
           IN  {ColumnOf(columns[i].table, columns[i].column) :
                   i \in {i \in DOMAIN columns : Len(vars) + 1 - i \in DOMAIN vars
                                                 /\ vars[Len(vars) + 1 - i] = name}}
           : c \in DOMAIN x.fetched \cap DOMAIN x.cursors}

\* What a variable is fetched from, by its place in the FETCH of a cursor.
Fetched(x, name) ==
    UNION {LET vars == x.fetched[c] columns == x.cursors[c]
               At(i) == IF i \in DOMAIN columns THEN columns[i] ELSE columns[1]
           IN  {ColumnOf(At(i).table, IF At(i).column = NoName THEN name ELSE At(i).column) :
                   i \in {i \in DOMAIN vars : /\ vars[i] = name
                                              /\ i \in DOMAIN columns \/ IsCatchAll(columns)
                                              /\ \/ At(i).column # NoName
                                                 \/ At(i).table # NoTable /\ At(i).output = NoName}}
           : c \in DOMAIN x.fetched \cap DOMAIN x.cursors}

\* resolve_cursor_flows: a variable which several cursors are fetched into comes from any.
Resolved(x, source) ==
    IF source.is # "variable" \/ Fetched(x, source.column) = {} THEN source
    ELSE CHOOSE f \in Fetched(x, source.column) : TRUE

\* The mappings of a statement, in the context of its routine.
MappingsIn(st, context) ==
    LET x == MapStatement(WithContext(context), st)
    IN  [i \in DOMAIN x.mappings |->
            [x.mappings[i] EXCEPT !.sources = {Resolved(x, s) : s \in @}]]

=============================================================================
