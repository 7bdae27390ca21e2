--------------------------- MODULE ColumnReports ----------------------------
(***************************************************************************)
(* What the branches of a routine ask of the rows it has fetched           *)
(* (src/parser/predicates.rs), and what the commands `columns` and         *)
(* `predicates` say of a routine or a package (src/graph/columns.rs).      *)
(*                                                                         *)
(* The condition of each IF, ELSIF and WHEN is taken as clauses on the     *)
(* columns of one table, with how sure that is: directly from the cursors  *)
(* behind the fields of records it compares, by way of the SELECT INTO     *)
(* that filled the variables it compares.                                  *)
(*                                                                         *)
(* A report has everything the edges from the routines to tables carry,    *)
(* each thing once, and, as hints for test data, with the operations on    *)
(* every table, the values of the discriminator columns, and where each    *)
(* hint was found. An edge is the access of one routine to one table. It   *)
(* carries what is known of every statement with this access, and the line *)
(* of the first.                                                           *)
(***************************************************************************)
EXTENDS HardFilters

-----------------------------------------------------------------------------
(* Conditions. *)

CONSTANTS
    ParameterTables    \* the tables whose names are those of parameter tables

\* The tables of all columns of the cursors.
CursorTables(context) ==
    {c.table : c \in UNION {ToSet(context.cursors[k]) : k \in DOMAIN context.cursors}} \ {NoTable}

\* PredicateClause: `written` is the name of the field, if it is another one.
ClauseOn(table, column, op, values, by, written) ==
    [table |-> table, column |-> column, op |-> op, values |-> values, by |-> by, written |-> written]

\* What a condition comes to: clauses taken directly, clauses which have a source, or nothing.
Unresolved == [how |-> "none", clauses |-> <<>>]
Direct(clauses) == [how |-> "direct", clauses |-> clauses]
Derived2(clauses) == [how |-> "derived", clauses |-> clauses]

\* reverse_operator
Reversed(op) ==
    CASE op = ">" -> "<" [] op = ">=" -> "<=" [] op = "<" -> ">" [] op = "<=" -> ">=" [] OTHER -> op

\* resolved_clause, of a field of a record.
FieldClause(context, name, op, values, by) ==
    {ClauseOn(f.table, f.column, op, values, by, IF f.column = Last(name) THEN NoName ELSE Last(name)) :
        f \in FieldOf(context, name)}

\* condition_operand: a field; or else what a SELECT INTO variable was filled from; or else
\* a plain name, if all cursors are over one table.
Operand(context, sources, expr, op, values) ==
    LET isTransform == IsTransform(expr)
        named == IF IsColumn(expr) THEN <<expr.name>>
                 ELSE IF isTransform THEN <<Transformed(expr).name>> ELSE <<>>
        by == IF isTransform THEN TransformOf(expr) ELSE NoName
        variable == IF isTransform THEN {Last(Transformed(expr).name)}
                    ELSE IF expr.is \in {"column", "variable"} /\ Len(expr.name) = 1
                    THEN {Last(expr.name)} ELSE {}
        fields == UNION {FieldClause(context, n, op, values, by) : n \in ToSet(named)}
        tables == CursorTables(context)
        source == variable \cap DOMAIN sources
    IN  CASE fields # {} -> Direct(<<CHOOSE f \in fields : TRUE>>)
          [] fields = {} /\ source # {} ->
                LET s == sources[CHOOSE v \in source : TRUE]
                IN  Derived2(<<[source |-> s, clause |-> ClauseOn(s.table, s.column, op, values, by, NoName)]>>)
          [] OTHER ->
                IF named # <<>> /\ Len(named[1]) = 1 /\ Cardinality(tables) = 1
                THEN Direct(<<ClauseOn(CHOOSE t \in tables : TRUE, Last(named[1]), op, values, by, NoName)>>)
                ELSE Unresolved

\* Mutant: a literal on the left is taken for one on the right.
AsWrittenThere(op) == op

\* The operator for the other side.
TurnedAround(op) == Reversed(op)

RECURSIVE ClausesOf(_, _, _)

\* condition_clauses
ClausesOf(context, sources, cond) ==
    CASE cond.cond = "and" ->
            LET left == ClausesOf(context, sources, cond.left)
                right == ClausesOf(context, sources, cond.right)
            IN  IF left.how # right.how THEN Unresolved
                ELSE [how |-> left.how, clauses |-> left.clauses \o right.clauses]
      [] cond.cond = "compare" ->
            CASE IsLiteral(cond.right) ->
                    Operand(context, sources, cond.left, cond.op, <<cond.right.value>>)
              [] ~IsLiteral(cond.right) /\ IsLiteral(cond.left) ->
                    Operand(context, sources, cond.right, TurnedAround(cond.op), <<cond.left.value>>)
              [] OTHER -> Unresolved
      [] cond.cond \in {"between", "in"} ->
            LET values == [i \in DOMAIN cond.with |-> cond.with[i].value]
                fields == FieldClause(context, cond.expr.name, cond.cond, values, NoName)
            IN  IF \/ cond.negated \/ ~IsColumn(cond.expr)
                   \/ \E e \in ToSet(cond.with) : ~IsLiteral(e)
                   \/ fields = {}
                THEN Unresolved ELSE Direct(<<CHOOSE f \in fields : TRUE>>)
      [] OTHER -> Unresolved

\* one_table_predicate
SameTable(clauses) == Cardinality({c.table : c \in ToSet(clauses)}) = 1

-----------------------------------------------------------------------------
(* SELECT INTO. *)

RECURSIVE AliasesOf(_)

\* table_aliases: the last one with a name counts.
AliasesOf(refs) ==
    LET One(ref) ==
            CASE ref.ref = "table" ->
                    (IF ref.alias = NoName THEN Last(ref.name) ELSE ref.alias) :> Last(ref.name)
              [] ref.ref = "join" -> AliasesOf(<<ref.left, ref.right>>)
              [] OTHER -> <<>>
    IN  FoldLeft(LAMBDA all, ref : One(ref) @@ all, <<>>, refs)

\* sole_table, resolve_select_column
ColumnIn(aliases, name) ==
    LET tables == {aliases[a] : a \in DOMAIN aliases}
        table == IF Len(name) > 1
                 THEN IF Head(name) \in DOMAIN aliases THEN {aliases[Head(name)]} ELSE {}
                 ELSE IF Cardinality(tables) = 1 THEN tables ELSE {}
    IN  {ColumnOf(t, Last(name)) : t \in table}

RECURSIVE Asked(_, _, _)

\* direct_clauses: of comparisons under AND, or nothing if one of them is none.
Asked(context, aliases, cond) ==
    LET One(name, op, value) ==
            LET found == ColumnIn(aliases, name)
                columns == IF found # {} THEN found ELSE FieldOf(context, name)
            IN  [ok |-> columns # {},
                 clauses |-> SetToSeq({ClauseOn(c.table, c.column, op, <<value>>, NoName, NoName) : c \in columns})]
        None == [ok |-> FALSE, clauses |-> <<>>]
    IN  CASE cond.cond = "and" ->
                LET left == Asked(context, aliases, cond.left)
                    right == Asked(context, aliases, cond.right)
                IN  [ok |-> left.ok /\ right.ok, clauses |-> left.clauses \o right.clauses]
          [] cond.cond = "compare" /\ IsColumn(cond.left) /\ IsLiteral(cond.right) ->
                One(cond.left.name, cond.op, cond.right.value)
          [] cond.cond = "compare" /\ IsColumn(cond.right) /\ IsLiteral(cond.left) ->
                One(cond.right.name, Reversed(cond.op), cond.left.value)
          [] OTHER -> None

\* classify_var_source
RoleOf(context, table) ==
    IF table \in ParameterTables \ CursorTables(context) THEN "parameter" ELSE "main"

\* record_select_into: what the variables of a query are filled from, by their places.
SelectInto(context, sources, query) ==
    LET aliases == AliasesOf(query.from)
        asked == IF query.where = <<>> THEN [ok |-> FALSE, clauses |-> <<>>]
                 ELSE Asked(context, aliases, query.where[1])
        filters == IF asked.ok /\ SameTable(asked.clauses) THEN asked.clauses ELSE <<>>
        places == {i \in DOMAIN query.targets \cap DOMAIN query.vars :
                      /\ ~query.targets[i].star
                      /\ IsColumn(query.targets[i].expr)
                      /\ ColumnIn(aliases, query.targets[i].expr.name) # {}}
        From(i) == CHOOSE c \in ColumnIn(aliases, query.targets[i].expr.name) : TRUE
        At2(v) == Max({i \in places : query.vars[i] = v})
        Source2(i) == [table |-> From(i).table, column |-> From(i).column, filters |-> filters,
                       role |-> RoleOf(context, From(i).table)]
    IN  [v \in {query.vars[i] : i \in places} |-> Source2(At2(v))] @@ sources

-----------------------------------------------------------------------------
(* Predicates. *)

Predicate(kind, confidence, clauses, hint) ==
    [kind |-> kind, confidence |-> confidence, clauses |-> clauses, hint |-> hint]

\* push_condition, with what the condition comes to. What a hint for a parameter table says
\* to set is columns with values: how the condition compares them is not kept.
PredicateOf(kind, found) ==
    LET first == found.clauses[1].source
        isOne == \A c \in ToSet(found.clauses) :
                    c.source.table = first.table /\ c.source.role = first.role
        clauses == [i \in DOMAIN found.clauses |-> found.clauses[i].clause]
        set == [i \in DOMAIN clauses |-> [column |-> clauses[i].column, value |-> clauses[i].values[1]]]
    IN  CASE found.how = "direct" /\ SameTable(found.clauses) ->
                Predicate(kind, "high", found.clauses, <<>>)
          [] found.how = "derived" /\ isOne /\ first.role = "main" ->
                Predicate(kind, "medium", clauses, <<>>)
          [] found.how = "derived" /\ isOne /\ first.role = "parameter" ->
                Predicate(kind, "low", <<>>, <<[table |-> first.table, filters |-> first.filters, set |-> set]>>)
          [] OTHER -> Predicate(kind, "low", <<>>, <<>>)

\* What is known after the statements before.
NoneYet == [sources |-> <<>>, predicates |-> <<>>]

\* CASE with an expression compares it with what each WHEN says.
Whens(st) ==
    IF st.operand = <<>> THEN st.whens
    ELSE [i \in DOMAIN st.whens |->
            [cond |-> "compare", op |-> "=", left |-> st.operand[1], right |-> st.whens[i]]]

\* visit_pl_statement
PredicatesOfOne(context, x, st) ==
    LET conds == IF st.pl = "if" THEN st.conditions ELSE Whens(st)
    IN  CASE st.pl \in {"if", "case"} ->
                [x EXCEPT !.predicates =
                    @ \o [i \in DOMAIN conds |-> PredicateOf(st.pl, ClausesOf(context, x.sources, conds[i]))]]
          [] st.pl = "sql" /\ st.statement.sql = "select" /\ st.statement.query.vars # <<>> ->
                [x EXCEPT !.sources = SelectInto(context, @, st.statement.query)]
          [] OTHER -> x

\* collect_block_predicates, extract_predicates
PredicatesOf(routine, context) ==
    FoldLeft(LAMBDA x, st : PredicatesOfOne(context, x, st), NoneYet, routine.body).predicates

-----------------------------------------------------------------------------
(* Reports. *)

CONSTANTS
    Discriminators     \* the configured discriminator columns

\* extract_body_sql: the queries of declared cursors and the statements, with their lines;
\* the place of a cursor comes first.
StatementsOf(routine) ==
    LET cursors == SelectSeq(routine.declares, LAMBDA d : d.sort = "cursor")
        lines == SelectSeq([i \in DOMAIN routine.body |-> i], LAMBDA i : routine.body[i].pl = "sql")
        Cursor2(i) == [line |-> 0 - i, statement |-> [sql |-> "select", query |-> cursors[i].query]]
        Own(i) == [line |-> lines[i], statement |-> routine.body[lines[i]].statement]
    IN  [i \in DOMAIN cursors |-> Cursor2(i)] \o [i \in DOMAIN lines |-> Own(i)]

\* What is said of each statement of a routine, and what it does to tables.
Said(routine, context) ==
    LET statements == StatementsOf(routine)
    IN  [i \in DOMAIN statements |->
            [line |-> statements[i].line, accesses |-> AccessesIn(statements[i].statement),
             hints |-> HintsIn(statements[i].statement, context)]]

\* collect_table_access_from_statements: an edge for each table a statement uses, all with
\* what is said of the statement.
EdgesOf(said) ==
    [i \in DOMAIN said.accesses |->
        [table |-> Last(said.accesses[i].name), modes |-> said.accesses[i].modes,
         kinds |-> said.accesses[i].kinds, line |-> said.line,
         filters |-> said.hints.filters, joins |-> said.hints.joins,
         equalities |-> said.hints.equalities, enums |-> said.hints.enums]]

\* union_dedup_vec
WithMore(all, more) == all \o SelectSeq(more, LAMBDA m : m \notin ToSet(all))

\* Mutant: of several edges to a table the first stays as it is.
FirstStays(edges, edge) ==
    IF \E e \in ToSet(edges) : e.table = edge.table THEN edges ELSE Append(edges, edge)

\* merge_table_access_edges: the first edge to a table takes what the others carry.
WithEdge(edges, edge) ==
    LET at == {i \in DOMAIN edges : edges[i].table = edge.table}
        i == CHOOSE i \in at : TRUE
        first == edges[i]
    IN  IF at = {} THEN Append(edges, edge)
        ELSE [edges EXCEPT ![i] =
                [first EXCEPT !.modes = @ \cup edge.modes, !.kinds = @ \cup edge.kinds,
                              !.filters = WithMore(@, edge.filters), !.joins = WithMore(@, edge.joins),
                              !.equalities = WithMore(@, edge.equalities), !.enums = WithMore(@, edge.enums)]]

\* The edges of a routine as the store has them, the last one first.
AccessEdges(said) ==
    Reverse(FoldLeft(WithEdge, <<>>, FlattenSeq([i \in DOMAIN said |-> EdgesOf(said[i])])))

-----------------------------------------------------------------------------
(* Reports. *)

\* An entry with the routine and the line of the edge it was first seen on.
Found(routine, edge, entries) ==
    [i \in DOMAIN entries |-> [entry |-> entries[i], routine |-> routine.name, line |-> edge.line]]

\* Each entry once, where it was first seen.
Once(all, more) ==
    all \o SelectSeq(more, LAMBDA m : \A a \in ToSet(all) : a.entry # m.entry)

\* What a report is told of one edge; its other lists go the same way.
AddEdge(report, routine, edge) ==
    [report EXCEPT !.filters = Once(@, Found(routine, edge, edge.filters)),
                   !.joins = Once(@, Found(routine, edge, edge.joins)),
                   !.equalities = Once(@, Found(routine, edge, edge.equalities)),
                   !.enums = Once(@, Found(routine, edge, edge.enums))]

NewReport == [filters |-> <<>>, joins |-> <<>>, equalities |-> <<>>, enums |-> <<>>]

Wanted2(table, tables) == tables = {} \/ table \in tables

\* collect_diagnostics, of the edges to one table or to all.
Diagnostics(routines, tables) ==
    LET Wanted3(edges) == SelectSeq(edges, LAMBDA e : Wanted2(e.table, tables))
        Add2(report, routine) ==
            FoldLeft(LAMBDA r, e : AddEdge(r, routine, e), report, Wanted3(routine.edges))
    IN  FoldLeft(Add2, NewReport, routines)

\* write_kind_label: the operations an access stands for.
Labels(edge) == edge.kinds \cup (IF "read" \in edge.modes THEN {"read"} ELSE {})

\* table_operations
Operations(routines, tables) ==
    LET edges == UNION {ToSet(r.edges) : r \in ToSet(routines)}
        used == {e.table : e \in {e \in edges : Wanted2(e.table, tables)}}
    IN  [t \in used |-> UNION {Labels(e) : e \in {e \in edges : e.table = t}}]

\* discriminator_for
IsDiscriminator(column) == column \in Discriminators

Value(column, value, source, confidence) ==
    [column |-> column, value |-> value, source |-> source, confidence |-> confidence]

\* The discriminator a clause names, by its column or as it is written.
Named3(clause) ==
    IF IsDiscriminator(clause.column) THEN {clause.column}
    ELSE {clause.written} \cap Discriminators

\* The values of one clause: each alone of =, or all of IN.
ValuesOf(clause) ==
    IF clause.op \notin {"=", "in"} THEN {}
    ELSE {Value(d, v, "branch", IF clause.op = "=" THEN "high" ELSE "medium") :
            d \in Named3(clause), v \in ToSet(clause.values)}

\* discriminator_values: the keys of CASE and DECODE, and what branches ask for; of one value
\* from one source the first entry.
DiscriminatorValues(routines, report) ==
    LET enums == {e.entry : e \in {e \in ToSet(report.enums) : IsDiscriminator(e.entry.column)}}
        keys == UNION {{Value(e.column, k, "decode", "medium") : k \in ToSet(e.keys)} : e \in enums}
        predicates == FlattenSeq([i \in DOMAIN routines |-> routines[i].predicates])
        clauses == FlattenSeq([i \in DOMAIN predicates |-> predicates[i].clauses])
        Add2(all, clause) ==
            all \cup {v \in ValuesOf(clause) : \A a \in all : a.column # v.column \/ a.value # v.value}
    IN  keys \cup FoldLeft(Add2, {}, clauses)

\* A filter, with the confidence of a hint.
ConfidenceOf(filter) == IF filter.table # NoTable THEN "high" ELSE "low"

\* hints_from_diagnostics, seed_hints_of_routine, seed_hints_of_package
SeedHints(routines, report, tables) ==
    [filters |-> {[at |-> f, confidence |-> ConfidenceOf(f.entry)] : f \in ToSet(report.filters)},
     equalities |-> ToSet(report.equalities),
     operations |-> Operations(routines, tables),
     values |-> DiscriminatorValues(routines, report),
     routines |-> {r.name : r \in ToSet(routines)}]

\* package_children, the last one first, or the routine itself.
RoutinesAskedFor(routines, asked) ==
    IF asked.sort = "routine" THEN SelectSeq(routines, LAMBDA r : r.name = asked.name)
    ELSE Reverse(SelectSeq(routines, LAMBDA r : r.package = asked.name))

=============================================================================
