---------------------------- MODULE HardFilters -----------------------------
(***************************************************************************)
(* What the conditions of a SQL statement ask of the rows it takes         *)
(* (ColumnAccessExtractor of src/parser/extractor.rs): columns compared    *)
(* with literals, which are hard filters, columns of two tables which are  *)
(* equal, and the keys of CASE and DECODE.                                 *)
(*                                                                         *)
(* A condition has its sort, `cond`, and its parts; NOT around one is a    *)
(* condition of its own, but LIKE, BETWEEN, IN and IS NULL may be negated  *)
(* themselves. An expression is besides those of ColumnAccess a literal, a *)
(* call, or a CASE with its keys.                                          *)
(***************************************************************************)
EXTENDS ColumnAccess

NewHints == NewColumns @@ [filters |-> <<>>, joins |-> <<>>, equalities |-> <<>>, enums |-> <<>>]

IsLiteral(expr) == expr.is = "literal"

IsColumn(expr) == expr.is = "column"

\* The functions which are pure transforms of one column.
Transforms == {"substr", "nvl", "trim", "upper", "lower"}

\* column_transform_of: the one column among literals.
IsTransform(expr) ==
    /\ expr.is = "call" /\ expr.fn \in Transforms
    /\ Cardinality({i \in DOMAIN expr.of : ~IsLiteral(expr.of[i])}) = 1
    /\ \A e \in ToSet(expr.of) : e.is \in {"literal", "column", "variable"}

Transformed(expr) == SelectSeq(expr.of, LAMBDA e : ~IsLiteral(e))[1]

\* FilterTransform: the function and its other arguments.
TransformOf(expr) == [fn |-> expr.fn, args |-> [i \in DOMAIN SelectSeq(expr.of, IsLiteral) |->
                                                   SelectSeq(expr.of, IsLiteral)[i].value]]

RECURSIVE DistinctColumns(_)

\* collect_distinct_column_refs
DistinctColumns(expr) ==
    CASE IsColumn(expr) -> {expr.name}
      [] expr.is \in {"compute", "call"} -> UNION {DistinctColumns(e) : e \in ToSet(expr.of)}
      [] OTHER -> {}

\* resolve_record_field: a field whose table is known.
FieldOf(x, name) ==
    IF Len(name) = 1 THEN {} ELSE {f \in RecordField(x, Head(name), Last(name)) : f.table # NoTable}

-----------------------------------------------------------------------------
(* Filters. *)

\* The table of a column which is written with an alias.
OwnerOf(x, name) == IF Len(name) > 1 THEN TableAt(x, Head(name)) ELSE NoTable

\* add_hard_filter_with_transform; `by` is the transform or NoName.
AddFilter(x, name, op, values, by) ==
    [x EXCEPT !.filters = Append(@, [table |-> OwnerOf(x, name), column |-> Last(name), op |-> op,
                                     values |-> values, by |-> by])]

\* Mutant: a literal on the left of < is taken for one on the right.
EitherSide(op) == TRUE

\* A literal may be on the left of these alone.
EitherSideOf(op) == op \in {"=", "<>"}

\* What is compared with what: a column, or else a transform of one, on the left or else on
\* the right.
Comparison(left, right, op) ==
    CASE IsColumn(left) -> <<left, right>>
      [] ~IsColumn(left) /\ IsColumn(right) /\ EitherSideOf(op) -> <<right, left>>
      [] OTHER ->
            IF IsTransform(left) THEN <<left, right>>
            ELSE IF IsTransform(right) /\ EitherSideOf(op) THEN <<right, left>> ELSE <<>>

AddComparison(x, cond) ==
    LET sides == Comparison(cond.left, cond.right, cond.op)
        of == sides[1]
    IN  CASE sides = <<>> \/ ~IsLiteral(sides[2]) -> x
          [] IsColumn(of) -> AddFilter(x, of.name, cond.op, <<sides[2].value>>, NoName)
          [] OTHER -> AddFilter(x, Transformed(of).name, cond.op, <<sides[2].value>>, TransformOf(of))

\* Expr::Like, Between, InList and IsNull: of BETWEEN and IN it does not matter whether they
\* are negated.
AddTest(x, cond) ==
    LET op == IF cond.negated /\ cond.cond \in {"like", "isnull"} THEN "not" \o cond.cond ELSE cond.cond
    IN  IF ~IsColumn(cond.expr) \/ \E e \in ToSet(cond.with) : ~IsLiteral(e) THEN x
        ELSE AddFilter(x, cond.expr.name, op, [i \in DOMAIN cond.with |-> cond.with[i].value], NoName)

-----------------------------------------------------------------------------
(* Equalities. *)

Joined2(left, right, type, source) ==
    [left |-> left, right |-> right, type |-> type, source |-> source]

\* extract_join_condition, one way round: both tables are known, and the other way round is
\* not there.
AddOneJoin(x, left, right, type, source) ==
    LET Side(name) == ColumnOf(OwnerOf(x, name), Last(name))
        isThere == \E j \in ToSet(x.joins) : j.left = Side(right) /\ j.right = Side(left)
    IN  IF isThere \/ NoTable \in {Side(left).table, Side(right).table} THEN x
        ELSE [x EXCEPT !.joins = Append(@, Joined2(Side(left), Side(right), type, source))]

\* extract_record_field_join: a field of a record and a column of a table.
AddRecordJoin(x, left, right, type) ==
    LET isField == FieldOf(x, left) # {}
        field == IF isField THEN FieldOf(x, left) ELSE FieldOf(x, right)
        plain == IF isField THEN right ELSE left
        column == ColumnOf(OwnerOf(x, plain), Last(plain))
    IN  IF \/ isField = (FieldOf(x, right) # {})
           \/ column.table = NoTable
           \/ \E j \in ToSet(x.joins) : {{j.left, j.right}} = {{column, f} : f \in field}
        THEN x
        ELSE [x EXCEPT !.joins = Append(@, Joined2(column, CHOOSE f \in field : TRUE, type, "record"))]

\* equality_side: the only column of an expression, with its table.
SideOf(x, expr) ==
    LET name == CHOOSE name \in DistinctColumns(expr) : TRUE
        owner == OwnerOf(x, name)
    IN  CASE owner # NoTable -> ColumnOf(owner, Last(name))
          [] owner = NoTable /\ FieldOf(x, name) # {} -> CHOOSE f \in FieldOf(x, name) : TRUE
          [] OTHER -> ColumnOf(IF Len(name) > 2 THEN name[Len(name) - 1] ELSE NoTable, Last(name))

\* extract_cross_table_equality: not of one row with itself; plain columns are left out.
AddEquality(x, left, right) ==
    LET Prefix2(expr) == {SubSeq(n, 1, Len(n) - 1) : n \in {n \in DistinctColumns(expr) : Len(n) > 1}}
        equality == [left |-> [side |-> SideOf(x, left), expr |-> left],
                     right |-> [side |-> SideOf(x, right), expr |-> right]]
    IN  IF \/ \E e \in {left, right} : Cardinality(DistinctColumns(e)) # 1
           \/ NoTable \in {SideOf(x, left).table, SideOf(x, right).table}
           \/ Prefix2(left) # {} /\ Prefix2(left) = Prefix2(right)
           \/ equality \in ToSet(x.equalities)
        THEN x
        ELSE [x EXCEPT !.equalities = Append(@, equality)]

\* Of two columns: a join of tables, either way round, or of a record and a table.
AddJoin(x, left, right, type, source) ==
    AddRecordJoin(AddOneJoin(AddOneJoin(x, left, right, type, source), right, left, type, source),
                  left, right, type)

\* The operator =, between two columns and between anything else.
AddEquation(x, cond, type, source) ==
    IF IsColumn(cond.left) /\ IsColumn(cond.right)
    THEN AddJoin(x, cond.left.name, cond.right.name, type, source)
    ELSE AddComparison(AddEquality(x, cond.left, cond.right), cond)

RECURSIVE OfCondition(_, _, _, _)

\* process_expr_for_joins_and_filters: below AND, not below OR and NOT.
OfCondition(x, cond, type, source) ==
    CASE cond.cond = "and" ->
            OfCondition(OfCondition(x, cond.left, type, source), cond.right, type, source)
      [] cond.cond = "compare" /\ cond.op = "=" -> AddEquation(x, cond, type, source)
      [] cond.cond = "compare" /\ cond.op # "=" -> AddComparison(x, cond)
      [] cond.cond \in {"like", "between", "in", "isnull"} -> AddTest(x, cond)
      [] OTHER -> x

OfConditions(x, conds, type, source) ==
    FoldLeft(LAMBDA y, cond : OfCondition(y, cond, type, source), x, conds)

-----------------------------------------------------------------------------
(* Keys. *)

RECURSIVE EnumsIn(_)

\* extract_enum_from_case, extract_enum_from_decode: the keys of a column which are literals.
EnumsIn(expr) ==
    CASE expr.is = "case" ->
            IF ~IsColumn(expr.of[1]) THEN <<>>
            ELSE LET keys == SelectSeq(expr.keys, IsLiteral)
                 IN  <<[column |-> Last(expr.of[1].name), prefix |-> Front(expr.of[1].name),
                        keys |-> [i \in DOMAIN keys |-> keys[i].value], rest |-> expr.rest]>>
      [] expr.is \in {"compute", "call"} -> FlattenSeq([i \in DOMAIN expr.of |-> EnumsIn(expr.of[i])])
      [] OTHER -> <<>>

\* visit_expr
WithEnums(x, exprs) ==
    [x EXCEPT !.enums = @ \o FlattenSeq([i \in DOMAIN exprs |-> EnumsIn(exprs[i])])]

-----------------------------------------------------------------------------
(* Statements. *)

RECURSIVE FromHints(_, _)

\* collect_aliases_from_table_refs: the condition of a join follows its two sides.
FromHints(x, ref) ==
    IF ref.ref # "join" THEN AddAliases(x, ref)
    ELSE OfConditions(FromHints(FromHints(x, ref.left), ref.right), ref.on, ref.type, "on")

RECURSIVE WalkedIn(_), WalkedOf(_)

\* The walk goes on to the queries in WITH, in FROM and after UNION, and not to those in
\* expressions.
WalkedIn(query) ==
    <<query>> \o FlattenSeq([i \in DOMAIN query.with |-> WalkedIn(query.with[i].query)])
    \o FlattenSeq([i \in DOMAIN query.from |-> WalkedOf(query.from[i])])
    \o FlattenSeq([i \in DOMAIN query.union |-> WalkedIn(query.union[i])])

WalkedOf(ref) ==
    CASE ref.ref = "join" -> WalkedOf(ref.left) \o WalkedOf(ref.right)
      [] ref.ref = "query" -> WalkedIn(ref.query)
      [] OTHER -> <<>>

\* visit_select: the names of WITH are in scope for FROM and WHERE alone.
QueryHints(x, query) ==
    LET targets == SelectSeq(query.targets, LAMBDA t : ~t.star)
        from == FoldLeft(FromHints, InScope(x, query.with), query.from)
    IN  WithEnums(OutOfScope(OfConditions(from, query.where, "inner", "where")),
                  [i \in DOMAIN targets |-> targets[i].expr])

\* visit_insert, before its query: the aliases of all branches of a UNION, with or without
\* a list of columns.
InsertAliases(x, st) ==
    LET Aliases(y, query) ==
            FoldLeft(LAMBDA z, branch : FoldLeft(FromHints, z, branch.from), y, Branches(query))
    IN  OutOfScope(FoldLeft(Aliases, InScope(x, st.with), st.query))

\* visit_update
UpdateHints(x, st) ==
    LET refs == SelectSeq(st.tables \o st.from, LAMBDA r : r.ref = "table")
        aliased == FoldLeft(AddAlias, InScope(x, st.with), refs)
        where == OutOfScope(OfConditions(aliased, st.where, "inner", "where"))
    IN  WithEnums(where, [i \in DOMAIN st.assignments |-> st.assignments[i].value])

\* What is said of a statement, in the context of its routine: of DELETE nothing.
HintsIn(st, context) ==
    LET x == [NewHints EXCEPT !.cursors = context.cursors, !.records = context.records]
        queries == IF st.sql = "select" THEN <<st.query>> ELSE st.query
        all == FlattenSeq([i \in DOMAIN queries |-> WalkedIn(queries[i])])
    IN  CASE st.sql \in {"select", "insert"} ->
                FoldLeft(QueryHints, IF st.sql = "insert" THEN InsertAliases(x, st) ELSE x, all)
          [] st.sql = "update" -> UpdateHints(x, st)
          [] OTHER -> x

=============================================================================
