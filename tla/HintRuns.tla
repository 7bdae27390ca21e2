------------------------------ MODULE HintRuns ------------------------------
(***************************************************************************)
(* One routine runs over tables which hold every row there can be, and     *)
(* what the statements take and the branches it goes into are held against *)
(* what `columns`, `predicates` and the hints for test data say of it.     *)
(*                                                                         *)
(* A statement takes one combination of rows that meets its conditions; of *)
(* a table there may be NULLs, and a condition may be neither true nor     *)
(* false. Queries of cursors name no variables, and LIKE compares with the *)
(* least value that is like its pattern.                                   *)
(***************************************************************************)
EXTENDS ColumnReports

CONSTANTS
    Null,         \* NULL
    Unknown,      \* neither true nor false
    TableRow,     \* the rows each table holds
    HintCase      \* routines, what is asked of them, and of which tables

VARIABLES
    asked,        \* the case, with the routine that runs
    told,         \* what is said of it
    run           \* what the routine has done

hintVars == <<asked, told, run>>

-----------------------------------------------------------------------------
(* Values and conditions. *)

\* Transforms: NVL has a value for NULL, and those which shorten make 3 and 2 alike.
Applied(fn, v, args) ==
    CASE fn = "nvl" -> IF v = Null THEN args[1] ELSE v
      [] fn # "nvl" /\ v = 3 -> 2
      [] OTHER -> v

Not3(b) == IF b = Unknown THEN Unknown ELSE ~b
And3(a, b) == IF FALSE \in {a, b} THEN FALSE ELSE IF Unknown \in {a, b} THEN Unknown ELSE TRUE
Or3(a, b) == Not3(And3(Not3(a), Not3(b)))

Relates(op, l, r) ==
    IF Null \in {l, r} THEN Unknown
    ELSE CASE op = "=" -> l = r
           [] op = "<>" -> l # r
           [] op = "<" -> l < r
           [] op = ">" -> l > r
           [] op = "<=" -> l <= r
           [] op = ">=" -> l >= r

\* LIKE, BETWEEN, IN and IS NULL of values.
Meets(test, v, values) ==
    CASE test = "like" -> Relates(">=", v, values[1])
      [] test = "between" -> And3(Relates(">=", v, values[1]), Relates("<=", v, values[2]))
      [] test = "in" -> FoldLeft(LAMBDA b, w : Or3(b, Relates("=", v, w)), FALSE, values)
      [] test = "isnull" -> v = Null

RECURSIVE Evaluated(_, _)

\* A name with a prefix is a column of a table in FROM or the field of a record.
Evaluated(expr, env) ==
    LET name == expr.name
        owners == {k \in DOMAIN env.rows : Last(name) \in DOMAIN env.rows[k]}
        values == [i \in DOMAIN expr.of |-> Evaluated(expr.of[i], env)]
        Key(i) == Evaluated(expr.keys[i], env)
        keys == {i \in DOMAIN expr.keys : values[1] # Null /\ Key(i) = values[1]}
    IN  CASE expr.is = "literal" -> expr.value
          [] expr.is \in {"column", "variable"} /\ Len(name) > 1 ->
                IF Head(name) \in DOMAIN env.rows THEN env.rows[Head(name)][Last(name)]
                ELSE env.records[Head(name)][Last(name)]
          [] expr.is \in {"column", "variable"} /\ Len(name) = 1 ->
                IF owners # {} THEN env.rows[CHOOSE k \in owners : TRUE][Head(name)]
                ELSE env.variables[Head(name)]
          [] expr.is = "call" -> Applied(expr.fn, values[1], Tail(values))
          [] expr.is = "compute" -> IF Null \in ToSet(values) THEN Null ELSE values[1] + values[2]
          [] expr.is = "case" -> IF keys = {} THEN Null ELSE Min(keys)

RECURSIVE Truth(_, _)

Truth(cond, env) ==
    CASE cond.cond = "and" -> And3(Truth(cond.left, env), Truth(cond.right, env))
      [] cond.cond = "or" -> Or3(Truth(cond.left, env), Truth(cond.right, env))
      [] cond.cond = "not" -> Not3(Truth(cond.of, env))
      [] cond.cond = "compare" -> Relates(cond.op, Evaluated(cond.left, env), Evaluated(cond.right, env))
      [] OTHER ->
            LET values == [i \in DOMAIN cond.with |-> Evaluated(cond.with[i], env)]
                met == Meets(cond.cond, Evaluated(cond.expr, env), values)
            IN  IF cond.negated THEN Not3(met) ELSE met

AreTrue(conds, env) == \A cond \in ToSet(conds) : Truth(cond, env) = TRUE

-----------------------------------------------------------------------------
(* Queries. A pick is one row of what a query takes, by the names in FROM,   *)
(* and the rows of tables it was made of.                                    *)

RowOf(table, row) == [table |-> table, row |-> row]

BothPicks(p, q) == [rows |-> p.rows @@ q.rows, used |-> p.used \cup q.used]

InEnv(env, p) == [env EXCEPT !.rows = p.rows]

RECURSIVE QueryPicks(_, _), RefPicks(_, _), NullRows(_)

NullRows(ref) ==
    CASE ref.ref = "table" ->
            (IF ref.alias = NoName THEN Last(ref.name) ELSE ref.alias) :>
                [c \in DOMAIN (CHOOSE row \in TableRow : TRUE) |-> Null]
      [] ref.ref = "join" -> NullRows(ref.left) @@ NullRows(ref.right)

RefPicks(ref, env) ==
    CASE ref.ref = "table" ->
            LET t == Last(ref.name)
                alias == IF ref.alias = NoName THEN t ELSE ref.alias
            IN  IF t \in DOMAIN env.ctes
                THEN {[rows |-> alias :> p.out, used |-> p.used] : p \in QueryPicks(env.ctes[t], env)}
                ELSE {[rows |-> alias :> row, used |-> {RowOf(t, row)}] : row \in TableRow}
      [] ref.ref = "query" ->
            {[rows |-> ref.alias :> p.out, used |-> p.used] : p \in QueryPicks(ref.query, env)}
      [] ref.ref = "join" ->
            LET lefts == RefPicks(ref.left, env)
                rights == RefPicks(ref.right, env)
                Matches(p) == {q \in rights : AreTrue(ref.on, InEnv(env, BothPicks(p, q)))}
                alone == {p \in lefts : ref.type = "left" /\ Matches(p) = {}}
            IN  UNION {{BothPicks(p, q) : q \in Matches(p)} : p \in lefts}
                \cup {[p EXCEPT !.rows = @ @@ NullRows(ref.right)] : p \in alone}

FromPicks(refs, where, env) ==
    LET All(picks, ref) == {BothPicks(p, q) : p \in picks, q \in RefPicks(ref, env)}
        all == FoldLeft(All, {[rows |-> <<>>, used |-> {}]}, refs)
    IN  {p \in all : AreTrue(where, InEnv(env, p))}

WithQueries(env, with) ==
    [env EXCEPT !.ctes = [n \in CteNames(with) |-> (CHOOSE c \in ToSet(with) : c.name = n).query] @@ @]

QueryPicks(query, env) ==
    LET inside == WithQueries(env, query.with)
        NameOf(t) == IF t.alias # NoName THEN t.alias ELSE IF IsColumn(t.expr) THEN Last(t.expr.name) ELSE NoName
        One(t, p) == IF t.star THEN FoldLeft(LAMBDA r, k : r @@ p.rows[k], <<>>, SetToSeq(DOMAIN p.rows))
                     ELSE NameOf(t) :> Evaluated(t.expr, InEnv(inside, p))
        Out(p) == FoldLeft(LAMBDA r, t : r @@ One(t, p), <<>>, query.targets)
        List(p) == [i \in DOMAIN query.targets |->
                        IF query.targets[i].star THEN Null
                        ELSE Evaluated(query.targets[i].expr, InEnv(inside, p))]
    IN  {[out |-> Out(p), list |-> List(p), used |-> p.used] : p \in FromPicks(query.from, query.where, inside)}
        \cup UNION {QueryPicks(q, inside) : q \in ToSet(query.union)}

-----------------------------------------------------------------------------
(* The routine. *)

TheRoutine == asked.routines[asked.runs]

StatementAt(i) == TheRoutine.body[i]

EnvOf == [rows |-> <<>>, ctes |-> <<>>, variables |-> run.variables, records |-> run.records]

NewRun ==
    [at |-> 1, over |-> FALSE, variables |-> <<>>, records |-> <<>>, fetched |-> <<>>, selected |-> <<>>,
     opened |-> <<>>, last |-> 0, taken |-> {}, done |-> {}, branch |-> 0]

\* Each routine of a case with its edges and predicates.
Examined(said, predicates) ==
    [i \in DOMAIN asked.routines |->
        [name |-> asked.routines[i].name, package |-> asked.routines[i].package,
         edges |-> AccessEdges(said[i]), predicates |-> predicates[i]]]

HintInit ==
    /\ asked \in HintCase
    /\ \E context \in {[i \in DOMAIN asked.routines |-> ContextOf(asked.routines[i])]} :
       \E said \in {[i \in DOMAIN asked.routines |-> Said(asked.routines[i], context[i])]},
          predicates \in {[i \in DOMAIN asked.routines |-> PredicatesOf(asked.routines[i], context[i])]} :
       \E routines \in {RoutinesAskedFor(Examined(said, predicates), asked.asked)} :
       \E report \in {Diagnostics(routines, asked.tables)} :
          told = [report |-> report, seeds |-> SeedHints(routines, report, asked.tables),
                  hints |-> said[asked.runs], predicates |-> predicates[asked.runs]]
    /\ run = NewRun

Goes == ~run.over /\ run.at \in DOMAIN TheRoutine.body

\* The next statement, and what it leaves behind of the one before.
Does(change) ==
    /\ run' = [change EXCEPT !.at = @ + 1]
    /\ UNCHANGED <<asked, told>>

Idle == [run EXCEPT !.taken = {}, !.done = {}, !.last = 0, !.branch = 0]

ReadsOf(used) == {<<u.table, "read">> : u \in used}

\* Variables the rows of which are no longer those of a SELECT INTO.
Forgotten(names) == [v \in DOMAIN run.selected \ names |-> run.selected[v]]

SetVariables(change, vars, values) ==
    [change EXCEPT !.variables = [v \in ToSet(vars) |-> values[Max({i \in DOMAIN vars : vars[i] = v})]] @@ @]

\* The rows a statement may take, with the values of its query.
PicksOfStatement(st) ==
    LET queries == CASE st.sql = "select" -> <<st.query>> [] st.sql = "insert" -> st.query [] OTHER -> <<>>
        env == IF st.sql = "select" THEN EnvOf ELSE WithQueries(EnvOf, st.with)
    IN  IF st.sql \in {"select", "insert"}
        THEN UNION {QueryPicks(q, env) : q \in ToSet(queries)}
        ELSE {[list |-> <<>>, used |-> p.used] : p \in FromPicks(st.tables \o st.from, st.where, env)}

DoneBy(st, used) ==
    CASE st.sql = "select" -> ReadsOf(used)
      [] st.sql = "insert" -> ReadsOf(used) \cup {<<Last(st.table), "insertselect">>}
      [] OTHER -> LET target == Last(st.tables[1].name)
                  IN  ReadsOf({u \in used : u.table # target}) \cup {<<target, st.sql>>}

TakeRows ==
    /\ Goes /\ StatementAt(run.at).pl = "sql"
    /\ \E st \in {StatementAt(run.at).statement} : \E p \in PicksOfStatement(st) :
          \E vars \in {IF st.sql = "select" THEN st.query.vars ELSE <<>>} :
             Does(SetVariables([Idle EXCEPT !.last = run.at, !.taken = p.used, !.done = DoneBy(st, p.used),
                                            !.selected = [v \in ToSet(vars) |-> p.used] @@ @],
                               vars, p.list))

\* INSERT of values, or a statement no rows meet the conditions of: SELECT INTO then raises.
TakeNone ==
    /\ Goes /\ StatementAt(run.at).pl = "sql"
    /\ \E st \in {StatementAt(run.at).statement} :
          /\ PicksOfStatement(st) = {}
          /\ \E raises \in {st.sql = "select" /\ st.query.vars # <<>>} :
             \E done \in {IF st.sql = "insert" /\ st.rows # <<>> THEN {<<Last(st.table), "insert">>} ELSE {}} :
                Does([Idle EXCEPT !.over = raises, !.last = run.at, !.done = done])

QueryOfCursor(cursor) ==
    IF cursor \in DOMAIN run.opened THEN run.opened[cursor]
    ELSE (CHOOSE d \in ToSet(TheRoutine.declares) : d.sort = "cursor" /\ d.name = cursor).query

\* Into a record, or into variables by their places.
FetchNext ==
    /\ Goes /\ StatementAt(run.at).pl = "fetch"
    /\ \E cursor \in {StatementAt(run.at).cursor}, into \in {StatementAt(run.at).into} :
       \E p \in QueryPicks(QueryOfCursor(cursor), EnvOf) :
          IF \E d \in ToSet(TheRoutine.declares) : d.sort = "record" /\ d.name = into[1]
          THEN Does([Idle EXCEPT !.records = (into[1] :> p.out) @@ @, !.fetched = (into[1] :> p.used) @@ @])
          ELSE Does(SetVariables([Idle EXCEPT !.selected = Forgotten(ToSet(into))], into, p.list))

OpenCursor ==
    /\ Goes /\ StatementAt(run.at).pl = "open"
    /\ Does([Idle EXCEPT !.opened = (StatementAt(run.at).cursor :> StatementAt(run.at).query) @@ @])

\* FOR over a query, of which one row is taken: its body follows.
LoopRecord ==
    /\ Goes /\ StatementAt(run.at).pl = "for"
    /\ \E p \in QueryPicks(StatementAt(run.at).query, EnvOf) : \E v \in {StatementAt(run.at).variable} :
          Does([Idle EXCEPT !.records = (v :> p.out) @@ @, !.fetched = (v :> p.used) @@ @])

AssignTo ==
    /\ Goes /\ StatementAt(run.at).pl = "assign"
    /\ \E v \in {StatementAt(run.at).name} :
          Does(SetVariables([Idle EXCEPT !.selected = Forgotten({v})], <<v>>,
                            <<Evaluated(StatementAt(run.at).expr, EnvOf)>>))

ConditionsAt(i) == IF StatementAt(i).pl = "if" THEN StatementAt(i).conditions ELSE Whens(StatementAt(i))

Tests(i) == StatementAt(i).pl \in {"if", "case"}

\* The first condition which is true, or none.
Branch ==
    /\ Goes /\ Tests(run.at)
    /\ \E conds \in {ConditionsAt(run.at)} :
       \E true \in {{k \in DOMAIN conds : Truth(conds[k], EnvOf) = TRUE}} :
          Does([Idle EXCEPT !.last = run.at, !.branch = IF true = {} THEN 0 ELSE Min(true)])

HintNext == TakeRows \/ TakeNone \/ FetchNext \/ OpenCursor \/ LoopRecord \/ AssignTo \/ Branch

-----------------------------------------------------------------------------
(* Properties. *)

\* The value of a filter's column, transformed.
Filtered(filter, row) ==
    IF filter.by = NoName THEN row[filter.column]
    ELSE Applied(filter.by.fn, row[filter.column], filter.by.args)

Satisfies(row, filter) ==
    LET v == Filtered(filter, row)
        op == filter.op
    IN  CASE op \in {"=", "<>", "<", ">", "<=", ">="} -> Relates(op, v, filter.values[1]) = TRUE
          [] op \in {"like", "between", "in", "isnull"} -> Meets(op, v, filter.values) = TRUE
          [] op = "notlike" -> Meets("like", v, filter.values) = FALSE
          [] op = "notisnull" -> v # Null

RECURSIVE RefsBelow(_), RefsIn(_)

\* The joins and tables of a query, with those of the queries below it.
RefsBelow(ref) ==
    CASE ref.ref = "join" -> <<ref>> \o RefsBelow(ref.left) \o RefsBelow(ref.right)
      [] ref.ref = "query" -> RefsIn(ref.query)
      [] OTHER -> <<ref>>

AllBelow(refs) == FlattenSeq([i \in DOMAIN refs |-> RefsBelow(refs[i])])

RefsIn(query) ==
    LET ctes == FlattenSeq([i \in DOMAIN query.with |-> RefsIn(query.with[i].query)])
    IN  AllBelow(query.from) \o ctes \o FlattenSeq([i \in DOMAIN query.union |-> RefsIn(query.union[i])])

StatementRefs(st) ==
    CASE st.sql = "select" -> RefsIn(st.query)
      [] st.sql = "insert" -> FlattenSeq([i \in DOMAIN st.query |-> RefsIn(st.query[i])])
      [] OTHER -> AllBelow(st.tables \o st.from)

\* Each table has one name in the statement, and each name is that of one table.
NamedOnce(st) ==
    LET tables == SelectSeq(StatementRefs(st), LAMBDA r : r.ref = "table")
        NameOf(r) == IF r.alias = NoName THEN Last(r.name) ELSE r.alias
    IN  \A i, j \in DOMAIN tables : i # j =>
            /\ Last(tables[i].name) # Last(tables[j].name)
            /\ NameOf(tables[i]) # NameOf(tables[j])

RECURSIVE Atoms(_)

Atoms(cond) == IF cond.cond = "and" THEN Atoms(cond.left) \cup Atoms(cond.right) ELSE {cond}

RECURSIVE WheresIn(_)

WheresIn(query) ==
    query.where \o FlattenSeq([i \in DOMAIN query.with |-> WheresIn(query.with[i].query)])
    \o FlattenSeq([i \in DOMAIN query.union |-> WheresIn(query.union[i])])

\* NOT IN and NOT BETWEEN, which the code takes for IN and BETWEEN.
NegatedTests(st) ==
    LET wheres == CASE st.sql = "select" -> WheresIn(st.query)
                    [] st.sql = "insert" -> FlattenSeq([i \in DOMAIN st.query |-> WheresIn(st.query[i])])
                    [] OTHER -> st.where
    IN  {a \in UNION {Atoms(w) : w \in ToSet(wheres)} : a.cond \in {"in", "between"} /\ a.negated}

\* Conditions of an outer join, which its left side need not meet.
OuterTests(st) ==
    UNION {UNION {Atoms(cond) : cond \in ToSet(r.on)} :
             r \in {r \in ToSet(StatementRefs(st)) : r.ref = "join" /\ r.type = "left"}}

Taken(table) == {u.row : u \in {u \in run.taken : u.table = table}}

FetchedRows(table) ==
    {u.row : u \in {u \in UNION {run.fetched[r] : r \in DOMAIN run.fetched} : u.table = table}}

HintsOfLast == (CHOOSE h \in ToSet(told.hints) : h.line = run.last).hints

\* The value of an expression of one column, for a row with it.
ValueFor(expr, row) ==
    LET name == CHOOSE n \in DistinctColumns(expr) : TRUE
    IN  Evaluated(expr, [rows |-> Head(name) :> row])

TookRows == run.taken # {} /\ NamedOnce(StatementAt(run.last).statement)

\* A side of an equality is of the statement, or of a row fetched before.
AnyRow(table) == IF Taken(table) # {} THEN Taken(table) ELSE FetchedRows(table)

FiltersHold ==
    \A f \in ToSet(HintsOfLast.filters) : \A row \in Taken(f.table) : Satisfies(row, f)

JoinsHold ==
    \A j \in ToSet(HintsOfLast.joins) : \A row \in Taken(j.left.table) :
        LET others == IF j.source = "record" THEN FetchedRows(j.right.table) ELSE Taken(j.right.table)
        IN  \A other \in others : row[j.left.column] = other[j.right.column]

EqualitiesHold ==
    \A q \in ToSet(HintsOfLast.equalities) :
        \A row \in AnyRow(q.left.side.table), other \in AnyRow(q.right.side.table) :
            ValueFor(q.left.expr, row) = ValueFor(q.right.expr, other)

\* The rows a statement takes meet every hard filter, join condition and equality
\* `columns` reports of it, whatever queries in WITH and FROM, joins, transforms and
\* records they come through: a row that does not is of no use to a test.  A statement with
\* conditions the code reads wrongly, NOT IN, NOT BETWEEN and those of outer joins, is left
\* out (process_expr_for_joins_and_filters), and one that names a table twice.
HintsAreNecessary ==
    TookRows /\ NegatedTests(StatementAt(run.last).statement) = {} =>
        /\ OuterTests(StatementAt(run.last).statement) = {} => FiltersHold
        /\ JoinsHold /\ EqualitiesHold

Entries(list) == {x.entry : x \in ToSet(list)}

\* Of every statement a routine has run the report of the routine, or of its package, has
\* all that is said of it, if it is asked of a table the statement uses, and the hints for
\* test data have what it did to each table among the operations: merging the edges of one
\* routine to one table loses nothing (merge_table_access_edges, collect_diagnostics,
\* table_operations).
ReportsAreWhole ==
    LET said == {h \in ToSet(told.hints) : h.line = run.last}
        Used(h) == {Last(a.name) : a \in ToSet(h.accesses)}
        wanted == {h \in said : Used(h) # {} /\ (asked.tables = {} \/ Used(h) \cap asked.tables # {})}
    IN  /\ \A h \in wanted :
            /\ ToSet(h.hints.filters) \subseteq Entries(told.report.filters)
            /\ ToSet(h.hints.joins) \subseteq Entries(told.report.joins)
            /\ ToSet(h.hints.equalities) \subseteq Entries(told.report.equalities)
            /\ ToSet(h.hints.enums) \subseteq Entries(told.report.enums)
        /\ \A d \in run.done : Wanted2(d[1], asked.tables) =>
            d[1] \in DOMAIN told.seeds.operations /\ d[2] \in told.seeds.operations[d[1]]

RECURSIVE NamesIn(_)

NamesIn(cond) ==
    LET Of2(expr) == IF expr.is \in {"column", "variable"} THEN {expr.name}
                     ELSE IF expr.is = "call" THEN {Transformed(expr).name} ELSE {}
    IN  CASE cond.cond = "and" -> NamesIn(cond.left) \cup NamesIn(cond.right)
          [] cond.cond = "compare" -> Of2(cond.left) \cup Of2(cond.right)
          [] OTHER -> Of2(cond.expr)

\* The conditions before those of statement i.
ConditionsBefore(i) ==
    FoldLeft(LAMBDA n, k : n + (IF Tests(k) THEN Len(ConditionsAt(k)) ELSE 0), 0, [k \in 1 .. i - 1 |-> k])

Met(clauses, table, rows) == \E u \in rows : u.table = table /\ \A c \in clauses : Satisfies(u.row, c)

\* The value of a discriminator column some row has is listed.
IsListed(clause, rows) ==
    clause.op \in {"=", "in"} /\ clause.by = NoName /\ clause.column \in Discriminators =>
        \E u \in rows : \E v \in told.seeds.values :
            u.table = clause.table /\ v.column = clause.column /\ v.value = u.row[clause.column]

\* The conditions of which a column and a value say all: AND of equalities with no transform.
IsPlain(cond) ==
    \A a \in Atoms(cond) : a.cond = "compare" /\ a.op = "=" /\ ~IsTransform(a.left) /\ ~IsTransform(a.right)

\* Some row meets the filters of a hint and, of those whose condition is plain, has the values
\* it says to set.
IsOfHint(hint, cond, rows) ==
    \E u \in rows :
        /\ u.table = hint.table
        /\ \A f \in ToSet(hint.filters) : Satisfies(u.row, f)
        /\ IsPlain(cond) => \A s \in ToSet(hint.set) : u.row[s.column] = s.value

\* Whatever branch a routine goes into: if `predicates` says with high confidence what rows
\* of a table it takes, the record it has fetched is one of them; if it says so with medium
\* confidence, the row the variables were selected from is, if they have not changed
\* since; and of a parameter table that row meets the filters of the hint and, where the
\* condition is made of equalities, has the values the hint says to set (push_condition,
\* condition_clauses, record_select_into). Of another comparison or a transform the hint
\* keeps the value alone, which a row that leads there need not have: nothing is asked of
\* it. The value of a discriminator that led there is among its values
\* (discriminator_values).
BranchesAreExplained ==
    run.branch # 0 =>
        LET predicate == told.predicates[ConditionsBefore(run.last) + run.branch]
            names == NamesIn(ConditionsAt(run.last)[run.branch])
            clauses == ToSet(predicate.clauses)
            fetched == UNION {run.fetched[Head(n)] : n \in {n \in names : Len(n) > 1}}
            isSelected == \A n \in names : Last(n) \in DOMAIN run.selected
            selected == UNION {run.selected[Last(n)] : n \in names}
        IN  CASE predicate.confidence = "high" ->
                    (\A n \in names : Len(n) > 1) =>
                        /\ \A t \in {c.table : c \in clauses} : Met(clauses, t, fetched)
                        /\ \A c \in clauses : IsListed(c, fetched)
              [] predicate.confidence = "medium" ->
                    isSelected => \A t \in {c.table : c \in clauses} : Met(clauses, t, selected)
              [] OTHER ->
                    isSelected => \A h \in ToSet(predicate.hint) :
                        IsOfHint(h, ConditionsAt(run.last)[run.branch], selected)

=============================================================================
