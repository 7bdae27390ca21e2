----------------------------- MODULE MCRoutines -----------------------------
(***************************************************************************)
(* Routines run beside what is said of them: one by itself, for its calls, *)
(* two in a database, for the flow of data and the locks, or one over      *)
(* tables with every row, for its conditions.                              *)
(***************************************************************************)
EXTENDS PlRuns, DataRuns, HintRuns

-----------------------------------------------------------------------------
(* For PlRuns: routines of a few statements over two variables, three        *)
(* routines they may call and a nested routine.                              *)

\* Expressions.
Literal(text) == [is |-> "text", text |-> text]
OfVariable(name) == [is |-> "variable", name |-> name]
Joined(left, right) == [is |-> "join", of |-> <<left, right>>]
OneOf(exprs) == [is |-> "case", of |-> exprs]
Function(name, arguments) ==
    [is |-> "function", call |-> [name |-> <<name>>, sort |-> "expression"], of |-> arguments]
Other == [is |-> "other", of |-> <<>>]

CallTo(name) == Literal(<<"call", name>>)
Prefix == Literal(<<"call">>)
Name(name) == Literal(<<name>>)

\* Statements.
Assigning(name, expr) == [pl |-> "assign", name |-> name, expr |-> expr]
Executing(expr) == [pl |-> "execute", expr |-> expr]
Testing(conditions, branches) == [pl |-> "if", conditions |-> conditions, branches |-> branches]
Looping(body) == [pl |-> "loop", expr |-> Other, branches |-> <<body>>]
Choosing(branches) == [pl |-> "case", expr |-> Other, branches |-> branches]
Evaluating(expr) == [pl |-> "eval", expr |-> expr]
Calling(name) == [pl |-> "call", call |-> [name |-> <<name>>, sort |-> "call"]]
Invoking(name) == [pl |-> "invoke", call |-> [name |-> <<name>>, sort |-> "call"]]
SqlText(text) == [pl |-> "sql", text |-> text]
Beginning(block) == [pl |-> "block", block |-> block]

Naming(sort, name) ==
    [sort |-> sort, name |-> name, default |-> <<>>, parameters |-> <<>>, declares |-> <<>>,
     body |-> <<>>, handlers |-> <<>>]
Variable(name, default) == [Naming("variable", name) EXCEPT !.default = default]
Nesting(name, declares, body) ==
    [Naming("nested", name) EXCEPT !.declares = declares, !.body = body]

BlockOf(declares, body, handlers) ==
    [parameters |-> <<>>, declares |-> declares, body |-> body, handlers |-> handlers]

V(expr) == Assigning("v", expr)
W(expr) == Assigning("w", expr)
RunV == Executing(OfVariable("v"))

\* Ways of texts: to v over w, a branch, a CASE or a concatenation, and to EXECUTE; of some
\* there are too many.
Steps ==
    {V(CallTo("a")), V(OfVariable("w")), W(CallTo("b")), W(Name("b")), V(Joined(Prefix, OfVariable("w"))),
     V(OneOf(<<CallTo("a"), CallTo("b")>>)), W(OneOf(<<Name("a"), Name("b"), Name("c")>>)), V(Other),
     Testing(<<Other>>, <<<<V(CallTo("a"))>>, <<V(CallTo("c"))>>>>),
     Testing(<<Other>>, <<<<W(CallTo("c")), V(OfVariable("w"))>>, <<>>>>),
     Testing(<<Other, Function("f", <<>>)>>, <<<<W(Name("a"))>>, <<RunV>>, <<W(Name("c"))>>>>)}

Flows ==
    {BlockOf(<<Variable("v", <<v>>), Variable("w", <<w>>)>>, <<s, t, RunV>>, <<>>) :
        v \in {CallTo("c"), Other}, w \in {Name("a"), CallTo("a")}, s \in Steps, t \in Steps}

\* Names in scope: those of variables and types of the routine, of a nested one and of an
\* inner block.
NestedN(inner) ==
    Nesting("n", inner, <<Evaluating(Function("f", <<Function("g", <<>>)>>)), RunV>>)

Uses ==
    {Evaluating(Function("f", <<OfVariable("v")>>)), V(CallTo("b")), Invoking("g"), Invoking("n"), Calling("f"),
     Beginning(BlockOf(<<Naming("variable", "g")>>, <<Evaluating(Function("g", <<>>))>>, <<>>)),
     Looping(<<RunV, Invoking("h")>>), Choosing(<<<<Invoking("f")>>, <<RunV>>>>),
     SqlText(<<"call", "h">>), SqlText(<<"commit">>)}

Scopes ==
    {BlockOf(<<Variable("v", <<CallTo("a")>>), Naming("variable", "w"), NestedN(inner)>>,
           <<s, t>>, handlers) :
        inner \in {<<>>, <<Naming("variable", "f")>>, <<Naming("type", "g")>>,
                   <<Naming("variable", "g"), Variable("v", <<CallTo("b")>>)>>},
        s \in Uses, t \in Uses, handlers \in {<<>>, <<<<Invoking("h")>>>>}}

TheOpaque == <<"an expression">>

AllRoutines == Flows \cup Scopes

\* Those with no branches: only concatenations may have too many texts.
InARow == {r \in Flows : \A i \in DOMAIN r.body : r.body[i].pl # "if"}

-----------------------------------------------------------------------------
(* For DataRuns: one routine fills the table y from x, in all the ways a     *)
(* statement can say so, and one fills z from y or locks what the first uses.*)

NoBuiltins == {}

Exp(is, name, of, query) == [is |-> is, name |-> name, of |-> of, query |-> query]

Col(column) == Exp("column", <<column>>, <<>>, <<>>)
Dot(alias, column) == Exp("column", <<alias, column>>, <<>>, <<>>)
Var(name) == Exp("variable", <<name>>, <<>>, <<>>)
Sum2(a, b) == Exp("compute", <<>>, <<a, b>>, <<>>)
Sub(query) == Exp("query", <<>>, <<>>, <<query>>)
In(expr, query) == Exp("in", <<>>, <<expr>>, <<query>>)

Plain(expr) == [star |-> FALSE, expr |-> expr, alias |-> NoName]
Named2(expr, alias) == [star |-> FALSE, expr |-> expr, alias |-> alias]

Tab(name) == [ref |-> "table", name |-> <<name>>, alias |-> NoName]
As(name, alias) == [ref |-> "table", name |-> <<name>>, alias |-> alias]
Join(left, right) == [ref |-> "join", left |-> left, right |-> right]
Derived(query, alias) == [ref |-> "query", query |-> query, alias |-> alias]

Query(targets, from) ==
    [with |-> <<>>, targets |-> targets, from |-> from, rest |-> <<>>, union |-> <<>>, into |-> <<>>,
     lock |-> <<>>, vars |-> <<>>]
Cte(name, query) == [name |-> name, query |-> query]

Select2(query) == [sql |-> "select", query |-> query, with |-> <<>>]
Insert(table, columns, query) ==
    [sql |-> "insert", with |-> <<>>, table |-> <<table>>, columns |-> columns, query |-> query,
     rows |-> <<>>, record |-> <<>>]
Values(table, columns, row) == [Insert(table, columns, <<>>) EXCEPT !.rows = <<row>>]
OfRecord(table, columns, record) == [Insert(table, columns, <<>>) EXCEPT !.record = <<record>>]
Update(table, assignments, from, rest) ==
    [sql |-> "update", with |-> <<>>, tables |-> <<Tab(table)>>, from |-> from,
     assignments |-> assignments, rest |-> rest]
Delete(table, rest) == [Update(table, <<>>, <<>>, rest) EXCEPT !.sql = "delete"]
Set(columns, value) == [columns |-> columns, value |-> value]
Merge(target, source, clauses) ==
    [sql |-> "merge", with |-> <<>>, target |-> target, source |-> source, clauses |-> clauses]
Clause(action, columns, values) == [action |-> action, columns |-> columns, values |-> values]
Lock(table, mode) == [sql |-> "locktable", with |-> <<>>, names |-> <<<<table>>>>, mode |-> mode]
Utility(sql, table) == [sql |-> sql, with |-> <<>>, names |-> <<<<table>>>>]
InsertAll(targets, query) == [sql |-> "insertall", with |-> <<>>, targets |-> targets, source |-> query]

Sql1(statement) == [pl |-> "sql", statement |-> statement]
Sqls(statements) == [i \in DOMAIN statements |-> Sql1(statements[i])]
Fetch(cursor, into) == [pl |-> "fetch", cursor |-> cursor, into |-> into]
Cursor(name, query) == [sort |-> "cursor", name |-> name, query |-> query]
RecordOf(name, like) == [sort |-> "record", name |-> name, like |-> like]

Body2(declares, body) == [declares |-> declares, body |-> body]
OfSql2(statements) == Body2(<<>>, Sqls(statements))

-----------------------------------------------------------------------------
(* From x to y. *)

AB == <<Plain(Col("a")), Plain(Col("b"))>>

FromX == Query(<<Plain(Col("b"))>>, <<Tab("x")>>)

BothOfX == Query(AB, <<Tab("x")>>)

Exists(query, table) == [query EXCEPT !.rest = <<In(Col("b"), Query(<<Plain(Dot(table, "b"))>>, <<Tab(table)>>))>>]

Keyed == Query(<<Named2(Dot("k", "a"), "m"), Named2(Dot("k", "b"), "n")>>, <<As("x", "k")>>)

WithKeys2(query) == [query EXCEPT !.with = <<Cte("w", Keyed)>>]

Fills1 ==
    {OfSql2(<<Insert("y", <<"a">>, <<FromX>>)>>),
     OfSql2(<<Insert("y", <<"b", "a">>, <<Exists(BothOfX, "u")>>)>>),
     OfSql2(<<Insert("y", <<>>, <<BothOfX>>)>>),
     OfSql2(<<Insert("y", <<"a">>, <<[Query(<<Plain(Col("a"))>>, <<Tab("u")>>) EXCEPT !.union = <<FromX>>]>>)>>),
     OfSql2(<<Insert("y", <<"a">>, <<Query(<<Plain(Sum2(Dot("k", "a"), Dot("l", "b")))>>,
                                          <<Join(As("u", "k"), As("x", "l"))>>)>>)>>),
     OfSql2(<<Insert("u", <<"a">>, <<FromX>>),
              Update("y", <<Set(<<"b">>, Dot("u", "a"))>>, <<Tab("u")>>, <<>>)>>),
     OfSql2(<<Update("y", <<Set(<<"b", "a">>, Sub(BothOfX))>>, <<>>, <<>>)>>),
     OfSql2(<<Merge(Tab("y"), As("x", "k"),
                    <<Clause("update", <<"a">>, <<Dot("k", "b")>>),
                      Clause("insert", <<"b", "a">>, <<Dot("k", "b"), Dot("k", "a")>>)>>)>>),
     OfSql2(<<Insert("y", <<"a">>, <<Query(<<Plain(Col("p"))>>, <<Tab("v")>>)>>)>>)}

\* By way of queries in WITH and FROM, and of values of expressions.
Indirect ==
    {OfSql2(<<Insert("y", <<"a">>, <<WithKeys2(Query(<<Plain(Col("m"))>>, <<Tab("w")>>))>>)>>),
     OfSql2(<<Insert("y", <<"b">>, <<WithKeys2(Query(<<Plain(Dot("d", "n"))>>,
                <<Derived([Query(<<Plain(Col("n"))>>, <<Tab("w"), Tab("e")>>) EXCEPT
                             !.with = <<Cte("e", Query(AB, <<Tab("u")>>))>>], "d")>>))>>)>>),
     OfSql2(<<[Update("y", <<Set(<<"a">>, Dot("w", "m"))>>, <<Tab("w")>>, <<>>) EXCEPT
                 !.with = <<Cte("w", Keyed)>>]>>),
     OfSql2(<<Merge(Tab("y"), Derived(Keyed, "d"), <<Clause("insert", <<"a">>, <<Dot("d", "n")>>)>>)>>),
     OfSql2(<<Insert("y", <<"a">>, <<Query(<<Plain(Sum2(Col("a"), Sub(FromX)))>>, <<Tab("u")>>)>>)>>),
     OfSql2(<<InsertAll(<<[table |-> <<"u">>, columns |-> <<"a", "b">>],
                          [table |-> <<"y">>, columns |-> <<"b", "a">>]>>, BothOfX)>>)}

\* By cursors and records.
Cursors ==
    LET c == Cursor("c", BothOfX)
    IN  {Body2(<<c>>, <<Fetch("c", <<"v1", "v2">>),
                        Sql1(Values("y", <<"a", "b">>, <<Var("v2"), Var("v1")>>))>>),
         Body2(<<c, RecordOf("r", "c")>>, <<Fetch("c", <<"r">>),
                                          Sql1(Update("y", <<Set(<<"a">>, Dot("r", "b"))>>, <<>>, <<>>))>>),
         Body2(<<c, RecordOf("r", "c")>>, <<Fetch("c", <<"r">>), Sql1(OfRecord("y", <<"b", "a">>, "r"))>>),
         Body2(<<>>, <<[pl |-> "for", variable |-> "r", query |-> BothOfX],
                       Sql1(Values("y", <<"a">>, <<Dot("r", "b")>>))>>),
         Body2(<<>>, <<[pl |-> "open", cursor |-> "o", query |-> BothOfX],
                       Fetch("o", <<"v1", "v2">>), Sql1(Values("y", <<"a">>, <<Var("v2")>>))>>)}

\* By variables which are assigned, or a SELECT is INTO.
Assigned2 ==
    {Body2(<<Cursor("c", BothOfX)>>,
           <<Fetch("c", <<"v1", "v2">>), [pl |-> "assign", name |-> "v", expr |-> Var("v2")],
             Sql1(Values("y", <<"a">>, <<Var("v")>>))>>),
     OfSql2(<<Select2([BothOfX EXCEPT !.vars = <<"v1", "v2">>]), Values("y", <<"b">>, <<Var("v1")>>)>>)}

-----------------------------------------------------------------------------
(* From y to z, and locks. *)

FromY == Insert("z", <<"b">>, <<Query(<<Plain(Col("a"))>>, <<Tab("y")>>)>>)

Seconds ==
    {OfSql2(<<FromY>>),
     OfSql2(<<Update("z", <<Set(<<"a">>, Dot("k", "b"))>>, <<As("y", "k")>>,
                     <<In(Col("a"), FromX)>>)>>),
     OfSql2(<<Delete("x", <<Col("a")>>), Lock("y", "share"), FromY>>),
     OfSql2(<<Lock("x", "sharerowexclusive"), FromY, Lock("y", "exclusive")>>),
     OfSql2(<<Select2([Query(AB, <<Tab("y")>>) EXCEPT !.lock = <<<<>>>>]), Utility("truncate", "x")>>),
     OfSql2(<<Lock("y", "shareupdateexclusive"), Lock("x", "exclusive")>>),
     OfSql2(<<Lock("z", "shareupdateexclusive"), FromY>>),
     OfSql2(<<Utility("analyze", "y"), Utility("createindex", "y")>>)}

\* Routines which lock before they fill, or after it: then each session may wait for the
\* other one.
Lockers ==
    {OfSql2(<<Insert("y", <<"a">>, <<FromX>>), Lock("x", "share")>>),
     OfSql2(<<Select2([FromX EXCEPT !.lock = <<<<>>>>]), Insert("y", <<"a">>, <<FromX>>)>>),
     OfSql2(<<Lock("y", "shareupdateexclusive"), Insert("y", <<"a">>, <<FromX>>)>>),
     OfSql2(<<Lock("z", "shareupdateexclusive"), Insert("y", <<"a">>, <<FromX>>)>>),
     OfSql2(<<Lock("z", "rowshare"), Lock("y", "accessshare"), Insert("y", <<"a">>, <<FromX>>)>>)}

TableOf(name) == [name |-> <<name>>, columns |-> <<"a", "b">>]

View2 ==
    [name |-> <<"v">>, columns |-> <<"p">>, query |-> Query(<<Plain(Dot("k", "b"))>>, <<As("x", "k")>>)]

Database(first, second) ==
    [tables |-> <<TableOf("x"), TableOf("y"), TableOf("z"), TableOf("u")>>, views |-> <<View2>>,
     routines |-> <<[name |-> <<"fill">>] @@ first, [name |-> <<"next">>] @@ second>>]

OnlyAssigned == {Database(x, OfSql2(<<FromY>>)) : x \in {b \in Assigned2 : b.declares # <<>>}}

Databases == {Database(x, y) : x \in Fills1 \cup Indirect \cup Cursors \cup Assigned2 \cup Lockers, y \in Seconds}

-----------------------------------------------------------------------------
(* For HintRuns: pairs of statements with all sorts of conditions, and       *)
(* routines which fetch or select and then test what they have.              *)

\* Names, values and expressions.
Part(is, name, of) ==
    [is |-> is, name |-> name, of |-> of, query |-> <<>>, value |-> 0, fn |-> NoName, keys |-> <<>>, rest |-> FALSE]
Called(name) == Part("column", name, <<>>)
Its(alias, column) == Called(<<alias, column>>)
Num(value) == [Part("literal", <<>>, <<>>) EXCEPT !.value = value]
Apply(fn, args) == [Part("call", <<>>, args) EXCEPT !.fn = fn]
Shorter(expr) == Apply("substr", <<expr, Num(1)>>)
Nvl(expr, value) == Apply("nvl", <<expr, Num(value)>>)
Plus(l, r) == Part("compute", <<>>, <<l, r>>)
Decoded(expr, keys) == [Part("case", <<>>, <<expr>>) EXCEPT !.keys = [i \in DOMAIN keys |-> Num(keys[i])]]

\* Conditions.
Is(left, op, right) == [cond |-> "compare", op |-> op, left |-> left, right |-> right]
Both(left, right) == [cond |-> "and", left |-> left, right |-> right]
Either(left, right) == [cond |-> "or", left |-> left, right |-> right]
Contrary(cond) == [cond |-> "not", of |-> cond]
Test(test, expr, values) ==
    [cond |-> test, expr |-> expr, with |-> [i \in DOMAIN values |-> Num(values[i])], negated |-> FALSE]
NotTest(test, expr, values) == [Test(test, expr, values) EXCEPT !.negated = TRUE]

\* FROM.
TableAs(name, alias) == [ref |-> "table", name |-> <<name>>, alias |-> alias]
Derive(query, alias) == [ref |-> "query", query |-> query, alias |-> alias]
JoinOn(type, left, right, on) == [ref |-> "join", type |-> type, left |-> left, right |-> right, on |-> <<on>>]
X == TableAs("x", "p")
Y == TableAs("y", "q")

\* Queries and statements.
Take(expr) == [star |-> FALSE, expr |-> expr, alias |-> NoName]
TakeAs(expr, alias) == [star |-> FALSE, expr |-> expr, alias |-> alias]
Star == [star |-> TRUE, expr |-> Num(1), alias |-> NoName]
Ask(targets, from, where) ==
    [with |-> <<>>, targets |-> targets, from |-> from, where |-> where, rest |-> <<>>, union |-> <<>>,
     into |-> <<>>, lock |-> <<>>, vars |-> <<>>]
AskOf(from, where) == Ask(<<Take(Num(1))>>, from, <<where>>)
Filling(variables, query) == [query EXCEPT !.vars = variables]
Blank(sql) ==
    [sql |-> sql, with |-> <<>>, table |-> <<"w">>, columns |-> <<"a">>, query |-> <<>>, rows |-> <<>>,
     record |-> <<>>, tables |-> <<>>, from |-> <<>>, assignments |-> <<>>, rest |-> <<>>, where |-> <<>>]
Querying(query) == [sql |-> "select", query |-> query]
Fill(query) == [Blank("insert") EXCEPT !.query = <<query>>]
FillOne == [Blank("insert") EXCEPT !.rows = <<<<Num(1)>>>>]
Change(table, from, where) ==
    [Blank("update") EXCEPT !.tables = <<table>>, !.from = from, !.where = <<where>>,
                                 !.assignments = <<[columns |-> <<"a">>, value |-> Num(2)]>>]
Purge(table, where) == [Blank("delete") EXCEPT !.tables = <<table>>, !.where = <<where>>]

Runs(st) == [pl |-> "sql", statement |-> st]
FetchInto(cursor, into) == [pl |-> "fetch", cursor |-> cursor, into |-> into]
If(conditions) == [pl |-> "if", conditions |-> conditions]
CaseOf(operand, whens) == [pl |-> "case", operand |-> operand, whens |-> whens]
Loop(variable, query) == [pl |-> "for", variable |-> variable, query |-> query]
OpenFor2(cursor, query) == [pl |-> "open", cursor |-> cursor, query |-> query]
Sets(name, expr) == [pl |-> "assign", name |-> name, expr |-> expr]

CursorOf(query) == [sort |-> "cursor", name |-> "c", query |-> query]
RecordLike(like) == [sort |-> "record", name |-> "r", like |-> like]

-----------------------------------------------------------------------------
(* Statements, each with conditions of another kind. *)

PA == Its("p", "a")
PB == Its("p", "b")
QA == Its("q", "a")
QB == Its("q", "b")

Wheres ==
    {Both(Is(PA, "=", Num(1)), Is(Num(2), ">", PB)),
     Both(Is(Shorter(PA), "=", Num(2)), Is(Num(1), "<>", Nvl(PB, 1))),
     Both(Test("in", PA, <<1, 3>>), Both(Test("between", PB, <<2, 3>>), NotTest("isnull", PA, <<>>))),
     Both(NotTest("like", PB, <<2>>), Test("like", PA, <<2>>)),
     Either(Is(PA, "=", Num(1)), Test("isnull", PB, <<>>)),
     Contrary(Is(PA, "<=", Num(1)))}

OfOne == {AskOf(<<X>>, where) : where \in Wheres}

OfTwo ==
    {AskOf(<<X, Y>>, Both(Is(PA, "=", QB), Is(Shorter(PA), "=", QA))),
     AskOf(<<JoinOn("inner", X, Y, Both(Is(QA, "=", PA), Is(QB, "<>", Num(1))))>>, Is(PB, "<", Num(2))),
     AskOf(<<JoinOn("left", X, Y, Is(PA, "=", QA))>>, Is(Nvl(QB, 3), ">=", Num(2))),
     AskOf(<<X, Derive(Ask(<<TakeAs(QA, "m")>>, <<Y>>, <<Is(QB, "=", Num(1))>>), "d")>>, Is(Its("d", "m"), "=", PA)),
     [AskOf(<<X, TableAs("v", NoName)>>, Is(PA, "=", Its("v", "a"))) EXCEPT
        !.with = <<[name |-> "v", query |-> Ask(<<Take(QA)>>, <<Y>>, <<Is(QB, ">", Num(1))>>)]>>],
     [AskOf(<<X>>, Is(PA, "=", Num(1))) EXCEPT !.union = <<AskOf(<<Y>>, Is(QA, "=", Num(2)))>>]}

SomeStatements ==
    {Querying(q) : q \in OfOne \cup OfTwo}
    \cup {Fill(AskOf(<<X>>, Is(PA, ">", Num(1)))), FillOne, Purge(X, Is(PA, "=", Num(3))),
          [Fill([AskOf(<<X>>, Is(PB, "=", Num(1))) EXCEPT !.union = <<AskOf(<<Y>>, Is(QA, "<", Num(2)))>>])
              EXCEPT !.columns = <<>>],
          Change(X, <<>>, Is(PB, "=", Num(1))),
          Change(X, <<Y>>, Both(Is(PB, "=", QA), Is(QB, "=", Num(2)))),
          Querying(Ask(<<Take(Decoded(PA, <<1, 2>>))>>, <<X>>, <<>>))}

Packaged(name, declares, body) ==
    [name |-> name, package |-> "k", declares |-> declares, body |-> body]

OtherRoutine == Packaged("o", <<>>, <<Runs(Change(X, <<>>, Is(PA, "=", Num(2))))>>)

Asking(one, sort, tables) ==
    [routines |-> <<OtherRoutine, one>>, runs |-> 2, tables |-> tables,
     asked |-> [sort |-> sort, name |-> IF sort = "package" THEN "k" ELSE one.name]]

StatementCases ==
    {Asking(Packaged("n", <<>>, <<Runs(s), Runs(t)>>), IF s = FillOne THEN "package" ELSE "routine", {}) :
        s, t \in SomeStatements}
    \cup {Asking(Packaged("n", <<>>, <<Runs(s), Runs(FillOne)>>), "package", {"x"}) : s \in SomeStatements}

-----------------------------------------------------------------------------
(* Routines with cursors and variables. *)

RA == Its("r", "a")
RB == Its("r", "b")
RM == Its("r", "m")

C1 == Ask(<<Take(Called(<<"a">>)), Take(Called(<<"b">>))>>, <<X>>, <<Is(PB, "=", Num(1))>>)
C2 == Ask(<<TakeAs(PA, "m"), Take(QB)>>, <<X, Y>>, <<Is(PA, "=", QA)>>)
C3 == Ask(<<Star>>, <<X>>, <<>>)

Tested ==
    {<<Is(RA, "=", Num(1)), Is(RA, "=", Num(3))>>,
     <<Both(Is(Num(1), "<", RA), Is(RB, "<>", Num(3)))>>,
     <<Both(Is(Shorter(RA), "=", Num(2)), Test("between", RB, <<1, 2>>)), Test("in", RA, <<1, 3>>)>>}

Fetching(query, more) == Packaged("n", <<CursorOf(query), RecordLike("c")>>, <<FetchInto("c", <<"r">>)>> \o more)

WithRecords ==
    {Fetching(c, <<If(conds)>>) : c \in {C1, C3}, conds \in Tested}
    \cup {Fetching(C1, <<CaseOf(<<RA>>, <<Num(1), Num(3)>>)>>),
          Fetching(C1, <<CaseOf(<<>>, <<Is(RA, "=", Num(2)), Is(Num(2), ">=", RA)>>)>>),
          Fetching(C2, <<If(<<Is(RM, "=", Num(1)), Both(Is(RM, ">", Num(2)), Is(RB, "=", Num(1)))>>)>>),
          Fetching(C2, <<If(<<Is(RB, "=", Num(2)), Is(RM, "=", Num(2))>>),
                         Runs(Querying(AskOf(<<TableAs("z", "s")>>, Is(Its("s", "a"), "=", RM))))>>),
          Fetching(C3, <<Runs(Change(Y, <<>>, Both(Is(QA, "=", RB), Is(Shorter(QB), "=", RA))))>>),
          Packaged("n", <<>>, <<Loop("r", C1), If(<<Is(RA, "=", Num(1))>>),
                                  Runs(Querying(AskOf(<<Y>>, Is(RA, "=", QB))))>>),
          Packaged("n", <<RecordLike("x")>>, <<OpenFor2("o", C3), FetchInto("o", <<"r">>), If(<<Is(RB, "<", Num(2))>>)>>)}

Local(name) == Called(<<name>>)

SelectBoth(table, variables, where) ==
    Runs(Querying(Filling(variables, Ask(<<Take(Its("t", "a")), Take(Its("t", "b"))>>, <<TableAs(table, "t")>>, <<where>>))))

TestsOfVariables ==
    {<<Is(Local("i"), "=", Num(1)), Is(Num(2), ">", Local("j"))>>,
     <<Both(Is(Local("i"), "<=", Num(2)), Is(Local("j"), "=", Num(1)))>>,
     <<Is(Shorter(Local("i")), "=", Num(2))>>}

WithVariables ==
    {Packaged("n", <<>>, <<SelectBoth(t, <<"i", "j">>, Is(Its("t", "b"), ">=", Num(1))), If(conds)>>) :
        t \in {"x", "z"}, conds \in TestsOfVariables}
    \cup {Packaged("n", <<>>, <<SelectBoth("z", <<"i", "j">>, Is(Num(1), "<", Its("t", "a"))),
                                  Sets("i", Plus(Local("i"), Num(1))), If(conds)>>) : conds \in TestsOfVariables}
    \cup {Packaged("n", <<CursorOf(C1)>>, <<SelectBoth("y", <<"i", "j">>, Is(Its("t", "b"), "=", Num(1))),
                                              FetchInto("c", <<"j", "k">>),
                                              SelectBoth("y", <<"j", "k">>, Is(Its("t", "b"), "=", Num(2))),
                                              If(conds)>>) : conds \in TestsOfVariables}

BranchCases == {Asking(r, "routine", {}) : r \in WithRecords \cup WithVariables}

HintCases == StatementCases \cup BranchCases

RowsOfTables == {("a" :> v) @@ ("b" :> w) : v \in {1, 2, 3, Null}, w \in {1, 2, Null}}

HintSpec == HintInit /\ [][HintNext]_hintVars

-----------------------------------------------------------------------------
(* All of them.                                                              *)

NothingCalled == BlockOf(<<>>, <<>>, <<>>)

NoTexts == routine = NothingCalled /\ frames = <<>> /\ texts = <<>> /\ made = {}

\* A database which nobody uses.
SomeDatabase == CHOOSE p \in Databases : TRUE

NoData ==
    /\ scenario = SomeDatabase
    /\ graph = [nodes |-> <<>>, edges |-> <<>>] /\ data = <<>>
    /\ session = [s \in Sessions |-> [NewSession EXCEPT !.over = TRUE]]

NoCase ==
    [routines |-> <<Packaged("n", <<>>, <<>>)>>, runs |-> 1, tables |-> {},
     asked |-> [sort |-> "routine", name |-> "n"]]

NothingTold ==
    [report |-> NewReport, seeds |-> [operations |-> <<>>, values |-> {}], hints |-> <<>>, predicates |-> <<>>]

NoHints == asked = NoCase /\ told = NothingTold /\ run = [NewRun EXCEPT !.over = TRUE]

RoutinesInit ==
    \/ CallInit /\ NoData /\ NoHints
    \/ DataInit /\ NoTexts /\ NoHints
    \/ HintInit /\ NoTexts /\ NoData

RoutinesNext ==
    \/ CallNext /\ UNCHANGED <<dataVars, hintVars>>
    \/ DataNext /\ UNCHANGED <<callVars, hintVars>>
    \/ HintNext /\ UNCHANGED <<callVars, dataVars>>

\* The databases alone.
DataOnly == DataInit /\ NoTexts /\ NoHints /\ [][DataNext /\ UNCHANGED <<callVars, hintVars>>]_<<callVars, dataVars, hintVars>>

\* The calls alone.
CallsOnly == CallInit /\ NoData /\ NoHints /\ [][CallNext /\ UNCHANGED <<dataVars, hintVars>>]_<<callVars, dataVars, hintVars>>

=============================================================================
