------------------------------ MODULE MCBuilder ------------------------------
(***************************************************************************)
(* Programs for Builder: themes of a few statements, each statement in a   *)
(* file of its own or all in one, in every order, with chunks of one file, *)
(* of two or of all, and the two orders of the hash maps.                  *)
(***************************************************************************)
EXTENDS Builder

TheExpression == <<"dynamic">>

Builtins == {<<"upper">>}

Capitals == [orders |-> "Orders"]

-----------------------------------------------------------------------------

Call(name) == [name |-> name, sort |-> "call"]
Expr(name) == [name |-> name, sort |-> "expression"]
Dynamic(name) == [name |-> name, sort |-> "dynamic"]
Known == [name |-> <<"upper">>, sort |-> "builtin"]

Access(name, mode) == [name |-> name, modes |-> {mode}, kinds |-> {}]

\* SQL statements of which only their accesses matter.
Sql(statements) ==
    [i \in DOMAIN statements |->
        [accesses |-> statements[i], mappings |-> {}, feeds |-> {}, told |-> TRUE]]

Body(calls, sql) ==
    <<[names |-> {}, declares |-> <<>>, calls |-> calls, sql |-> Sql(sql), types |-> <<>>,
       sequences |-> <<>>, predicates |-> {}]>>

NoReturn == [anchors |-> <<>>, types |-> <<>>]

Parameter(name, anchors, types) == [name |-> name, anchors |-> anchors, types |-> types]

Rtn(kind, name, parameters, body, at) ==
    [create |-> "routine", name |-> name, at |-> at,
     routine |-> [kind |-> kind, parameters |-> parameters, returns |-> NoReturn, body |-> body]]

Proc(name, calls, at) == Rtn("procedure", name, <<>>, Body(calls, <<>>), at)

Func(name, calls, at) == Rtn("function", name, <<>>, Body(calls, <<>>), at)

Item(kind, name, body) ==
    [kind |-> kind, name |-> name, parameters |-> <<>>, returns |-> NoReturn, body |-> body,
     anchors |-> <<>>]

Anchored(kind, name, anchors) == [Item(kind, name, <<>>) EXCEPT !.anchors = anchors]

Pack(create, name, items, at) == [create |-> create, name |-> name, items |-> items, at |-> at]

Table(name, columns, constraints, at) ==
    [create |-> "table", name |-> name, columns |-> columns, constraints |-> constraints, at |-> at]

View(create, name, reads, at) ==
    [create |-> create, name |-> name, reads |-> reads, mappings |-> {}, at |-> at]

Column1(name, column, text) ==
    [create |-> "comment", name |-> name, column |-> column, text |-> text, at |-> text]

Thing(create, name, at) == [create |-> create, name |-> name, at |-> at]

Primary(columns) == [sort |-> "primary", columns |-> columns]

-----------------------------------------------------------------------------
(* Themes. *)

f == <<"f">>
h == <<"h">>
g == <<"g">>
sf == <<"s", "f">>
pq == <<"p", "q">>
t == <<"t">>
st == <<"s", "t">>

\* A procedure and a function of one name, in a schema and without, a trigger and a block.
Names ==
    <<Proc(f, <<Call(g), Expr(f), Known>>, "proc f"),
      Func(f, <<Dynamic(sf), Call(<<"s", "g">>)>>, "func f"),
      Proc(g, <<Call(f), Dynamic(<<"dynamic">>)>>, "proc g"),
      Func(sf, <<Call(g), Call(g), Expr(<<"x", "delete">>)>>, "func s.f"),
      [create |-> "trigger", name |-> <<"tr">>, calls |-> sf, at |-> "trigger"]>>

\* Members called by bare and by full names, from inside and outside of the package.
Members ==
    <<Pack("package", <<"p">>, <<Item("procedure", "q", <<>>), Item("function", "lost", <<>>),
                                 Item("variable", "v", <<>>)>>, "spec p"),
      Pack("body", <<"p">>, <<Item("procedure", "q", Body(<<Call(<<"r">>), Expr(<<"v">>)>>,
                                                          <<<<Access(t, "read")>>>>)),
                              Item("function", "r", Body(<<Call(pq), Call(g)>>, <<>>))>>, "body p"),
      Proc(g, <<Call(pq), Call(<<"r">>)>>, "proc g"),
      Proc(<<"s", "r">>, <<Call(<<"p", "r">>), Call(<<"r">>)>>, "proc s.r"),
      Pack("body", <<"s", "p">>, <<Item("procedure", "q", Body(<<Call(<<"r">>), Call(g)>>, <<>>))>>,
           "body s.p")>>

\* One table name with and without a schema, a view, and accesses from both sides.
TableNames ==
    <<Table(st, {"c"}, <<Primary({"c"})>>, "table s.t"),
      Table(t, {"c", "d"}, <<>>, "table t"),
      Rtn("procedure", sf, <<>>, Body(<<>>, <<<<Access(t, "read"), Access(st, "write")>>,
                                              <<Access(t, "write")>>>>), "proc s.f"),
      Rtn("procedure", g, <<>>, Body(<<>>, <<<<Access(t, "read")>>, <<Access(t, "write")>>,
                                             <<Access(<<"w">>, "read")>>>>), "proc g"),
      View("view", <<"s", "w">>, <<t, <<"u">>>>, "view s.w")>>

\* Comments on columns, keys and indexes of tables which are created late or never.
Columns1 ==
    <<Table(t, {"c", "d"}, <<[sort |-> "unique", columns |-> {"d"}]>>, "table t"),
      Column1(t, "c", "first"),
      Column1(t, "c", "second"),
      [create |-> "alter", name |-> t, constraints |-> <<Primary({"c"})>>, at |-> "alter t"],
      View("mview", <<"m">>, <<t>>, "mview m")>>

\* Tables beside others which are removed, and an index.
Removed ==
    <<Table(t, {"c"}, <<>>, "table t"),
      Table(st, {"c"}, <<>>, "table s.t"),
      Table(<<"u">>, {"c"}, <<>>, "table u"),
      [create |-> "index", name |-> <<"i">>, table |-> <<"u">>, at |-> "index i"],
      Rtn("procedure", g, <<>>, Body(<<Call(f)>>, <<<<Access(<<"u">>, "read"), Access(t, "read")>>>>),
          "proc g")>>

\* Types, sequences, synonyms, anchors, parameters and predicates.
TypeBody ==
    <<[Body(<<Call(g)>>, <<>>)[1] EXCEPT
        !.types = <<<<"ty">>>>, !.sequences = <<<<"sq">>, <<"sq">>>>, !.predicates = {"p"},
        !.declares = <<[sort |-> "variable", name |-> "v", anchors |-> <<Anchor(t, "c", "v")>>,
                        parameters |-> {}, declares |-> <<>>],
                       [sort |-> "nested", name |-> "n", anchors |-> <<>>, parameters |-> {"t"},
                        declares |-> <<[sort |-> "variable", name |-> "w",
                                        anchors |-> <<Anchor(t, "c", "w"), Anchor(<<"v">>, "c", "w")>>,
                                        parameters |-> {}, declares |-> <<>>]>>]>>]>>

References ==
    <<Thing("type", <<"s", "ty">>, "type ty"),
      Thing("sequence", <<"sq">>, "sequence sq"),
      Rtn("procedure", g, <<Parameter("a", <<Anchor(t, "c", "a")>>, <<<<"ty">>>>)>>, TypeBody, "proc g"),
      Rtn("procedure", g, <<>>, Body(<<>>, <<>>), "proc g again"),
      [create |-> "synonym", name |-> <<"sy">>, target |-> g, at |-> "synonym"]>>

PackageAnchors ==
    <<Pack("package", <<"p">>, <<Anchored("variable", "v", <<Anchor(t, "c", "v")>>),
                                 Item("procedure", "q", <<>>)>>, "spec p"),
      Pack("body", <<"p">>,
           <<Anchored("type", "ty", <<Anchor(<<"v">>, "c", "ty"), Anchor(t, "c", "ty")>>),
             [Item("procedure", "q", TypeBody) EXCEPT
                !.parameters = <<Parameter("a", <<Anchor(t, "c", "a"), Anchor(<<"a">>, "c", "a")>>, <<>>)>>]>>,
           "body p"),
      Table(t, {"c"}, <<>>, "table t"),
      Thing("event", <<"e">>, "event"),
      [create |-> "block", name |-> <<>>, body |-> Body(<<Call(pq)>>, <<>>), at |-> "block"]>>

\* Routines and tables of one name in two schemas, and who means which.
Schemas ==
    <<Proc(<<"s", "a">>, <<Call(h)>>, "proc s.a"),
      Proc(<<"x", "b">>, <<Call(h), Call(<<"z", "count">>)>>, "proc x.b"),
      Proc(<<"s", "h">>, <<>>, "proc s.h"),
      Func(<<"x", "h">>, <<>>, "func x.h"),
      Proc(<<"z", "count">>, <<>>, "proc z.count")>>

SchemaTables ==
    <<Table(st, {"c"}, <<>>, "table s.t"),
      Table(<<"x", "t">>, {"c"}, <<>>, "table x.t"),
      Rtn("procedure", sf, <<>>, Body(<<>>, <<<<Access(t, "read")>>>>), "proc s.f"),
      Rtn("procedure", <<"x", "f">>, <<>>, Body(<<>>, <<<<Access(t, "write")>>>>), "proc x.f"),
      Table(t, {}, <<>>, "table t")>>

Themes == {Schemas, SchemaTables, Names, Members, TableNames, Columns1, Removed, References, PackageAnchors}

-----------------------------------------------------------------------------
(* The other sources. *)

Piece(id, calls, sql, at) == [id |-> id, calls |-> calls, sql |-> Sql(sql), at |-> at]

Xml == <<[namespace |-> <<"dao", "Orders">>,
          pieces |-> <<Piece("find", <<Call(g), Known, Known>>, <<<<Access(t, "read")>>>>, "find"),
                       Piece("find", <<Call(f)>>, <<>>, "find again")>>]>>

Invoke(method, object, at) == [method |-> method, object |-> object, names |-> {}, at |-> at]

Method(class, name, calls, at) == [class |-> class, name |-> name, calls |-> calls, at |-> at]

Class(fqn, parents, at) == [fqn |-> fqn, parents |-> parents, at |-> at]

Service ==
    [imports |-> {<<"dao", "Orders">>},
     classes |-> <<Class(<<"app", "Service">>, <<[by |-> "extends", of |-> <<"Base">>]>>, "Service")>>,
     methods |-> <<Method(<<"app", "Service">>, "run",
                          <<Invoke("find", {<<"Orders">>}, "typed"), Invoke("help", {<<"other">>}, "other"),
                            Invoke("find", {<<"orders">>}, "named"),
                            [Invoke("selectOne", {}, "session") EXCEPT
                                !.names = {<<"dao", "Orders", "find">>}]>>, "run"),
                   Method(<<"app", "Service">>, "help", <<>>, "help"),
                   Method(<<"app", "Service">>, "run", <<>>, "run again")>>,
     injections |-> <<<<"Base">>>>,
     pieces |-> <<[class |-> <<"Service">>[1], method |-> "run", calls |-> <<Call(g)>>,
                   sql |-> Sql(<<<<Access(t, "write")>>>>), at |-> "sql of run"]>>]

Base ==
    [imports |-> {}, classes |-> <<Class(<<"app", "Base">>, <<>>, "Base")>>, methods |-> <<>>,
     injections |-> <<>>, pieces |-> <<>>]

Page ==
    [name |-> <<"page">>, at |-> "page",
     pieces |-> <<[text |-> "a", calls |-> <<Call(g)>>, sql |-> <<>>, at |-> "page a"],
                  [text |-> "a", calls |-> <<Call(g)>>, sql |-> <<>>, at |-> "page b"]>>,
     references |-> <<[constructs |-> FALSE, class |-> <<"Service">>, method |-> "run"],
                      [constructs |-> TRUE, class |-> <<"Base">>, method |-> ""]>>]

Mixed == <<Proc(g, <<Call(f)>>, "proc g"), Func(f, <<>>, "func f"), Table(st, {"c"}, <<>>, "table s.t")>>

-----------------------------------------------------------------------------

Arranged(theme) == {[i \in Places(theme) |-> theme[order[i]]] : order \in Permutations(Places(theme))}

OfSql(pipeline, files, chunk, order) ==
    [pipeline |-> pipeline, sql |-> files, chunk |-> chunk, order |-> order,
     java |-> <<>>, xml |-> <<>>, jsp |-> <<>>]

Apart(statements) == [i \in Places(statements) |-> <<statements[i]>>]

Split(statements) == <<SubSeq(statements, 1, 2), SubSeq(statements, 3, Len(statements))>>

SqlPrograms(themes) ==
    UNION {LET all == Arranged(theme)
           IN  {OfSql("analyze", Apart(x), n, "ascending") : x \in all, n \in {1, 2}}
               \cup {OfSql("analyze", Split(x), n, "descending") : x \in all, n \in {1, 2}}
               \cup {OfSql("parse", <<x>>, 1, "descending") : x \in all}
           : theme \in themes}

MixedPrograms ==
    {[OfSql(pipeline, Apart(x), n, order) EXCEPT !.java = java, !.xml = Xml, !.jsp = <<Page>>] :
        pipeline \in {"analyze", "parse"}, x \in Arranged(Mixed), n \in {1, 3},
        java \in {<<Service, Base>>, <<Base, Service>>}, order \in {"ascending", "descending"}}

Programs == SqlPrograms(Themes) \cup MixedPrograms

Chunked == SqlPrograms({Names})

=============================================================================
