----------------------------- MODULE OtherNodes -----------------------------
(***************************************************************************)
(* What the graph builder adds for the other sources: the mapped SQL of    *)
(* XML files, the SQL in Java and JSP files, and the classes and methods   *)
(* of Java, with the edges that lead from Java to mappers and from there   *)
(* to routines and tables.                                                 *)
(*                                                                         *)
(* A mapper file has a namespace and statements; a Java file has imports,  *)
(* classes, methods with their calls, injected types and pieces of SQL; a  *)
(* page has pieces of SQL and references to Java.                          *)
(***************************************************************************)
EXTENDS SqlEdges

CONSTANTS
    Capital       \* the name of a field to that of a class, where the first letter is all

\* A call in SQL outside of routines: a function of that name is found later, when
\* placeholders are resolved.
CallInSql(c, from, call, at) ==
    LET id == IdOf("procedure", call.name)
        with == WithRoutine(c, id, Named("unresolved", call.name, Nowhere))
        known == WithBuiltin(c, call.name, at)
    IN  IF call.sort = "builtin"
        THEN Linked(known, Edge("uses", from, known.builtins[call.name], at, <<>>))
        ELSE Linked(with, Edge("calls", from, with.routines[id], at, <<>>))

\* A builtin is linked once.
WithSql(c, from, piece) ==
    LET calls == SelectSeq(Ascending(piece.calls), LAMBDA i :
                    \A j \in 1 .. i - 1 : piece.calls[i].sort = "builtin" =>
                                             piece.calls[j] # piece.calls[i])
        called == FoldLeft(LAMBDA d, i : CallInSql(d, from, piece.calls[i], piece.at), c, calls)
    IN  WithAccesses(called, from, <<>>, piece.sql, piece.at)

-----------------------------------------------------------------------------
(* Mappers: add_ibatis_nodes_from_parsed_with_source_paths. *)

\* Of two statements with one id the first is the node; the edges of both leave it.
MappedStatement(c, namespace, piece) ==
    LET key == Append(namespace, piece.id)
        with == IF key \in DOMAIN c.mappers THEN c
                ELSE [Added(c, Named("mapper", key, piece.at))
                        EXCEPT !.mappers = Setting(@, key, Len(c.nodes) + 1)]
    IN  WithSql(with, with.mappers[key], piece)

Mappers(c, file) ==
    FoldLeft(LAMBDA d, piece : MappedStatement(d, file.namespace, piece), c, file.pieces)

-----------------------------------------------------------------------------
(* Java. *)

\* A piece of SQL in a method of a class: one node for each line of a file, linked to
\* the mapper of this name, which the class and the method are.
JavaSql(c, piece) ==
    LET key == <<piece.class, piece.method>>
        with == Added(c, Named("javasql", key, piece.at))
        used == WithSql(with, Newest(with), piece)
    IN  IF key \notin DOMAIN c.mappers THEN used
        ELSE Linked(used, Edge("invokes", Newest(with), c.mappers[key], piece.at, <<>>))

JavaSqls(c, file) ==
    FoldLeft(LAMBDA d, i :
                IF \E j \in 1 .. i - 1 : file.pieces[j].at = file.pieces[i].at THEN d
                ELSE JavaSql(d, file.pieces[i]),
             c, Ascending(file.pieces))

AllClasses(chunk) == FlattenSeq([i \in Places(chunk) |-> chunk[i].classes])

\* The last class of the chunk with a simple name.
SimpleNames(chunk) ==
    FoldLeft(LAMBDA f, class : Setting(f, Last(class.fqn), class.fqn), <<>>, AllClasses(chunk))

\* resolve_fqn: a full name is one; an import counts before the classes of the chunk.
Fqn(q, chunk, file) ==
    LET imported == {import \in file.imports : Last(import) = Last(q)}
        simple == SimpleNames(chunk)
    IN  CASE Qualified(q) -> {q}
          [] ~Qualified(q) /\ imported # {} -> imported
          [] OTHER -> {simple[n] : n \in {Last(q)} \cap DOMAIN simple}

\* names_match
NamesMatch(field, class) ==
    field = class \/ (field \in DOMAIN Capital /\ Capital[field] = class)

SqlSession == {"selectList", "selectOne", "selectMap", "select", "insert", "update",
               "delete", "query", "queryForList", "queryForObject"}

WithClasses(c, chunk) ==
    FoldLeft(LAMBDA a, class :
                IF class.fqn \in DOMAIN a.classes THEN a
                ELSE [c |-> Added(a.c, Named("class", class.fqn, class.at)),
                      classes |-> Setting(a.classes, class.fqn, Len(a.c.nodes) + 1)],
             [c |-> c, classes |-> <<>>], AllClasses(chunk))

\* Edges to the classes of this chunk a name stands for.
WithClassEdge(c, classes, tag, from, names, at) ==
    FoldLeft(LAMBDA d, fqn : Linked(d, Edge(tag, from, classes[fqn], at, <<>>)),
             c, SetToSeq(names \cap DOMAIN classes))

WithParents(c, classes, chunk) ==
    LET Parents(d, file, class) ==
            FoldLeft(LAMBDA e, name :
                        WithClassEdge(e, classes, name.by, classes[class.fqn],
                                      Fqn(name.of, chunk, file), class.at),
                     d, class.parents)
    IN  FoldLeft(LAMBDA d, file :
                    FoldLeft(LAMBDA e, class : Parents(e, file, class), d, file.classes),
                 c, chunk)

AllMethods(chunk) == FlattenSeq([i \in Places(chunk) |-> chunk[i].methods])

\* One node for all methods of one name; its class contains it once for each.
WithMethods(c, classes, chunk) ==
    FoldLeft(LAMBDA a, m :
                LET fqn == Append(m.class, m.name)
                    new == fqn \notin DOMAIN a.methods
                    with == IF new THEN Added(a.c, Named("method", fqn, m.at)) ELSE a.c
                    methods == IF new THEN Setting(a.methods, fqn, Newest(with)) ELSE a.methods
                IN  [methods |-> methods,
                     c |-> IF m.class \notin DOMAIN classes THEN with
                           ELSE Linked(with, Edge("method", classes[m.class], methods[fqn],
                                                  Nowhere, <<>>))],
             [c |-> c, methods |-> <<>>], AllMethods(chunk))

\* The mapper a call invokes: of a session the one its argument names; else the one of
\* the object's type; else one whose last part of the namespace is the object's name.
Invoked(c, call, chunk, file) ==
    LET session == IF call.method \in SqlSession THEN call.names \cap DOMAIN c.mappers ELSE {}
        typed == {Append(fqn, call.method) : fqn \in UNION {Fqn(o, chunk, file) : o \in call.object}}
                    \cap DOMAIN c.mappers
        alike == {key \in DOMAIN c.mappers :
                    /\ Last(key) = call.method
                    /\ \E o \in call.object : ~Qualified(o) /\ NamesMatch(o[1], Last(Front(key)))}
        found == CASE session # {} -> session
                   [] session = {} /\ typed # {} -> typed
                   [] OTHER -> alike
    IN  IF found = {} THEN {} ELSE {Some(c, {c.mappers[key] : key \in found})}

\* A call which is none of a mapper is one of a method of this name of the same class,
\* whatever its object.
MethodCall(c, methods, m, call, chunk, file) ==
    LET from == methods[Append(m.class, m.name)]
        own == Append(m.class, call.method)
        invoked == Invoked(c, call, chunk, file)
    IN  CASE invoked # {} ->
                Linked(c, Edge("invokes", from, CHOOSE x \in invoked : TRUE, call.at, <<>>))
          [] invoked = {} /\ own \in DOMAIN methods ->
                Linked(c, Edge("java", from, methods[own], call.at, <<>>))
          [] OTHER -> c

WithMethodCalls(c, methods, chunk) ==
    LET OfMethod(d, file, m) ==
            FoldLeft(LAMBDA e, call : MethodCall(e, methods, m, call, chunk, file), d, m.calls)
    IN  FoldLeft(LAMBDA d, file :
                    FoldLeft(LAMBDA e, m : OfMethod(e, file, m), d, file.methods),
                 c, chunk)

\* What is injected in a file is used by its first class.
WithInjections(c, classes, chunk) ==
    FoldLeft(LAMBDA d, file :
                IF file.classes = <<>> THEN d
                ELSE FoldLeft(LAMBDA e, q :
                                WithClassEdge(e, classes, "java", classes[file.classes[1].fqn],
                                              Fqn(q, chunk, file), file.classes[1].at),
                              d, file.injections),
             c, chunk)

\* The SQL of all chunks so far belongs to the method of its name in a class of the
\* chunk with its simple name.
WithContained(c, methods, chunk) ==
    LET simple == SimpleNames(chunk)
        Class(n) == IF n.schema[1] \in DOMAIN simple THEN simple[n.schema[1]] ELSE n.schema
    IN  FoldLeft(LAMBDA d, i :
                    LET n == c.nodes[i]
                    IN  IF n.kind # "javasql" THEN d
                        ELSE IF Append(Class(n), n.name) \notin DOMAIN methods THEN d
                        ELSE Linked(d, Edge("sql", methods[Append(Class(n), n.name)], i,
                                            Nowhere, <<>>)),
                 c, Ascending(c.nodes))

\* add_java_method_nodes_from_parsed: classes and methods are known by their chunk.
JavaMethods(c, chunk) ==
    LET classed == WithClasses(c, chunk)
        classes == classed.classes
        parented == WithParents(classed.c, classes, chunk)
        with == WithMethods(parented, classes, chunk)
        calling == WithMethodCalls(with.c, with.methods, chunk)
    IN  WithContained(WithInjections(calling, classes, chunk), with.methods, chunk)

-----------------------------------------------------------------------------
(* Pages. *)

\* add_jsp_nodes_from_parsed: one node for each text of SQL of a page.
JspNodes(c, page) ==
    LET with == Added(c, Named("jsp", page.name, page.at))
        from == Newest(with)
    IN  FoldLeft(LAMBDA d, i :
                    LET piece == page.pieces[i]
                        node == Added(d, Named("jspsql", page.name, piece.at))
                        linked == Linked(node, Edge("sql", from, Newest(node), Nowhere, <<>>))
                    IN  IF \E j \in 1 .. i - 1 : page.pieces[j].text = piece.text THEN d
                        ELSE WithSql(linked, Newest(node), piece),
                 with, Ascending(page.pieces))

NodesNamed(c, kind, q) ==
    {i \in Places(c.nodes) : c.nodes[i].kind = kind /\ Written(c.nodes[i]) = q}

\* bridge_jsp_to_java_methods: of several nodes with the name the last one.
JspReferences(c, pages, java) ==
    LET simple == SimpleNames(java)
        Class(q) == IF ~Qualified(q) /\ q[1] \in DOMAIN simple THEN simple[q[1]] ELSE q
        Target(r) == IF r.constructs THEN NodesNamed(c, "class", Class(r.class))
                     ELSE NodesNamed(c, "method", Append(Class(r.class), r.method))
        Referring(d, page, r) ==
            IF Target(r) = {} THEN d
            ELSE Linked(d, Edge("java", Max(NodesNamed(c, "jsp", page.name)), Max(Target(r)),
                                page.at, <<>>))
    IN  FoldLeft(LAMBDA d, page :
                    FoldLeft(LAMBDA e, r : Referring(e, page, r), d, page.references),
                 c, pages)

=============================================================================
