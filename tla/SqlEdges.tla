------------------------------ MODULE SqlEdges ------------------------------
(***************************************************************************)
(* The later passes of the graph builder over a chunk of SQL files: tables *)
(* accessed and calls (create_sql_edges), types, sequences and anchors     *)
(* (create_object_ref_edges), predicates and parameters.                   *)
(*                                                                         *)
(* The body of a routine has the names declared in it, its declarations,   *)
(* its calls, its SQL statements, the types and sequences it uses, and its *)
(* predicates. A SQL statement has its accesses, the mappings of columns   *)
(* it makes, the tables these are fed from, and whether it has columns.    *)
(***************************************************************************)
EXTENDS SqlNodes

\* The routines a statement defines: their ids, with kind, name, body and signature.
Routines(st) ==
    CASE st.create = "routine" -> <<[id |-> IdOf(st.routine.kind, st.name)] @@ st.routine>>
      [] st.create \in {"package", "body"} ->
            LET items == SelectSeq(st.items, IsRoutineItem)
            IN  [i \in Places(items) |->
                    [id |-> MemberId(items[i].kind, st.name, items[i].name)] @@ items[i]]
      [] OTHER -> <<>>

\* build_spec_items_index: the items of the specification of a package, if it is in
\* the same chunk; of two the last.
Inherited(st, chunk) ==
    LET specs == SelectSeq(FlattenSeq(chunk),
                           LAMBDA x : x.create = "package" /\ x.name = st.name)
    IN  IF st.create = "body" /\ specs # <<>> THEN Last(specs).items ELSE <<>>

\* The names of sorts of items a package declares or inherits.
Declares(st, chunk, sorts) ==
    IF st.create \notin {"package", "body"} THEN {}
    ELSE {<<item.name>> : item \in {x \in ToSet(st.items \o Inherited(st, chunk)) :
                                       x.kind \in sorts}}

-----------------------------------------------------------------------------
(* Anchors: the %TYPE and %ROWTYPE in a routine which name a table, being no *)
(* name of what is declared before them in the routine or around it          *)
(* (AnchorExtractor of src/parser/extractor.rs).                             *)

\* An anchor names an object, a column (none, of %ROWTYPE) and its site.
Anchor(object, column, site) == [object |-> object, column |-> column, site |-> site]

\* Unless a cursor, a variable, a type or a parameter has this very name.
Unguarded(anchors, names) == SelectSeq(anchors, LAMBDA a : a.object \notin names)

RECURSIVE Declare(_, _)

\* A declaration adds its anchors, then its name, so that it may name a table like
\* itself; a nested routine sees all that is declared so far and its parameters, and
\* leaves nothing behind.
Declare(scope, decl) ==
    LET inside == [scope EXCEPT !.names = @ \cup {<<p>> : p \in decl.parameters}]
    IN  CASE decl.sort = "nested" ->
                [FoldLeft(Declare, inside, decl.declares) EXCEPT !.names = scope.names]
          [] OTHER ->
                [names   |-> scope.names \cup {<<decl.name>>},
                 anchors |-> scope.anchors \o Unguarded(decl.anchors, scope.names)]

\* The anchors of a body, in the scope of its parameters and its package.
AnchorsIn(declares, names) ==
    FoldLeft(Declare, [names |-> names, anchors |-> <<>>], declares).anchors

-----------------------------------------------------------------------------
(* Accesses. *)

\* Mutant: a table without a schema is one without a schema.
AsWritten(c, owner, q) == q

\* A name without a schema is that of a table in the routine's schema, if there is
\* one, even if there is also one without a schema.
AccessKey(c, owner, q) ==
    IF ~Qualified(q) /\ owner # <<>> /\ owner \o q \in DOMAIN c.tables THEN owner \o q
    ELSE q

\* The other tables a statement touches: those it names, and those its values come from.
Beside(st, access) ==
    ({Last(x.name) : x \in ToSet(st.accesses)} \cup st.feeds) \ {Last(access.name)}

\* What an access says, for the lineage: nothing of the other tables, if the statement
\* has no columns and no other tables; the mappings only where it writes.
AccessSays(st, access) ==
    LET beside == Beside(st, access)
    IN  [modes |-> access.modes, kinds |-> access.kinds,
         beside |-> IF st.told \/ beside # {} THEN <<beside>> ELSE <<>>,
         mappings |-> IF "write" \in access.modes THEN st.mappings ELSE {}]

\* collect_table_access_from_statements, of one access of a statement.
WithAccess(c, from, owner, st, access, at) ==
    LET key == AccessKey(c, owner, access.name)
        with == WithTable(c, key)
        place == with.tables[key]
    IN  Linked(WithShortName(with, access.name, place),
               Edge("access", from, place, at, AccessSays(st, access)))

WithAccesses(c, from, owner, sql, at) ==
    FoldLeft(LAMBDA d, st :
                FoldLeft(LAMBDA e, access : WithAccess(e, from, owner, st, access, at),
                         d, st.accesses),
             c, sql)

\* add_package_table_access and the like, of the routines which have a node.
AccessesOf(c, st) ==
    FoldLeft(LAMBDA d, r :
                IF r.id \notin DOMAIN d.routines \/ r.body = <<>> THEN d
                ELSE WithAccesses(d, d.routines[r.id], r.id.schema, r.body[1].sql, st.at),
             c, Routines(st))

-----------------------------------------------------------------------------
(* Calls. *)

\* What looks like a call may index a variable or construct a value of a type.
IsCall(call, names) == call.sort # "expression" \/ <<Head(call.name)>> \notin names

\* Who calls in a statement outside of routines.
NoRoutine == RoutineId("none", <<>>, <<>>, "")

\* The calls of a statement, with their callers; types are those known in the chunk.
CallsOf(c, st, chunk) ==
    LET known == DOMAIN c.types \cup Declares(st, chunk, {"variable", "type"})
        Calls(r) == SelectSeq(r.body[1].calls,
                              LAMBDA call : IsCall(call, known \cup r.body[1].names))
        defined == IF st.create = "block" THEN <<[id |-> NoRoutine, body |-> st.body]>>
                   ELSE SelectSeq(Routines(st), LAMBDA r : r.body # <<>>)
    IN  FlattenSeq([i \in Places(defined) |->
            [k \in Places(Calls(defined[i])) |->
                [caller |-> defined[i].id, at |-> st.at] @@ Calls(defined[i])[k]]])

\* Of the calls with one name, by callers written alike, the first counts.
FirstCalls(calls) ==
    SelectSeq(Ascending(calls), LAMBDA i :
        \A j \in 1 .. i - 1 : ~(/\ Written(calls[j].caller) = Written(calls[i].caller)
                                /\ calls[j].name = calls[i].name))

\* The caller has its node under its kind or under the other one.
CallerOf(c, id) ==
    LET ids == {[id EXCEPT !.kind = kind] : kind \in RoutineKinds} \cap DOMAIN c.routines
    IN  IF id \in ids THEN {c.routines[id]} ELSE {c.routines[x] : x \in ids}

\* Mutant: a bare name is not looked for in the caller's package.
CalleeOutside(c, q, caller) ==
    LET found == {id \in DOMAIN c.routines : Written(id) = q}
    IN  {c.routines[id] : id \in {x \in found : Cardinality(found) = 1}}

\* The node a name stands for in a call: a routine of this name, then a procedure of
\* the package its schema may be, then any member of this name of such a package,
\* then, of a bare name, a member of the package of the caller.
CalleeOf(c, q, caller) ==
    LET asPackage == RoutineId("procedure", <<>>, Schema(q), Last(q))
        Indexed(id) == {c.routines[x] : x \in {id} \cap DOMAIN c.routines}
        places == <<Indexed(IdOf("procedure", q)), Indexed(IdOf("function", q)),
                    IF Qualified(q) THEN Indexed(asPackage) ELSE {},
                    IF Qualified(q) THEN PackageMember(c, Bare(Schema(q)), Last(q)) ELSE {},
                    IF Qualified(q) \/ caller.package = <<>> THEN {}
                    ELSE PackageMember(c, caller.package, Last(q))>>
        found == {i \in 1 .. 5 : places[i] # {}}
    IN  IF found = {} THEN {} ELSE places[Min(found)]

\* determine_call_scope
Scope(c, from, to) ==
    LET a == c.nodes[from].package b == c.nodes[to].package
    IN  IF ~IsRoutine(c.nodes[from]) \/ ~IsRoutine(c.nodes[to]) \/ <<>> \in {a, b}
        THEN "external" ELSE IF a = b THEN "intra" ELSE "cross"

CallEdge(c, call, from, to) ==
    Edge(IF call.sort = "dynamic" THEN "dynamic" ELSE "call", from, to, call.at,
         IF call.sort = "dynamic" THEN call.name ELSE <<Scope(c, from, to)>>)

BuiltinCall(c, call) ==
    LET with == WithBuiltin(c, call.name, call.at)
        callers == CallerOf(c, call.caller)
    IN  IF callers = {} THEN with
        ELSE Linked(with, Edge("uses", CHOOSE x \in callers : TRUE,
                               with.builtins[call.name], call.at, <<>>))

\* A callee which is not known is a placeholder, under the id of a procedure.
RoutineCall(c, call) ==
    LET callers == CallerOf(c, call.caller)
        from == CHOOSE x \in callers : TRUE
        to == CalleeOf(c, call.name, call.caller)
        with == [Added(c, Named("unresolved", call.name, Nowhere))
                   EXCEPT !.routines = Setting(@, IdOf("procedure", call.name), Len(c.nodes) + 1)]
    IN  CASE callers = {} -> c
          [] callers # {} /\ to # {} -> Linked(c, CallEdge(c, call, from, CHOOSE x \in to : TRUE))
          [] OTHER -> Linked(with, CallEdge(with, call, from, Newest(with)))

\* create_edges, of the calls of a chunk, when all its nodes are there.
WithCalls(c, chunk) ==
    LET statements == FlattenSeq(chunk)
        calls == FlattenSeq([i \in Places(statements) |-> CallsOf(c, statements[i], chunk)])
    IN  FoldLeft(LAMBDA d, i : IF calls[i].sort = "builtin" THEN BuiltinCall(d, calls[i])
                               ELSE RoutineCall(d, calls[i]),
                 c, FirstCalls(calls))

-----------------------------------------------------------------------------
(* Types, sequences and anchors. *)

WithTypes(c, from, types, at) ==
    FoldLeft(LAMBDA d, q : IF q \in DOMAIN d.types
                           THEN Linked(d, Edge("refers", from, d.types[q], at, <<>>)) ELSE d,
             c, types)

\* resolve_or_infer_sequence: by its very name, a defined one first.
WithSequence(c, q) ==
    IF q \in DOMAIN c.sequences \cup DOMAIN c.inferred THEN c
    ELSE [Added(c, Named("sequence", q, Nowhere))
            EXCEPT !.inferred = Setting(@, q, Len(c.nodes) + 1)]

SequenceAt(c, q) == IF q \in DOMAIN c.sequences THEN c.sequences[q] ELSE c.inferred[q]

WithSequences(c, from, sequences, at) ==
    FoldLeft(LAMBDA d, q :
                LET with == WithSequence(d, q)
                IN  Linked(with, Edge("draws", from, SequenceAt(with, q), at, <<>>)),
             c, sequences)

\* add_anchor_edge
WithAnchor(c, from, a, at) ==
    LET with == WithTable(c, a.object)
    IN  Linked(with, Edge("anchor", from, with.tables[a.object], at, <<a.column, a.site>>))

\* An anchor which this package has given the node already is not added again.
WithAnchors(c, from, anchors, at, package) ==
    FoldLeft(LAMBDA d, a :
                IF <<package, from, a>> \in d.seen THEN d
                ELSE WithAnchor([d EXCEPT !.seen = @ \cup {<<package, from, a>>}], from, a, at),
             c, anchors)

\* The anchors of a routine: of its parameters, but those which name what the package
\* declares or another parameter; of the type it returns; and of its body.
AnchorsOf(r, names) ==
    LET all == {<<p.name>> : p \in ToSet(r.parameters)}
        OfParameter(p) == Unguarded(p.anchors, names \cup (all \ {<<p.name>>}))
    IN  FlattenSeq([i \in Places(r.parameters) |-> OfParameter(r.parameters[i])])
        \o Unguarded(r.returns.anchors, names \cup all)
        \o IF r.body = <<>> THEN <<>> ELSE AnchorsIn(r.body[1].declares, names \cup all)

SignatureTypes(r) ==
    FlattenSeq([i \in Places(r.parameters) |-> r.parameters[i].types]) \o r.returns.types

\* A routine on its own: the types of its signature count too.
RoutineReferences(c, st, r) ==
    LET from == c.routines[r.id]
        body == IF r.body = <<>> THEN <<>> ELSE r.body[1].types
        drawn == IF r.body = <<>> THEN <<>> ELSE r.body[1].sequences
        typed == WithTypes(c, from, SignatureTypes(r) \o body, st.at)
        fresh == [WithSequences(typed, from, drawn, st.at) EXCEPT !.seen = {}]
    IN  [WithAnchors(fresh, from, AnchorsOf(r, {}), st.at, <<>>) EXCEPT !.seen = c.seen]

\* Those of the specification and of the body of a package are seen as one.
MemberReferences(c, st, r, chunk) ==
    LET from == c.routines[r.id]
        guards == Declares(st, chunk, {"variable", "type", "cursor"})
        anchored == WithAnchors(c, from, AnchorsOf(r, guards), st.at, st.name)
    IN  IF r.body = <<>> THEN anchored
        ELSE WithSequences(WithTypes(anchored, from, r.body[1].types, st.at),
                           from, r.body[1].sequences, st.at)

\* A variable or a type of a package anchors the package, unless it names a cursor
\* or what is declared before it.
ItemAnchors(c, st, i, chunk) ==
    LET before == Declares([st EXCEPT !.items = SubSeq(@, 1, i - 1)], chunk, {"variable", "type"})
        guards == before \cup Declares(st, chunk, {"cursor"})
    IN  FoldLeft(LAMBDA d, a : WithAnchor(d, d.packages[st.name], a, st.at),
                 c, IF st.name \in DOMAIN c.packages
                    THEN Unguarded(st.items[i].anchors, guards) ELSE <<>>)

\* collect_package_object_ref_edges
PackageReferences(c, st, chunk) ==
    FoldLeft(LAMBDA d, i :
                LET item == st.items[i]
                    r == [id |-> MemberId(item.kind, st.name, item.name)] @@ item
                IN  CASE item.kind \in {"variable", "type"} -> ItemAnchors(d, st, i, chunk)
                      [] IsRoutineItem(item) /\ r.id \in DOMAIN d.routines ->
                            MemberReferences(d, st, r, chunk)
                      [] OTHER -> d,
             c, Ascending(st.items))

ReferencesOf(c, st, chunk) ==
    CASE st.create \in {"package", "body"} -> PackageReferences(c, st, chunk)
      [] st.create = "routine" ->
            LET r == Routines(st)[1]
            IN  IF r.id \in DOMAIN c.routines THEN RoutineReferences(c, st, r) ELSE c
      [] OTHER -> c

-----------------------------------------------------------------------------
(* The tables beside the graph. *)

\* collect_procedure_predicates: the last body of a routine with predicates counts.
WithPredicates(c, st) ==
    FoldLeft(LAMBDA d, r :
                IF r.body = <<>> \/ r.body[1].predicates = {} THEN d
                ELSE [d EXCEPT !.predicates = Setting(@, r.id, r.body[1].predicates)],
             c, Routines(st))

\* Mutant: the last definition counts.
WithLastParameters(c, st) ==
    FoldLeft(LAMBDA d, r : [d EXCEPT !.parameters =
                              Setting(@, r.id, [of |-> st.at, list |-> r.parameters])],
             c, Routines(st))

\* collect_routine_parameters: the first definition counts, of a package's routine
\* the first one with a body.
WithParameters(c, st) ==
    FoldLeft(LAMBDA d, r :
                IF r.body = <<>> /\ st.create # "routine" THEN d
                ELSE [d EXCEPT !.parameters = Keeping(@, r.id, [of |-> st.at, list |-> r.parameters])],
             c, Routines(st))

=============================================================================
