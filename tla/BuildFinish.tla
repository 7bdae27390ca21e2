----------------------------- MODULE BuildFinish ----------------------------
(***************************************************************************)
(* The end of a build (finalize_graph of src/graph/builder.rs): tables     *)
(* which are seen under two names become one, comments find their columns, *)
(* accesses are united, placeholders resolved, and edges which are there   *)
(* twice dropped.                                                          *)
(***************************************************************************)
EXTENDS BuildContext

-----------------------------------------------------------------------------
(* dedup_table_view_nodes *)

Views(c) == {i \in Places(c.nodes) : c.nodes[i].kind \in {"view", "mview"}}

Tables(c) == {i \in Places(c.nodes) : c.nodes[i].kind = "table"}

\* The first view of a name, with or without its schema.
ViewOf(c, q) ==
    LET named == {i \in Views(c) : q \in {Written(c.nodes[i]), <<c.nodes[i].name>>}}
    IN  IF named = {} THEN {} ELSE {Min(named)}

InSchema(n) == n.schema # <<>>

\* The nodes which go, each with the one that takes its edges: a table of the name of a
\* view, and the first table without a schema, for the first one with a schema.
Merges(c) ==
    LET views == {<<i, v>> \in Tables(c) \X Views(c) : v \in ViewOf(c, Written(c.nodes[i]))}
        left == Tables(c) \ {m[1] : m \in views}
        Same(i) == {j \in left : /\ c.nodes[j].name = c.nodes[i].name
                                 /\ InSchema(c.nodes[j]) = InSchema(c.nodes[i])}
        first == {i \in left : \A j \in Same(i) : i <= j}
    IN  views \cup {<<i, j>> \in first \X first :
                        /\ ~InSchema(c.nodes[i]) /\ InSchema(c.nodes[j])
                        /\ c.nodes[i].name = c.nodes[j].name}

Moved(edge, i, j) ==
    [edge EXCEPT !.from = IF @ = i THEN j ELSE @, !.to = IF @ = i THEN j ELSE @]

\* The edges of node i are added to node j, those of one pair of nodes as often as
\* there are of them.
Rewired(edges, i, j) ==
    LET touching == SelectSeq(edges, LAMBDA e : i \in {e.from, e.to})
        Copies(e) == SelectSeq(touching, LAMBDA f : f.from = e.from /\ f.to = e.to)
        copies == FlattenSeq([k \in Places(touching) |-> Copies(touching[k])])
    IN  edges \o [k \in Places(copies) |-> Moved(copies[k], i, j)]

DedupTables(c) ==
    LET merges == Merges(c)
        Into(i) == {m[2] : m \in {x \in merges : x[1] = i}}
        edges == FoldLeft(LAMBDA es, i : IF Into(i) = {} THEN es
                                         ELSE Rewired(es, i, Min(Into(i))),
                          c.edges, Ascending(c.nodes))
    IN  RemoveNodes([c EXCEPT !.edges = edges], {m[1] : m \in merges})

-----------------------------------------------------------------------------
(* apply_deferred_column_comments *)

\* The table is looked up by the number it had before others were removed.
ApplyComment(c, comment) ==
    LET place == IF comment.table \in DOMAIN c.tables THEN c.tables[comment.table] ELSE 0
    IN  IF \/ place \notin Places(c.nodes)
           \/ c.nodes[place].kind # "table"
           \/ comment.column \notin DOMAIN c.nodes[place].columns
        THEN c
        ELSE [c EXCEPT !.nodes[place].columns[comment.column].comment = comment.text]

\* Mutant: only the first comment is applied.
ApplyFirstComment(c) ==
    IF c.comments = <<>> THEN c ELSE ApplyComment(c, Head(c.comments))

ApplyComments(c) == FoldLeft(ApplyComment, c, c.comments)

-----------------------------------------------------------------------------
(* merge_table_access_edges *)

\* Mutant: the first access is left as it is.
FirstAccesses(c) ==
    LET accesses == {k \in Places(c.edges) : c.edges[k].tag = "access"}
    IN  [c EXCEPT !.edges = RemoveDescending(@, {k \in accesses : \E l \in accesses :
            /\ l < k /\ c.edges[l].from = c.edges[k].from /\ c.edges[l].to = c.edges[k].to})]

\* Of the accesses of one node to another the first is left, with the modes of all. Their
\* flow_kind is DmlAccess, as it is of every access the builder makes.
MergeAccesses(c) ==
    LET IsAccess(e) == e.tag = "access"
        With(k) == {l \in Places(c.edges) :
                      /\ IsAccess(c.edges[l])
                      /\ c.edges[l].from = c.edges[k].from /\ c.edges[l].to = c.edges[k].to}
        United(k) ==
            [c.edges[k] EXCEPT !.says =
                [modes |-> UNION {c.edges[l].says.modes : l \in With(k)},
                 kinds |-> UNION {c.edges[l].says.kinds : l \in With(k)},
                 beside |-> IF \A l \in With(k) : c.edges[l].says.beside = <<>> THEN <<>>
                            ELSE <<UNION {UNION ToSet(c.edges[l].says.beside) : l \in With(k)}>>,
                 mappings |-> UNION {c.edges[l].says.mappings : l \in With(k)}]]
        accesses == {k \in Places(c.edges) : IsAccess(c.edges[k])}
    IN  [c EXCEPT !.edges =
            RemoveDescending([k \in Places(c.edges) |->
                                IF k \in accesses THEN United(k) ELSE c.edges[k]],
                             {k \in accesses : \E l \in With(k) : l < k})]

-----------------------------------------------------------------------------
(* resolve_unresolved_nodes *)

CollectionMethods ==
    {"extend", "trim", "delete", "count", "first", "last", "next", "prior", "exists"}

CONSTANTS
    Expression,   \* the name of a dynamic call of an expression
    Builtin       \* the functions the parser knows

\* noise_rule: names that are taken for something else than a routine.
IsNoise(q) ==
    \/ q = Expression
    \/ Qualified(q) /\ (Head(q) = "self" \/ Last(q) \in CollectionMethods)
    \/ q \in Builtin

Routine(c) == {i \in Places(c.nodes) : IsRoutine(c.nodes[i])}

\* try_resolve_routine: the routine a name stands for in a call from these schemas, and
\* whether the schema of the caller decided.
Resolve(c, q, schemas) ==
    LET named == {i \in Routine(c) : c.nodes[i].name = Last(q)}
        exact == {i \in Routine(c) : Written(c.nodes[i]) = q}
        member == {i \in named : Qualified(q) /\ Schema(q) \in
                     {c.nodes[i].package} \cup
                     (IF c.nodes[i].package = <<>> THEN {c.nodes[i].schema} ELSE {})}
        near == {i \in named : InSchema(c.nodes[i]) /\ c.nodes[i].schema \in schemas}
        default == {i \in named : ~InSchema(c.nodes[i])}
        First(set) == IF set = {} THEN {} ELSE {Min(set)}
    IN  CASE exact # {} -> [to |-> First(exact), byCaller |-> FALSE]
          [] exact = {} /\ Cardinality(named) = 1 -> [to |-> named, byCaller |-> FALSE]
          [] exact = {} /\ Cardinality(named) # 1 /\ member # {} ->
                [to |-> First(member), byCaller |-> FALSE]
          [] exact = {} /\ Cardinality(named) # 1 /\ member = {} /\ near # {} ->
                [to |-> First(near), byCaller |-> TRUE]
          [] OTHER -> [to |-> First(IF default # {} THEN default ELSE named),
                       byCaller |-> FALSE]

Callers(c, i) == {e.from : e \in {x \in ToSet(c.edges) : x.to = i}}

SchemasOf(c, callers) == {c.nodes[i].schema : i \in callers \cap Routine(c)} \ {<<>>}

\* Mutant: the schemas of all callers decide together.
TargetOfAll(c, i, caller) ==
    Resolve(c, Written(c.nodes[i]), SchemasOf(c, Callers(c, i))).to

\* Where the call of one caller goes: callers of several schemas are told apart if
\* their schemas decide.
Target(c, i, caller) ==
    LET q == Written(c.nodes[i])
        schemas == SchemasOf(c, Callers(c, i))
        all == Resolve(c, q, schemas)
    IN  IF all.byCaller /\ Cardinality(schemas) > 1
        THEN Resolve(c, q, SchemasOf(c, {caller})).to ELSE all.to

ResolvePlaceholders(c) ==
    LET placeholders == {i \in Places(c.nodes) : c.nodes[i].kind = "unresolved"}
        noise == {i \in placeholders : IsNoise(Written(c.nodes[i]))}
        resolved == {i \in placeholders \ noise :
                        Resolve(c, Written(c.nodes[i]), {}).to # {}}
        into == SelectSeq(c.edges, LAMBDA e : e.to \in resolved)
        Twins(e) == SelectSeq(into, LAMBDA f : f.from = e.from /\ f.to = e.to)
        twins == FlattenSeq([k \in Places(into) |-> Twins(into[k])])
        moved == [k \in Places(twins) |->
                    [twins[k] EXCEPT !.to = Min(Target(c, @, twins[k].from))]]
    IN  RemoveNodes([c EXCEPT !.edges = @ \o moved], noise \cup resolved)

-----------------------------------------------------------------------------

\* Mutant: only the copy next to an edge goes.
DropNeighbours(c) ==
    [c EXCEPT !.edges =
        RemoveDescending(@, {k \in Places(@) : k > 1 /\ c.edges[k - 1] = c.edges[k]})]

\* drop_identical_duplicate_edges: of edges which say the same the first is left.
DropIdentical(c) ==
    [c EXCEPT !.edges =
        RemoveDescending(@, {k \in Places(@) : \E l \in 1 .. k - 1 : c.edges[l] = c.edges[k]})]

=============================================================================
