---------------------------- MODULE BuildContext ----------------------------
(***************************************************************************)
(* What the graph builder (src/graph/builder.rs) carries from one file to  *)
(* the next: the graph so far and an index for each kind of thing that is  *)
(* looked up by its name, from the name to the number of the node.         *)
(***************************************************************************)
EXTENDS PetGraph, FiniteSetsExt

CONSTANTS
    Nowhere       \* where a thing is that no source defines

\* A name is the sequence of its parts, in one case: the last part is the thing's,
\* those before are its schema.
Qualified(q) == Len(q) > 1

Schema(q) == Front(q)

Bare(q) == <<Last(q)>>

\* A routine is known by its kind, schema, package and name.
RoutineId(kind, schema, package, name) ==
    [kind |-> kind, schema |-> schema, package |-> package, name |-> name]

\* Mutant: routines of one name are one, whatever their kind.
IdOfAnyKind(kind, q) == RoutineId("procedure", Schema(q), <<>>, Last(q))

\* from_object_name, from_qualified_name: what comes before the name is the schema.
IdOf(kind, q) == RoutineId(kind, Schema(q), <<>>, Last(q))

MemberId(kind, pkg, name) == RoutineId(kind, Schema(pkg), Bare(pkg), name)

\* How a routine is written: its kind does not show.
Written(id) == id.schema \o id.package \o <<id.name>>

-----------------------------------------------------------------------------

\* A node has a kind, a name and the place in the sources that defines it; a table
\* has columns, each with its comment and whether it is a key.
Node(kind, id, at) ==
    [kind |-> kind, schema |-> id.schema, package |-> id.package, name |-> id.name,
     at |-> at, columns |-> <<>>]

Named(kind, q, at) == Node(kind, IdOf(kind, q), at)

RoutineKinds == {"procedure", "function"}

IsRoutine(n) == n.kind \in RoutineKinds

\* An edge has what its kind says of it beside its ends and its place.
Edge(tag, from, to, at, says) ==
    [tag |-> tag, from |-> from, to |-> to, at |-> at, says |-> says]

\* seen are the anchors of the packages of a chunk; order is that of the hash maps
\* which are walked through.
NewContext(order) ==
    [nodes |-> <<>>, edges |-> <<>>, routines |-> <<>>, packages |-> <<>>,
     mappers |-> <<>>, tables |-> <<>>, types |-> <<>>, sequences |-> <<>>,
     inferred |-> <<>>, builtins |-> <<>>, comments |-> <<>>,
     predicates |-> <<>>, parameters |-> <<>>, seen |-> {}, order |-> order]

-----------------------------------------------------------------------------

Added(c, node) == [c EXCEPT !.nodes = Append(@, node)]

Newest(c) == Len(c.nodes)

Linked(c, edge) == [c EXCEPT !.edges = Append(@, edge)]

\* entry(key).or_insert(value)
Keeping(index, key, value) == index @@ (key :> value)

\* insert(key, value)
Setting(index, key, value) == (key :> value) @@ index

\* Of several values under one key of a map made from another the last one stays,
\* in the order of that hash map.
Some(c, set) == IF c.order = "ascending" THEN Max(set) ELSE Min(set)

\* entry(id).or_insert_with(add a node)
WithRoutine(c, id, node) ==
    IF id \in DOMAIN c.routines THEN c
    ELSE [Added(c, node) EXCEPT !.routines = Setting(@, id, Len(c.nodes) + 1)]

\* A table no source has defined so far is added where it is mentioned.
WithTable(c, q) ==
    IF q \in DOMAIN c.tables THEN c
    ELSE [Added(c, Named("table", q, Nowhere))
            EXCEPT !.tables = Setting(@, q, Len(c.nodes) + 1)]

\* The first thing of a schema is found without its schema as well.
WithShortName(c, q, place) ==
    IF Qualified(q) THEN [c EXCEPT !.tables = Keeping(@, Bare(q), place)] ELSE c

\* find_or_create_builtin_node
WithBuiltin(c, name, at) ==
    IF name \in DOMAIN c.builtins THEN c
    ELSE [Added(c, Named("builtin", name, at))
            EXCEPT !.builtins = Setting(@, name, Len(c.nodes) + 1)]

\* Routines by their package and name, which schemas and kinds do not tell apart.
PackageMember(c, package, name) ==
    LET ids == {id \in DOMAIN c.routines : id.package = package /\ id.name = name}
        found == {c.routines[id] : id \in ids}
    IN  IF found = {} THEN {} ELSE {Some(c, found)}

=============================================================================
