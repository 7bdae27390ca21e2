----------------------------- MODULE CgefImport -----------------------------
(***************************************************************************)
(* The import of CGEF documents (src/import): what validator.rs reports,   *)
(* what parser.rs makes of a document all the same, and when the command   *)
(* saves it.                                                               *)
(***************************************************************************)
EXTENDS PetGraph, FiniteSetsExt

CONSTANTS
    NoName,       \* a key field which is missing
    NoFile        \* where a node has no location

\* A document of the version that is supported: nodes with an id, a kind ("proc", "table", "mapper" or a custom
\* one), schema, name, file, partial and the statements in it; edges with the ids
\* of their ends, a type, modes and kind of flow; and the custom types it declares.

Standard == {"proc", "table", "mapper"}

StandardEdges == {"call", "access"}

-----------------------------------------------------------------------------

Ids(doc) == {n.id : n \in ToSet(doc.nodes)}

\* The first node with an id is not a duplicate.
Duplicates(doc) ==
    {i \in Places(doc.nodes) : \E j \in 1 .. i - 1 : doc.nodes[j].id = doc.nodes[i].id}

Dangling(doc) ==
    {k \in Places(doc.edges) : ~{doc.edges[k].source, doc.edges[k].target} \subseteq Ids(doc)}

Undeclared(doc) ==
    ({n.kind : n \in ToSet(doc.nodes)} \ (Standard \cup doc.nodeTypes)) \cup
    ({e.type : e \in ToSet(doc.edges)} \ (StandardEdges \cup doc.edgeTypes))

Valid(doc) == Duplicates(doc) = {} /\ Dangling(doc) = {} /\ Undeclared(doc) = {}

\* The key is there: a standard node always needs it, a custom one if it has a schema.
Keyed(doc, n) == n.name # NoName \/ n.kind \notin Standard \cup doc.nodeTypes

\* convert_node takes what has a key, and a routine only with its location.
Converts(doc, n) == Keyed(doc, n) /\ (n.kind = "proc" => n.file # NoFile)

\* A table is one that was seen, never one that was defined, wherever it is.
Converted(n) ==
    [kind |-> n.kind, schema |-> n.schema, name |-> n.name,
     rich |-> n.kind = "proc" /\ ~n.partial,
     file |-> IF n.kind = "table" THEN NoFile ELSE n.file,
     sql |-> n.sql, variants |-> {}]

Taken(doc) == {i \in Places(doc.nodes) : Converts(doc, doc.nodes[i])}

\* id_map: the node an id stands for is the last one which has it.
NodeOf(doc, id) == {i \in Taken(doc) : doc.nodes[i].id = id
                        /\ \A j \in Taken(doc) : doc.nodes[j].id = id => j <= i}

\* The edges both ends of which were taken.
Joining(doc) ==
    {k \in Places(doc.edges) : NodeOf(doc, doc.edges[k].source) # {}
                              /\ NodeOf(doc, doc.edges[k].target) # {}}

\* The parser has nothing to report: all nodes and the ends of all edges were taken.
Parsed(doc) == Taken(doc) = Places(doc.nodes) /\ Joining(doc) = Places(doc.edges)

\* The graph: the nodes which convert, renumbered, and the edges between them.
GraphOf(doc) ==
    LET Number(id) == Rank(Taken(doc), Max(NodeOf(doc, id)))
        nodes == Kept(doc.nodes, Taken(doc))
        edges == Kept(doc.edges, Joining(doc))
    IN  [nodes |-> [i \in Places(nodes) |-> Converted(nodes[i])],
         edges |-> [k \in Places(edges) |->
                      [from |-> Number(edges[k].source), to |-> Number(edges[k].target),
                       tag |-> edges[k].type, modes |-> edges[k].modes,
                       flow |-> edges[k].flow, column |-> edges[k].column]]]

\* Mutant: what the parser reports is no more than a warning.
AcceptedWhenValid(doc, force) == force \/ Valid(doc)

\* Any error refuses the document, unless it is forced.
Accepted(doc, force) == force \/ (Valid(doc) /\ Parsed(doc))

=============================================================================
