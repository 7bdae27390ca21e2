---------------------------- MODULE MCGraphStore ----------------------------
(***************************************************************************)
(* Stores of an analysis of two schemas, one of which calls a routine      *)
(* without naming its schema, and of three documents: one of traces, one   *)
(* which describes a routine twice, and one with every error.              *)
(***************************************************************************)
EXTENDS GraphStore

CONSTANTS
    s1, s2,       \* schemas
    f1, f2, f3,   \* source files
    p, t, m       \* names

Symmetry == Permutations(Store)

Schemas == {s1, s2}

Proc(schema, name, rich, file) ==
    [kind |-> "proc", schema |-> schema, name |-> name, rich |-> rich,
     file |-> file, sql |-> {"a"}, variants |-> {}]

Table(schema, name, rich, file) ==
    [kind |-> "table", schema |-> schema, name |-> name, rich |-> rich,
     file |-> file, sql |-> {}, variants |-> {}]

Mapper(name, file) ==
    [kind |-> "mapper", schema |-> NoSchema, name |-> name, rich |-> FALSE,
     file |-> file, sql |-> {"a"}, variants |-> {"b"}]

Link(from, to, tag) ==
    [from |-> from, to |-> to, tag |-> tag, modes |-> {}, flow |-> "dml",
     column |-> NoColumn]

Access(from, to, modes) == [Link(from, to, "access") EXCEPT !.modes = modes]

Anchor(from, to, column) == [Link(from, to, "anchor") EXCEPT !.column = column]

\* A mapper calls s1.p, which reads t and is anchored on two of its columns.
First ==
    [nodes |-> <<Proc(s1, p, TRUE, f1), Table(NoSchema, t, TRUE, f1), Mapper(m, f1)>>,
     edges |-> <<Link(3, 1, "call"), Access(1, 2, {"read"}),
                 Anchor(1, 2, "c1"), Anchor(1, 2, "c2")>>]

\* s2.p calls itself and a p of which there is only a trace, and writes t.
Second ==
    [nodes |-> <<Proc(s2, p, TRUE, f2), Proc(NoSchema, p, FALSE, f2),
                 Table(NoSchema, t, FALSE, NoFile)>>,
     edges |-> <<Link(1, 1, "call"), Link(1, 2, "call"), Access(1, 3, {"write"}),
                 Anchor(1, 3, "c1")>>]

Graphs == {First, Second}

Node(id, kind, schema, name, file, partial) ==
    [id |-> id, kind |-> kind, schema |-> schema, name |-> name, file |-> file,
     partial |-> partial, sql |-> {}]

Edge(source, target, type, modes) ==
    [source |-> source, target |-> target, type |-> type, modes |-> modes,
     flow |-> "dml", column |-> NoColumn]

\* A trace of a p and one of s1.p, both read t; a job, which is a custom node.
Traces ==
    [nodeTypes |-> {"job"}, edgeTypes |-> {"starts"},
     nodes |-> <<Node(1, "proc", NoSchema, p, f3, TRUE), Node(2, "proc", s1, p, f3, TRUE),
                 Node(3, "table", NoSchema, t, NoFile, FALSE),
                 Node(4, "job", NoSchema, m, NoFile, FALSE)>>,
     edges |-> <<Edge(1, 3, "access", {"read"}), Edge(2, 3, "access", {"read"}),
                 Edge(4, 1, "starts", {})>>]

\* s1.p three times, traced twice before it is defined, each with edges.
Twice ==
    [nodeTypes |-> {}, edgeTypes |-> {},
     nodes |-> <<Node(1, "proc", s1, p, f3, TRUE), Node(4, "proc", s1, p, f3, TRUE),
                 Node(3, "table", NoSchema, t, NoFile, FALSE),
                 Node(2, "proc", s1, p, f3, FALSE), Node(5, "proc", s2, p, f3, TRUE)>>,
     edges |-> <<Edge(1, 3, "access", {"read"}), Edge(2, 3, "access", {"write"}),
                 Edge(4, 3, "access", {"read"}), Edge(1, 4, "call", {}),
                 Edge(5, 1, "call", {}), Edge(5, 2, "call", {}), Edge(4, 5, "call", {})>>]

\* A routine without a place comes first; two nodes have one id; an edge leads
\* nowhere.
Broken ==
    [nodeTypes |-> {}, edgeTypes |-> {},
     nodes |-> <<Node(1, "proc", s1, p, NoFile, TRUE), Node(2, "proc", s2, p, f3, FALSE),
                 Node(3, "table", NoSchema, t, NoFile, FALSE),
                 Node(3, "table", s1, t, NoFile, FALSE),
                 Node(4, "job", NoSchema, NoName, NoFile, FALSE)>>,
     edges |-> <<Edge(2, 3, "access", {"read"}), Edge(1, 3, "access", {"read"}),
                 Edge(2, 5, "call", {}), Edge(4, 2, "starts", {})>>]

\* Valid, but a routine has no place.
Placeless ==
    [nodeTypes |-> {}, edgeTypes |-> {},
     nodes |-> <<Node(1, "proc", s1, p, f3, FALSE), Node(2, "proc", s2, p, NoFile, FALSE)>>,
     edges |-> <<Edge(1, 2, "call", {})>>]

Documents == {Traces, Twice, Broken, Placeless}

=============================================================================
