------------------------------- MODULE Lineage -------------------------------
(***************************************************************************)
(* Where the data of a table or of a column comes from and where it goes   *)
(* (src/graph/lineage.rs), told from the accesses of routines to tables    *)
(* and from what views depend on; and which routines lock each other out.  *)
(***************************************************************************)
EXTENDS BuildContext

\* The side of a routine a table is on, and that of the table its data is followed to.
Wanted(direction) == IF direction = "upstream" THEN "write" ELSE "read"

Hop(direction) == IF direction = "upstream" THEN "read" ELSE "write"

Between(c, from, to, tag) == {e \in ToSet(c.edges) : e.tag = tag /\ e.from = from /\ e.to = to}

From(c, i, tag) == {e \in ToSet(c.edges) : e.tag = tag /\ e.from = i}

Into(c, i, tag) == {e \in ToSet(c.edges) : e.tag = tag /\ e.to = i}

\* Those which read a table upstream of it write it, those downstream read it.
Users(c, i, direction) ==
    {e.from : e \in {e \in Into(c, i, "access") : Wanted(direction) \in e.says.modes}}

\* The tables on the other side of routine r, of the same statement, as far as the
\* accesses tell: upstream the access of this table tells, downstream those of the
\* others. If none of the accesses of this table tells, all count.
OfStatements(c, i, r, direction) ==
    LET wanted == {e \in Between(c, r, i, "access") : Wanted(direction) \in e.says.modes}
        told == UNION {ToSet(e.says.beside) : e \in wanted}
        Allowed(e) == CASE told = {} -> TRUE
                        [] told # {} /\ direction = "upstream" -> c.nodes[e.to].name \in UNION told
                        [] OTHER -> c.nodes[i].name \in UNION ToSet(e.says.beside)
    IN  {e.to : e \in {e \in From(c, r, "access") : Hop(direction) \in e.says.modes /\ Allowed(e)}}

\* One step on: by a routine, or, between a view and what it depends on, by the view.
Hops(c, i, direction) ==
    UNION {{[near |-> i, by |-> r, far |-> j] : j \in OfStatements(c, i, r, direction)} :
              r \in Users(c, i, direction)}
    \cup IF direction = "upstream"
         THEN {[near |-> i, by |-> i, far |-> e.to] : e \in From(c, i, "depends")}
         ELSE {[near |-> i, by |-> e.from, far |-> e.from] : e \in Into(c, i, "depends")}

RECURSIVE Tree(_, _, _, _, _)

\* build_table_lineage: the hops of the tree below a table; a table is not below itself.
Tree(c, i, direction, depth, above) ==
    IF depth = 0 THEN {}
    ELSE LET hops == {h \in Hops(c, i, direction) : h.far \notin above}
         IN  hops \cup UNION {Tree(c, h.far, direction, depth - 1, above \cup {h.far}) : h \in hops}

\* lineage_table
TableLineage(c, i, direction, depth) == Tree(c, i, direction, depth, {i})

-----------------------------------------------------------------------------
(* Columns. *)

IsTableOrView(n) == n.kind \in {"table", "view"}

\* lookup_table_node, find_table_node: with a schema the first one counts, without one
\* the only one of this name in any schema.
FindTable(c, q) ==
    LET found == {i \in Places(c.nodes) :
                    /\ IsTableOrView(c.nodes[i])
                    /\ c.nodes[i].name = Last(q)
                    /\ Qualified(q) => c.nodes[i].schema = Schema(q)}
    IN  IF found = {} \/ (~Qualified(q) /\ Cardinality(found) > 1) THEN {} ELSE {Min(found)}

\* mappings_of_routine, for the routines on the wanted side of a table, and those of the
\* views beside it; each with the node which makes it.
MappingsBeside(c, i, direction) ==
    {[by |-> r, mapping |-> m] : <<r, m>> \in
        UNION {UNION {{<<r, m>> : m \in e.says.mappings} : e \in From(c, r, "access")} :
                  r \in Users(c, i, direction)}}
    \cup {[by |-> e.from, mapping |-> m] : <<e, m>> \in
        UNION {{<<e, m>> : m \in e.says} :
                  e \in IF direction = "upstream" THEN From(c, i, "depends") ELSE Into(c, i, "depends")}}

Fills(mapping, q, column) == <<mapping.table>> = q /\ mapping.column = column

Consumes(mapping, q, column) ==
    \E s \in mapping.sources : s.is = "column" /\ <<s.table>> = q /\ s.column = column

\* The steps of a column: upstream to each source of a mapping which fills it, downstream
\* to what a mapping which consumes it fills.
ColumnSteps(c, i, q, column, direction) ==
    LET beside == MappingsBeside(c, i, direction)
    IN  IF direction = "upstream"
        THEN UNION {{[by |-> b.by, to |-> s] : s \in b.mapping.sources} :
                       b \in {b \in beside : Fills(b.mapping, q, column)}}
        ELSE {[by |-> b.by, to |-> [is |-> "column", table |-> b.mapping.table,
                                    column |-> b.mapping.column]] :
                 b \in {b \in beside : Consumes(b.mapping, q, column)}}

RECURSIVE ColumnTree(_, _, _, _, _, _)

\* lineage_column: what is seen on the way from a column, that of a table by the name it
\* is asked for; a column is not below itself, and below a table which is not known is none.
ColumnTree(c, q, column, direction, depth, above) ==
    IF depth = 0 \/ <<q, column>> \in above \/ FindTable(c, q) = {} THEN {}
    ELSE LET i == CHOOSE i \in FindTable(c, q) : TRUE
             seen == {s.to : s \in ColumnSteps(c, i, q, column, direction)}
         IN  seen \cup UNION {ColumnTree(c, <<s.table>>, s.column, direction, depth - 1,
                                         above \cup {<<q, column>>}) :
                                 s \in {s \in seen : s.is = "column"}}

ColumnLineage(c, q, column, direction, depth) == ColumnTree(c, q, column, direction, depth, {})

-----------------------------------------------------------------------------
(* Which routines would wait for each other's table locks if they ran at the *)
(* same time (src/graph/conflict.rs).                                        *)

\* The modes, by the levels of their locks.
Levels ==
    <<"read", "lockread", "write", "shareupdateexclusive", "share", "sharerowexclusive",
      "exclusive", "accessexclusive">>

\* CONFLICT: the levels each level conflicts with.
Conflict == <<{8}, {7, 8}, 5 .. 8, 4 .. 8, {3, 4, 6, 7, 8}, 3 .. 8, 2 .. 8, 1 .. 8>>

\* Mutant: a level does not conflict with itself.
OnlyOthers(a, b) ==
    \E i, j \in 1 .. 8 : Levels[i] \in a /\ Levels[j] \in b /\ j \in Conflict[i] \ {i}

\* locks_conflict, of the modes of two routines.
LocksConflict(a, b) ==
    \E i, j \in 1 .. 8 : Levels[i] \in a /\ Levels[j] \in b /\ j \in Conflict[i]

Severity(a, b) == IF "accessexclusive" \in a \cup b THEN "high" ELSE "medium"

\* The accesses that are locks: of routines, to tables and views.
Locks(c) ==
    {e \in ToSet(c.edges) : /\ e.tag = "access"
                            /\ IsRoutine(c.nodes[e.from])
                            /\ c.nodes[e.to].kind \in {"table", "view", "mview"}}

\* A routine takes all its locks on a table together.
ModesOn(c, routine, table) ==
    UNION {e.says.modes : e \in {e \in Locks(c) : e.from = routine /\ e.to = table}}

\* find_conflicts, conflicts_among: of two routines, never of one with itself.
Conflicts(c) ==
    LET Modes(r, t) == ModesOn(c, r, t)
    IN  {[table |-> x.t, a |-> x.a, b |-> x.b, severity |-> Severity(Modes(x.a, x.t), Modes(x.b, x.t))] :
            x \in {x \in [t : {e.to : e \in Locks(c)}, a : {e.from : e \in Locks(c)},
                          b : {e.from : e \in Locks(c)}] :
                      x.a < x.b /\ LocksConflict(Modes(x.a, x.t), Modes(x.b, x.t))}}

=============================================================================
