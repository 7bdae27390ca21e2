----------------------------- MODULE TableAccess ----------------------------
(***************************************************************************)
(* Which tables a SQL statement reads, writes and locks                    *)
(* (TableAccessExtractor of src/parser/extractor.rs): a walk over the      *)
(* statement which knows the names its WITH clauses define.                *)
(*                                                                         *)
(* An expression has parts and at most one query of its own. A query has   *)
(* its WITH clause, its targets, its FROM list, the other expressions in   *)
(* it, the right side of a UNION or the like, the tables it is selected    *)
(* into and, if it locks what it reads, the names after OF. A name is the  *)
(* sequence of its parts.                                                  *)
(***************************************************************************)
EXTENDS Naturals, Sequences, SequencesExt, FiniteSets

\* What is found so far, and the names of the WITH clauses around.
NewAccesses == [accesses |-> <<>>, scopes |-> <<>>]

\* add_access: one entry for a name, with all modes and kinds of writes.
Add(x, name, mode, kinds) ==
    LET at == {i \in DOMAIN x.accesses : x.accesses[i].name = name}
    IN  IF at = {}
        THEN [x EXCEPT !.accesses = Append(@, [name |-> name, modes |-> {mode}, kinds |-> kinds])]
        ELSE LET i == CHOOSE i \in at : TRUE
             IN  [x EXCEPT !.accesses[i].modes = @ \cup {mode}, !.accesses[i].kinds = @ \cup kinds]

AddAll(x, names, mode, kinds) == FoldLeft(LAMBDA y, name : Add(y, name, mode, kinds), x, names)

\* is_cte_reference: the last part of the name is that of a WITH clause around.
IsCte(scopes, name) == \E scope \in ToSet(scopes) : Last(name) \in scope

CteNames(with) == {cte.name : cte \in ToSet(with)}

Scoped(x, with) == [x EXCEPT !.scopes = Append(@, CteNames(with))]

Unscoped(x) == [x EXCEPT !.scopes = Front(@)]

-----------------------------------------------------------------------------

RECURSIVE QueriesIn(_)

\* walk_expr_subqueries
QueriesIn(expr) == FlattenSeq([i \in DOMAIN expr.of |-> QueriesIn(expr.of[i])]) \o expr.query

\* The expressions of a query that may have queries in them.
ExpressionsOf(query) ==
    [i \in DOMAIN query.targets |-> query.targets[i].expr] \o query.rest

RECURSIVE OfQuery(_, _)

OfQueries(x, queries) == FoldLeft(OfQuery, x, queries)

OfExpressions(x, exprs) ==
    OfQueries(x, FlattenSeq([i \in DOMAIN exprs |-> QueriesIn(exprs[i])]))

OfWith(x, with) == OfQueries(x, [i \in DOMAIN with |-> with[i].query])

RECURSIVE OfRef(_, _, _, _)

\* extract_reads_from_table_refs, extract_writes_from_table_refs: what a WITH clause
\* defines is no table, and a query in FROM is read in any case.
OfRef(x, ref, mode, kinds) ==
    CASE ref.ref = "table" -> IF IsCte(x.scopes, ref.name) THEN x ELSE Add(x, ref.name, mode, kinds)
      [] ref.ref = "join" -> OfRef(OfRef(x, ref.left, mode, kinds), ref.right, mode, kinds)
      [] ref.ref = "query" -> OfQuery(x, ref.query)
      [] OTHER -> x

OfRefs(x, refs, mode, kinds) == FoldLeft(LAMBDA y, ref : OfRef(y, ref, mode, kinds), x, refs)

\* FOR UPDATE and the like lock the tables named after OF, or those FROM names itself.
Locked(x, query) ==
    LET named == SelectSeq(query.from, LAMBDA r : r.ref = "table" /\ ~IsCte(x.scopes, r.name))
    IN  CASE query.lock = <<>> -> x
          [] query.lock # <<>> /\ query.lock[1] # <<>> -> AddAll(x, query.lock[1], "lockread", {})
          [] OTHER -> AddAll(x, [i \in DOMAIN named |-> named[i].name], "lockread", {})

\* visit_select: the right side of a UNION, what it is selected into, FROM, the WITH
\* clause and the queries in expressions, all in the scope of its own WITH clause.
OfQuery(x, query) ==
    LET united == OfQueries(Scoped(x, query.with), query.union)
        into == AddAll(united, query.into, "write", {"selectinto"})
        from == Locked(OfRefs(into, query.from, "read", {}), query)
    IN  Unscoped(OfExpressions(OfWith(from, query.with), ExpressionsOf(query)))

-----------------------------------------------------------------------------
(* The other statements. *)

\* visit_insert
OfInsert(x, st) ==
    LET kind == IF st.query # <<>> THEN "insertselect" ELSE "insert"
        with == OfWith(Add(Scoped(x, st.with), st.table, "write", {kind}), st.with)
    IN  Unscoped(OfExpressions(OfQueries(with, st.query), FlattenSeq(st.rows)))

\* The walk over a change goes on to the values it assigns and to its conditions.
ExpressionsIn(st) == [i \in DOMAIN st.assignments |-> st.assignments[i].value] \o st.rest

\* Mutant: what UPDATE and DELETE have in WITH is not looked into.
OfChangeOnly(x, st, kind) ==
    LET with == Scoped(x, st.with)
        tables == OfRefs(OfRefs(with, st.tables, "write", {kind}), st.from, "read", {})
    IN  OfExpressions(Unscoped(tables), ExpressionsIn(st))

\* visit_update, visit_delete: the walk goes on to their expressions when the scope of
\* the WITH clause is gone.
OfChange(x, st, kind) ==
    LET with == OfWith(Scoped(x, st.with), st.with)
        tables == OfRefs(OfRefs(with, st.tables, "write", {kind}), st.from, "read", {})
    IN  OfExpressions(Unscoped(tables), ExpressionsIn(st))

\* Statement::Merge: each clause is a kind of write of the target.
OfMerge(x, st) ==
    LET Tables(refs) == SelectSeq(refs, LAMBDA r : r.ref = "table")
        Names(refs) == [i \in DOMAIN Tables(refs) |-> Tables(refs)[i].name]
        Clause(y, clause) == AddAll(y, Names(<<st.target>>), "write", {"merge" \o clause.action})
        queries == SelectSeq(<<st.source>>, LAMBDA r : r.ref = "query")
    IN  OfRefs(AddAll(FoldLeft(Clause, x, st.clauses), Names(<<st.source>>), "read", {}),
               queries, "read", {})

\* Statement::InsertAll, InsertFirst: the target of every clause, then the source.
OfInsertAll(x, st) ==
    OfQuery(AddAll(x, [i \in DOMAIN st.targets |-> st.targets[i].table], "write", {"insert"}), st.source)

\* The modes of LOCK TABLE which say what they are like.
LockMode ==
    [accessshare |-> "read", rowshare |-> "lockread", rowexclusive |-> "write",
     shareupdateexclusive |-> "shareupdateexclusive", share |-> "share",
     sharerowexclusive |-> "sharerowexclusive", exclusive |-> "exclusive"]

\* lock_mode_from_lock_table
ModeOfLock(mode) == IF mode \in DOMAIN LockMode THEN LockMode[mode] ELSE "accessexclusive"

\* What the other statements do to the tables they name, by their kinds.
UtilityMode ==
    [truncate |-> "accessexclusive", altertable |-> "accessexclusive",
     droptable |-> "accessexclusive", cluster |-> "accessexclusive",
     reindex |-> "accessexclusive", vacuumfull |-> "accessexclusive",
     vacuum |-> "shareupdateexclusive", analyze |-> "shareupdateexclusive",
     createindex |-> "share", createindexconcurrent |-> "shareupdateexclusive"]

\* visit_statement, with what each handler does below it.
OfStatement(x, st) ==
    CASE st.sql = "select" -> OfQuery(x, st.query)
      [] st.sql = "insert" -> OfInsert(x, st)
      [] st.sql \in {"update", "delete"} -> OfChange(x, st, st.sql)
      [] st.sql = "merge" -> OfMerge(x, st)
      [] st.sql = "insertall" -> OfInsertAll(x, st)
      [] st.sql = "locktable" -> AddAll(x, st.names, ModeOfLock(st.mode), {"locktable"})
      [] st.sql \in DOMAIN UtilityMode -> AddAll(x, st.names, UtilityMode[st.sql], {st.sql})

AccessesIn(st) == OfStatement(NewAccesses, st).accesses

=============================================================================
