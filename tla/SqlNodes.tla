------------------------------ MODULE SqlNodes ------------------------------
(***************************************************************************)
(* The first pass of the graph builder over a chunk of SQL files           *)
(* (create_sql_nodes): what each statement adds to the graph.              *)
(*                                                                         *)
(* A statement has the sort it creates, the name it creates and its place. *)
(* A routine has its kind, name and parameters and, where it is defined,   *)
(* a body; a package has items: routines, variables, types and cursors.    *)
(***************************************************************************)
EXTENDS BuildContext

RoutineNodes(c, st) ==
    LET id == IdOf(st.routine.kind, st.name)
    IN  WithRoutine(c, id, Node(st.routine.kind, id, st.at))

-----------------------------------------------------------------------------
(* Packages. *)

IsRoutineItem(item) == item.kind \in RoutineKinds

Defines(item) == IsRoutineItem(item) /\ item.body # <<>>

\* The specification says where the package is, whenever it comes.
PackageNode(c, st) ==
    LET known == st.name \in DOMAIN c.packages
    IN  CASE known /\ st.create = "package" ->
                [c EXCEPT !.nodes[c.packages[st.name]].at = st.at]
          [] known /\ st.create = "body" -> c
          [] OTHER -> [Added(c, Named("package", st.name, st.at))
                         EXCEPT !.packages = Setting(@, st.name, Len(c.nodes) + 1)]

MemberNode(c, st, item) ==
    LET id == MemberId(item.kind, st.name, item.name)
        with == WithRoutine(c, id, Node(item.kind, id, st.at))
    IN  Linked(with, Edge("contains", c.packages[st.name], with.routines[id], Nowhere, <<>>))

\* create_package_nodes: only what has a body is a routine.
PackageNodes(c, st) ==
    FoldLeft(LAMBDA d, item : IF Defines(item) THEN MemberNode(d, st, item) ELSE d,
             PackageNode(c, st), st.items)

\* What the specifications of a file declare and its bodies lack, by the bare names
\* of the packages.
Declared(file) ==
    FlattenSeq([i \in Places(file) |->
        IF file[i].create # "package" THEN <<>>
        ELSE LET items == SelectSeq(file[i].items, IsRoutineItem)
             IN  [k \in Places(items) |->
                    RoutineId(items[k].kind, <<>>, Bare(file[i].name), items[k].name)]])

Implemented(file) ==
    {<<Bare(st.name), item.name>> :
        <<st, item>> \in UNION {{<<st, item>> : item \in {x \in ToSet(st.items) : IsRoutineItem(x)}} :
                                   st \in {x \in ToSet(file) : x.create = "body"}}}

\* A routine which is declared and whose body was lost is a partial node.
PartialNode(c, id) ==
    LET with == WithRoutine(c, id, Node(id.kind, id, Nowhere))
    IN  IF id \in DOMAIN c.routines \/ id.package \notin DOMAIN c.packages THEN with
        ELSE Linked(with, Edge("contains", c.packages[id.package], Newest(with), Nowhere, <<>>))

PartialNodes(c, file) ==
    IF \A st \in ToSet(file) : st.create # "body" THEN c
    ELSE FoldLeft(LAMBDA d, id : IF <<id.package, id.name>> \in Implemented(file) THEN d
                                 ELSE PartialNode(d, id),
                  c, Declared(file))

-----------------------------------------------------------------------------
(* Tables, views and indexes. *)

\* View and materialized view: one more node, whatever is there, which depends on
\* what its query reads, and says what its columns come from.
ViewNodes(c, st) ==
    LET place == Len(c.nodes) + 1
        view == [Added(c, Named(st.create, st.name, st.at))
                   EXCEPT !.tables = Keeping(@, st.name, place)]
    IN  FoldLeft(LAMBDA d, q :
                    LET with == WithTable(d, q)
                        short == WithShortName(with, q, with.tables[q])
                    IN  Linked(short, Edge("depends", place, with.tables[q], st.at, st.mappings)),
                 WithShortName(view, st.name, place), st.reads)

\* An index of a table, under its own name.
IndexOn(c, st, place) ==
    LET with == Added(c, Named("index", st.name, st.at))
    IN  Linked(with, Edge("indexes", Newest(with), place, st.at, <<>>))

\* CREATE INDEX and CREATE GLOBAL INDEX
IndexNodes(c, st) ==
    LET index == Added(c, Named("index", st.name, st.at))
        with == WithTable(index, st.table)
    IN  Linked(with, Edge("indexes", Newest(index), with.tables[st.table], st.at, <<>>))

Column(key, comment) == [key |-> key, comment |-> comment]

WithKeys(columns, keys) ==
    [x \in DOMAIN columns |->
        Column(columns[x].key \/ x \in keys, columns[x].comment)]

\* Each primary key and unique constraint is an index; the former marks the columns
\* of a table.
ConstraintNodes(c, st, place) ==
    FoldLeft(LAMBDA d, constraint :
                LET index == IndexOn(d, st, place)
                IN  IF constraint.sort = "primary" /\ d.nodes[place].kind = "table"
                    THEN [index EXCEPT !.nodes[place].columns = WithKeys(@, constraint.columns)]
                    ELSE index,
             c, st.constraints)

AlterTable(c, st) ==
    LET with == WithTable(c, st.name) IN ConstraintNodes(with, st, with.tables[st.name])

Columns(set) == [x \in set |-> Column(FALSE, "")]

\* A table which was only mentioned, or is found under this name, becomes the one
\* that is defined here; the first definition with columns gives them.
TableNodes(c, st) ==
    LET with == WithTable(c, st.name)
        place == with.tables[st.name]
        columns == with.nodes[place].columns
        table == IF with.nodes[place].kind # "table" THEN with
                 ELSE [with EXCEPT
                        !.nodes[place].at = st.at,
                        !.nodes[place].columns =
                            IF columns = <<>> THEN Columns(st.columns) ELSE columns]
    IN  WithShortName(ConstraintNodes(table, st, place), st.name, place)

-----------------------------------------------------------------------------
(* Types, sequences, synonyms, triggers, events and comments. *)

TypeNodes(c, st) ==
    IF st.name \in DOMAIN c.types THEN c
    ELSE LET place == Len(c.nodes) + 1
         IN  [Added(c, Named("type", st.name, st.at)) EXCEPT
                !.types = Setting(Keeping(@, Bare(st.name), place), st.name, place)]

\* A sequence which was inferred from its use, under this very name, is promoted.
SequenceNodes(c, st) ==
    IF st.name \in DOMAIN c.sequences THEN c
    ELSE LET inferred == st.name \in DOMAIN c.inferred
             place == IF inferred THEN c.inferred[st.name] ELSE Len(c.nodes) + 1
             with == IF inferred THEN [c EXCEPT !.nodes[place].at = st.at]
                     ELSE Added(c, Named("sequence", st.name, st.at))
         IN  [with EXCEPT
                !.inferred = [q \in DOMAIN @ \ {st.name} |-> @[q]],
                !.sequences = Setting(Keeping(@, Bare(st.name), place), st.name, place)]

\* What a synonym stands for is what has its name now, a routine first.
SynonymTarget(c, q) ==
    CASE IdOf("procedure", q) \in DOMAIN c.routines -> {c.routines[IdOf("procedure", q)]}
      [] IdOf("procedure", q) \notin DOMAIN c.routines
         /\ IdOf("function", q) \in DOMAIN c.routines -> {c.routines[IdOf("function", q)]}
      [] OTHER -> LET indexes == <<c.tables, c.types, c.sequences>>
                      with == {i \in 1 .. 3 : q \in DOMAIN indexes[i]}
                  IN  {indexes[i][q] : i \in {j \in with : \A k \in with : j <= k}}

SynonymNodes(c, st) ==
    LET target == SynonymTarget(c, st.target)
        synonym == Added(c, Named("synonym", st.name, st.at))
        with == IF target # {} THEN synonym
                ELSE Added(synonym, Named("unresolved", st.target, Nowhere))
        to == IF target # {} THEN CHOOSE t \in target : TRUE ELSE Newest(with)
    IN  Linked(with, Edge("aliases", Newest(synonym), to, st.at, <<>>))

\* The function of a trigger which is not known yet is a placeholder under its id.
TriggerNodes(c, st) ==
    LET trigger == Added(c, Named("trigger", st.name, st.at))
        id == IdOf("function", st.calls)
        with == WithRoutine(trigger, id, Named("unresolved", st.calls, Nowhere))
    IN  Linked(with, Edge("triggers", Newest(trigger), with.routines[id], st.at, <<>>))

EventNodes(c, st) == Added(c, Named("event", st.name, st.at))

\* A comment waits until all columns are known.
CommentNodes(c, st) ==
    [c EXCEPT !.comments =
        Append(@, [table |-> st.name, column |-> st.column, text |-> st.text])]

=============================================================================
