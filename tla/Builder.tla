------------------------------ MODULE Builder ------------------------------
(***************************************************************************)
(* The graph builder as it is driven: what project/mod.rs (codeweb         *)
(* analyze) does chunk by chunk, SQL, then Java, then XML, then JSP, and   *)
(* what the older pipeline of the command line (build_all_with_jsp) does   *)
(* with all files at once, SQL, XML, Java, JSP.                            *)
(*                                                                         *)
(* What is left to do is a sequence, each element one handler over one     *)
(* statement, file or chunk; a step does the first of them.                *)
(***************************************************************************)
EXTENDS OtherNodes, BuildFinish

CONSTANTS
    Program       \* the programs to build, each with its pipeline and chunk size

VARIABLES
    program,
    tasks,
    context

buildVars == <<program, tasks, context>>

-----------------------------------------------------------------------------
(* The order of a build. *)

Task(step, of, chunk) == [step |-> step, of |-> of, chunk |-> chunk]

Each(step, things, chunk) == [i \in Places(things) |-> Task(step, things[i], chunk)]

\* slice::chunks
Chunks(files, n) ==
    [i \in 1 .. (Len(files) + n - 1) \div n |->
        SubSeq(files, (i - 1) * n + 1, IF i * n < Len(files) THEN i * n ELSE Len(files))]

\* build_sql_chunk
SqlTasks(chunk) ==
    LET statements == FlattenSeq(chunk)
        NodesOf(file) == Append(Each("nodes", file, chunk), Task("partial", file, chunk))
    IN  FlattenSeq([i \in Places(chunk) |-> NodesOf(chunk[i])])
        \o Each("accesses", statements, chunk)
        \o <<Task("calls", chunk, chunk)>>
        \o Each("references", statements, chunk)
        \o Each("sides", statements, chunk)

JavaTasks(chunk) == Each("javasql", chunk, chunk) \o <<Task("methods", chunk, chunk)>>

JspTasks(p) == Each("page", p.jsp, p.jsp) \o <<Task("bridge", p.jsp, p.java)>>

FinalTasks ==
    [i \in 1 .. 5 |-> Task(<<"dedup", "comments", "merge", "resolve", "drop">>[i], <<>>, <<>>)]

\* Project::analyze
AnalyzeTasks(p) ==
    LET OfAll(Tasks(_), chunks) == FlattenSeq([i \in Places(chunks) |-> Tasks(chunks[i])])
    IN  OfAll(SqlTasks, Chunks(p.sql, p.chunk))
        \o OfAll(JavaTasks, Chunks(p.java, p.chunk))
        \o Each("mapper", p.xml, p.xml)
        \o JspTasks(p)
        \o FinalTasks

\* build_all_with_jsp
ParseTasks(p) ==
    SqlTasks(p.sql) \o Each("mapper", p.xml, p.xml) \o JavaTasks(p.java) \o JspTasks(p) \o FinalTasks

BuildInit ==
    /\ program \in Program
    /\ tasks = IF program.pipeline = "analyze" THEN AnalyzeTasks(program) ELSE ParseTasks(program)
    /\ context = NewContext(program.order)

-----------------------------------------------------------------------------
(* The steps. *)

Doing(step) == tasks # <<>> /\ Head(tasks).step = step

Of == Head(tasks).of

Chunk == Head(tasks).chunk

Yields(c) ==
    /\ context' = c
    /\ tasks' = Tail(tasks)
    /\ UNCHANGED program

\* The first pass, one action for each sort of statement.
Creating(sorts) == Doing("nodes") /\ Of.create \in sorts

CreateRoutine == Creating({"routine"}) /\ Yields(RoutineNodes(context, Of))
CreatePackage == Creating({"package", "body"}) /\ Yields(PackageNodes(context, Of))
CreateView == Creating({"view", "mview"}) /\ Yields(ViewNodes(context, Of))
CreateTable == Creating({"table"}) /\ Yields(TableNodes(context, Of))
Alter == Creating({"alter"}) /\ Yields(AlterTable(context, Of))
CreateIndex == Creating({"index"}) /\ Yields(IndexNodes(context, Of))
CreateType == Creating({"type"}) /\ Yields(TypeNodes(context, Of))
CreateSequence == Creating({"sequence"}) /\ Yields(SequenceNodes(context, Of))
CreateSynonym == Creating({"synonym"}) /\ Yields(SynonymNodes(context, Of))
CreateTrigger == Creating({"trigger"}) /\ Yields(TriggerNodes(context, Of))
CreateEvent == Creating({"event"}) /\ Yields(EventNodes(context, Of))
CommentOn == Creating({"comment"}) /\ Yields(CommentNodes(context, Of))
Block == Creating({"block"}) /\ Yields(context)

EndOfFile == Doing("partial") /\ Yields(PartialNodes(context, Of))

\* The later passes; the anchors of packages are told apart within a chunk.
CollectAccesses == Doing("accesses") /\ Yields(AccessesOf(context, Of))
CreateCalls == Doing("calls") /\ Yields([WithCalls(context, Of) EXCEPT !.seen = {}])
CollectReferences == Doing("references") /\ Yields(ReferencesOf(context, Of, Chunk))
CollectSides == Doing("sides") /\ Yields(WithParameters(WithPredicates(context, Of), Of))

AddMappers == Doing("mapper") /\ Yields(Mappers(context, Of))
AddJavaSqls == Doing("javasql") /\ Yields(JavaSqls(context, Of))
AddJavaMethods == Doing("methods") /\ Yields(JavaMethods(context, Of))
AddPage == Doing("page") /\ Yields(JspNodes(context, Of))
BridgePages == Doing("bridge") /\ Yields(JspReferences(context, Of, Chunk))

Dedup == Doing("dedup") /\ Yields(DedupTables(context))
Comment == Doing("comments") /\ Yields(ApplyComments(context))
UniteAccesses == Doing("merge") /\ Yields(MergeAccesses(context))
ResolveAll == Doing("resolve") /\ Yields(ResolvePlaceholders(context))
DropTwins == Doing("drop") /\ Yields(DropIdentical(context))

BuildNext ==
    \/ CreateRoutine \/ CreatePackage \/ CreateView \/ CreateTable \/ Alter \/ CreateIndex
    \/ CreateType \/ CreateSequence \/ CreateSynonym \/ CreateTrigger \/ CreateEvent
    \/ CommentOn \/ Block \/ EndOfFile
    \/ CollectAccesses \/ CreateCalls \/ CollectReferences \/ CollectSides
    \/ AddMappers \/ AddJavaSqls \/ AddJavaMethods \/ AddPage \/ BridgePages
    \/ Dedup \/ Comment \/ UniteAccesses \/ ResolveAll \/ DropTwins

BuildSpec == BuildInit /\ [][BuildNext]_buildVars

Finished == tasks = <<>>

-----------------------------------------------------------------------------
(* What the sources say, for the properties. *)

Statements == FlattenSeq(program.sql)

\* The chunk a statement is in.
ChunkOf(i) ==
    IF program.pipeline = "parse" THEN 1
    ELSE LET Before(f) == Len(FlattenSeq(SubSeq(program.sql, 1, f)))
         IN  (Min({f \in Places(program.sql) : i <= Before(f)}) + program.chunk - 1) \div program.chunk

Definitions(i) ==
    {r \in ToSet(Routines(Statements[i])) : Statements[i].create = "routine" \/ r.body # <<>>}

DefinedAt(id) == {i \in Places(Statements) : id \in {r.id : r \in Definitions(i)}}

DefinedIds == UNION {{r.id : r \in Definitions(i)} : i \in Places(Statements)}

CallsAt(i) ==
    LET bodies == IF Statements[i].create = "block" THEN {Statements[i].body}
                  ELSE {r.body : r \in Definitions(i)}
    IN  UNION {ToSet(b[1].calls) : b \in bodies \ {<<>>}}

\* A placeholder has the id of a routine before the routine is read: that of a
\* procedure from a call in an earlier chunk, that of a function from a trigger.
Overtaken(id) ==
    \E i \in Places(Statements), j \in DefinedAt(id) :
        /\ \A k \in DefinedAt(id) : j <= k
        /\ id.package = <<>>
        /\ \/ /\ id.kind = "procedure" /\ ChunkOf(i) < ChunkOf(j)
              /\ \E call \in CallsAt(i) : call.name = Written(id)
           \/ /\ id.kind = "function" /\ i < j
              /\ Statements[i].create = "trigger" /\ Statements[i].calls = Written(id)

NodesOf(id) ==
    {n \in Places(context.nodes) :
        LET node == context.nodes[n]
        IN  RoutineId(node.kind, node.schema, node.package, node.name) = id}

NodeAt(kinds, q) ==
    {n \in Places(context.nodes) : context.nodes[n].kind \in kinds /\ Written(context.nodes[n]) = q}

HasEdge(tags, from, to) ==
    \E e \in ToSet(context.edges) : e.tag \in tags /\ e.from = from /\ e.to = to

-----------------------------------------------------------------------------
(* Properties. *)

\* Every routine the sources define is one node when the build ends, however often and
\* in whatever order, file and chunk it is mentioned, but for those a placeholder
\* has overtaken; and the parameters beside the graph are those of the definition the node
\* is of, though two passes find them
\* (create_sql_nodes, create_edges, collect_routine_parameters).
RoutinesAreNodes ==
    Finished =>
        /\ \A id \in DefinedIds : Overtaken(id) \/ Cardinality(NodesOf(id)) = 1
        /\ \A node \in {n \in ToSet(context.nodes) : IsRoutine(n) /\ n.at # Nowhere} :
               LET id == RoutineId(node.kind, node.schema, node.package, node.name)
               IN  id \in DOMAIN context.parameters => context.parameters[id].of = node.at

\* Removing nodes and edges renumbers what is left, and some passes append copies: at the
\* end the ends of each edge are there, nothing is said twice, of the accesses of one
\* node to another there is one, and no placeholder is left that a routine has the name
\* of (dedup_table_view_nodes, remove_edges_descending, merge_table_access_edges,
\* resolve_unresolved_nodes, drop_identical_duplicate_edges).
NothingLeftOver ==
    Finished =>
        LET edges == context.edges nodes == context.nodes
        IN  /\ \A e \in ToSet(edges) : {e.from, e.to} \subseteq Places(nodes)
            /\ \A k, l \in Places(edges) : k < l =>
                  /\ edges[k] # edges[l]
                  /\ {edges[k].tag, edges[l].tag} = {"access"} =>
                        <<edges[k].from, edges[k].to>> # <<edges[l].from, edges[l].to>>
            /\ \A n \in {x \in ToSet(nodes) : x.kind = "unresolved"} :
                  /\ ~IsNoise(Written(n))
                  /\ \A x \in ToSet(nodes) : IsRoutine(x) => x.name # n.name

\* The graph has what the sources define once, and nothing that stands for it.
DefinitionsAreNodes == RoutinesAreNodes /\ NothingLeftOver

\* A placeholder that is left stands for what no source defines, as the guides say of
\* nodes of the type unres (resolve_unresolved_nodes).
PlaceholdersAreUndefined ==
    Finished => \A id \in DefinedIds : NodeAt({"unresolved"}, Written(id)) = {}

\* The routines a name can stand for in a call from a routine: those of this very name,
\* members of the package it may begin with, and, of a bare name, members of the
\* caller's package and routines in its schema.
CanMean(name, caller, node) ==
    /\ node.name = Last(name)
    /\ \/ Written(node) = name
       \/ Qualified(name) /\ node.package = Bare(Schema(name))
       \/ /\ ~Qualified(name)
          /\ \/ caller.package # <<>> /\ node.package = caller.package
             \/ caller.schema # <<>> /\ node.schema = caller.schema

Meant(name, caller) ==
    {id \in DefinedIds :
        /\ ~Overtaken(id)
        /\ \/ Written(id) = name
           \/ /\ ~Qualified(name) /\ id.name = Last(name)
              /\ id.schema = caller.schema /\ id.package \in {<<>>, caller.package}}

\* What calls are not followed up: those the parser knows, variables that are indexed,
\* names which look like a method of a collection, before the routine is read, and those
\* of a routine written like another one.
Dropped(r, call, known) ==
    \/ call.sort = "builtin"
    \/ ~IsCall(call, r.body[1].names)
    \/ ~known /\ IsNoise(call.name)
    \/ \E x \in DefinedIds \ {r.id} : Written(x) = Written(r.id)

\* A routine outside of the package of the caller calls the same bare name: if it is read
\* first, its placeholder is found before the member of the package.
Contested(name, caller) ==
    /\ ~Qualified(name) /\ caller.package # <<>>
    /\ \E i \in Places(Statements) : \E r \in Definitions(i) :
          r.id.package # caller.package /\ name \in {call.name : call \in CallsAt(i)}

\* Each call of a routine ends on a routine its name can stand for if the sources define
\* one, whether the call or the definition is read first and from which schemas else
\* it is called, and on the one of this very name if that was known; a contested name
\* may end on any routine of this name
\* (create_edges, try_resolve_routine, resolve_unresolved_nodes).
RoutinesReachRoutines ==
    Finished =>
        \A i \in Places(Statements) : \A r \in Definitions(i) : \A from \in NodesOf(r.id) :
            \A call \in IF r.body = <<>> THEN {} ELSE ToSet(r.body[1].calls) :
            \A id \in Meant(call.name, r.id) :
                LET known == Written(id) = call.name
                             /\ \E j \in DefinedAt(id) : ChunkOf(j) <= ChunkOf(i)
                IN  \/ Dropped(r, call, known)
                    \/ \E n \in Places(context.nodes) :
                        /\ HasEdge({"call", "dynamic"}, from, n)
                        /\ IsRoutine(context.nodes[n])
                        /\ \/ CanMean(call.name, context.nodes[from], context.nodes[n])
                           \/ /\ Contested(call.name, r.id)
                              /\ context.nodes[n].name = Last(call.name)
                        /\ known => Written(context.nodes[n]) = call.name

\* The tables the sources create, by the chunks they are in.
Creates(i, q) == Statements[i].create = "table" /\ Statements[i].name = q

\* Each access of a routine is there when the build ends, with its modes, on a table or
\* a view of its name: in the schema it names, or, of a bare name, in the schema of the
\* routine if a table of this name was created there, though both tables may be
\* there, be merged or be created later (collect_table_access_from_statements,
\* dedup_table_view_nodes, merge_table_access_edges).
AccessesReachTables ==
    Finished =>
        \A i \in Places(Statements) : \A r \in Definitions(i) : \A from \in NodesOf(r.id) :
            \A access \in IF r.body = <<>> THEN {}
                          ELSE UNION {ToSet(sql.accesses) : sql \in ToSet(r.body[1].sql)} :
                \E e \in ToSet(context.edges) :
                    LET node == context.nodes[e.to]
                        near == r.id.schema # <<>>
                                /\ \E j \in Places(Statements) :
                                     /\ Creates(j, r.id.schema \o access.name)
                                     /\ ChunkOf(j) <= ChunkOf(i)
                    IN  /\ e.tag = "access" /\ e.from = from
                        /\ access.modes \subseteq e.says.modes
                        /\ node.kind \in {"table", "view", "mview"}
                        /\ node.name = Last(access.name)
                        /\ Qualified(access.name) =>
                              node.schema = Schema(access.name) \/ node.kind # "table"
                        /\ ~Qualified(access.name) /\ near =>
                              node.schema = r.id.schema \/ node.kind # "table"

\* What a call of a method on an object of an imported type names is a mapper's statement,
\* and the method has an edge to it, if mappers are read before Java; the statement has
\* edges to the routines it calls: the way from Java to stored procedures
\* (add_java_method_nodes_from_parsed, add_ibatis_nodes_from_parsed).
JavaReachesRoutines ==
    Finished =>
        \A f \in ToSet(program.xml) : \A piece \in ToSet(f.pieces) :
            LET key == Append(f.namespace, piece.id)
                mapper == NodeAt({"mapper"}, key)
                Calls(file, call) ==
                    /\ call.method = piece.id
                    /\ \E o \in call.object : ~Qualified(o) /\ file.imports = {f.namespace}
                                              /\ Last(o) = Last(f.namespace)
            IN  /\ Cardinality(mapper) = 1
                /\ \A call \in ToSet(piece.calls) :
                    \A id \in {x \in DefinedIds : Written(x) = call.name /\ ~Overtaken(x)} :
                        call.sort # "builtin" =>
                        \E m \in mapper : \E n \in Places(context.nodes) :
                            /\ HasEdge({"calls"}, m, n)
                            /\ IsRoutine(context.nodes[n])
                            /\ Written(context.nodes[n]) = call.name
                /\ program.pipeline = "parse" =>
                    \A file \in ToSet(program.java) : \A method \in ToSet(file.methods) :
                        (\E call \in ToSet(method.calls) : Calls(file, call)) =>
                            \E n \in NodeAt({"method"}, Append(method.class, method.name)),
                               m \in mapper : HasEdge({"invokes"}, n, m)

\* Whatever the sources call ends on its definition if they have one: what routines call
\* and what Java calls by way of mappers, in whatever order files are read.
CallsReachDefinitions == RoutinesReachRoutines /\ JavaReachesRoutines

\* No name is that of a table with and without a schema, nor of a view as well: no table
\* is removed when the build ends.
TablesApart ==
    LET names == {<<n.kind, Written(n), n.name>> :
                    n \in {x \in ToSet(context.nodes) : x.kind \in {"table", "view", "mview"}}}
    IN  /\ \A x, y \in names : x[3] = y[3] => x = y
        /\ \A i \in Places(Statements) : Statements[i].create = "comment" =>
              \A x \in names : x[3] = Last(Statements[i].name) => x[2] = Statements[i].name

\* The last comment on a column of a table is the column's, wherever it stands among the
\* files, if no table had to be removed (apply_deferred_column_comments).
CommentsReachColumns ==
    Finished /\ TablesApart =>
        \A i, j \in Places(Statements) :
            LET comment == Statements[i] table == Statements[j]
            IN  /\ comment.create = "comment" /\ Creates(j, comment.name)
                /\ comment.column \in table.columns
                /\ \A k \in Places(Statements) : k # j => ~Creates(k, comment.name)
                /\ \A k \in i + 1 .. Len(Statements) : Statements[k].create = "comment" =>
                      Statements[k].name # comment.name \/ Statements[k].column # comment.column
                => \E n \in NodeAt({"table"}, comment.name) :
                      context.nodes[n].columns[comment.column].comment = comment.text

\* What the sources say of tables is at the tables: what routines do to them, though tables
\* are merged or removed, and the comments, which wait with the numbers of their tables.
TablesAreWhole == AccessesReachTables /\ CommentsReachColumns

=============================================================================
