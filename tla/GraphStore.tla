----------------------------- MODULE GraphStore -----------------------------
(***************************************************************************)
(* The stores of src/graph/store.rs as the commands analyze, import, merge *)
(* and dedup make them: a graph whose nodes and edges are numbered by      *)
(* their place, as petgraph does, and the indexes beside it.  What the     *)
(* manifest, the predicates and the dependencies between files say is left *)
(* out: they are united and no step reads them.                            *)
(***************************************************************************)
EXTENDS CgefImport, Functions

CONSTANTS
    Store,        \* the files stores are saved to
    NoStore,
    Schema, NoSchema,
    NoColumn,     \* of an edge which is no anchor, or an anchor without
    Analyzed,     \* the graphs an analysis may build
    Document,     \* the documents an import may read
    MaxMerged,    \* the number of stores one merge reads
    MaxSteps      \* the number of commands

\* A graph: its nodes and edges in the order they were added.  A node has a key
\* (kind, schema, name); it is rich when it is the definition and not a trace of
\* one; sql are the statements in it and variants what its dynamic parts can make of
\* them.  An edge has, for tag "access", its modes
\* and kind of flow and, for "anchor", its column.
Key(n) == [kind |-> n.kind, schema |-> n.schema, name |-> n.name]

Edges(places) ==
    [from : places, to : places, tag : STRING, modes : SUBSET STRING, flow : STRING,
     column : STRING \cup {NoColumn}]

\* Only accesses have modes, only anchors columns.
Plain(tag, e) == (tag # "access" => e.modes = {}) /\ (tag # "anchor" => e.column = NoColumn)

IsGraph(g) ==
    /\ g.nodes \in Seq(Range(g.nodes)) /\ g.edges \in Seq(Edges(Places(g.nodes)))
    /\ \A e \in Range(g.edges) : Plain(e.tag, e)

Defines(n) == n.kind = "proc" /\ n.rich

\* An analysis enters a routine by its key (GraphBuilder, proc_index), so that one which is
\* defined has one node.
ASSUME StoreAssumption ==
    /\ \A g \in Analyzed :
          /\ IsGraph(g)
          /\ \A i, j \in Places(g.nodes) :
                Defines(g.nodes[i]) /\ Key(g.nodes[i]) = Key(g.nodes[j]) => i = j
    /\ \A doc \in Document :
          /\ doc.nodes \in Seq(Range(doc.nodes)) /\ doc.edges \in Seq(Range(doc.edges))
          /\ \A e \in Range(doc.edges) :
                /\ e.type \in STRING /\ e.modes \in SUBSET STRING /\ e.flow \in STRING
                /\ e.column \in STRING \cup {NoColumn} /\ Plain(e.type, e)
    /\ MaxMerged \in Nat /\ MaxSteps \in Nat

VARIABLES
    shelf,        \* the store in each file
    steps,
    last          \* history: the last command, what it read, and what it did

files == <<shelf, steps, last>>

-----------------------------------------------------------------------------
(* The indexes, functions of a graph. *)

\* HashMap::insert
Put(f, x, y) == [z \in DOMAIN f \cup {x} |-> IF z = x THEN y ELSE f[z]]

KeyOf(g, i) == Key(g.nodes[i])

Keys(g) == {KeyOf(g, i) : i \in Places(g.nodes)}

\* Of two nodes with one key, the later one.
KeyIndex(g) ==
    [k \in Keys(g) |-> Max({i \in Places(g.nodes) : KeyOf(g, i) = k})]

\* name_index, type_tag_index and schema_index hold the same nodes, sorted by name
\* and grouped by kind and schema.
Names(g) == {<<KeyOf(g, i), i>> : i \in Places(g.nodes)}

Summaries(g) ==
    [i \in Places(g.nodes) |->
        [key |-> KeyOf(g, i),
         in  |-> Cardinality({j \in Places(g.edges) : g.edges[j].to = i}),
         out |-> Cardinality({j \in Places(g.edges) : g.edges[j].from = i})]]

Categories(g) == [tag \in {e.tag : e \in Range(g.edges)} |->
                    {j \in Places(g.edges) : g.edges[j].tag = tag}]

Prints(g, kinds) ==
    UNION {{<<sql, i>> : sql \in g.nodes[i].sql} :
              i \in {j \in Places(g.nodes) : g.nodes[j].kind \in kinds}}

Variants(g, keyIndex) ==
    UNION {{<<sql, keyIndex[Key(n)]>> : sql \in n.variants} :
              n \in {x \in Range(g.nodes) : x.kind = "mapper"}}

FileNodes(g) ==
    {<<g.nodes[i].file, KeyOf(g, i)>> :
        i \in {j \in Places(g.nodes) : g.nodes[j].file # NoFile}}

\* rebuild_secondary_indexes: without the statements of routines and the variants,
\* which an analysis puts into the fingerprint index.
RebuildSecondary(s) ==
    [s EXCEPT !.names = Names(s), !.summaries = Summaries(s),
              !.categories = Categories(s), !.prints = Prints(s, {"mapper"})]

\* Mutant: node_key_index keeps the numbers from before.
RebuildAllButKeys(s) ==
    RebuildSecondary([s EXCEPT !.fileNodes = FileNodes(s)])

RebuildAll(s) ==
    RebuildSecondary([s EXCEPT !.keyIndex = KeyIndex(s), !.fileNodes = FileNodes(s)])

FromGraph(g) ==
    [nodes |-> g.nodes, edges |-> g.edges, keyIndex |-> KeyIndex(g),
     names |-> Names(g), summaries |-> Summaries(g), categories |-> Categories(g),
     prints |-> Prints(g, {"mapper", "proc"}), fileNodes |-> FileNodes(g),
     params |-> <<>>]

-----------------------------------------------------------------------------
(* Merge. *)

\* NodeKey::relaxed: of routines, not of tables.
Relaxable(k) == k.kind = "proc" /\ k.schema # NoSchema

Relaxed(k) == [k EXCEPT !.schema = NoSchema]

\* The keys merged so far, without their schemas.  Of two which then are the same
\* the hash map keeps either: prefer says which.
RelaxedReverse(keyIndex, prefer) ==
    LET qualified == {k \in DOMAIN keyIndex : Relaxable(k)}
        Of(r) == {k \in qualified : Relaxed(k) = r}
        Preferred(r) == {k \in Of(r) : k.schema = prefer}
    IN  [r \in {Relaxed(k) : k \in qualified} |->
            keyIndex[CHOOSE k \in Of(r) : Preferred(r) # {} => k \in Preferred(r)]]

\* Mutant: two schemas are one.
PlaceInAnySchema(keyIndex, reverse, key) ==
    {keyIndex[k] : k \in {x \in DOMAIN keyIndex : Relaxed(x) = Relaxed(key)}}

\* Where the node with this key was merged to, if it was: as it is, without its
\* schema, or with a schema it lacks.
Place(keyIndex, reverse, key) ==
    CASE key \in DOMAIN keyIndex -> {keyIndex[key]}
      [] key \notin DOMAIN keyIndex /\ Relaxable(key) /\ Relaxed(key) \in DOMAIN keyIndex ->
            {keyIndex[Relaxed(key)]}
      [] OTHER -> {reverse[k] : k \in DOMAIN reverse \cap {key}}

\* The nodes of store j come after those merged before, where they have no place
\* yet; map is where each went, from the store each new node came from.
MergeNodes(acc, store, j, reverse) ==
    FoldLeft(LAMBDA a, node :
                LET at == Place(a.m.keyIndex, reverse, Key(node))
                    new == Len(a.m.nodes) + 1
                IN  IF at # {}
                    THEN [a EXCEPT !.map = Append(@, CHOOSE p \in at : TRUE)]
                    ELSE [a EXCEPT !.map = Append(@, new),
                                   !.m.nodes = Append(@, node),
                                   !.m.keyIndex = Put(@, Key(node), new),
                                   !.from = Put(@, Key(node), j)],
             [acc EXCEPT !.map = <<>>], store.nodes)

AnchorKey(g, e) == <<KeyOf(g, e.from), KeyOf(g, e.to), e.column>>

Triple(g, e) == <<KeyOf(g, e.from), KeyOf(g, e.to), e.tag>>

\* Mutant: anchors are told apart like other edges.
RepeatedTriple(store, k, anchors) ==
    \E l \in 1 .. k - 1 : Triple(store, store.edges[l]) = Triple(store, store.edges[k])

\* An anchor is looked for in all stores merged so far, any other edge in its own.
Repeated(store, k, anchors) ==
    LET e == store.edges[k]
    IN  IF e.tag = "anchor"
        THEN \/ AnchorKey(store, e) \in anchors
             \/ \E l \in 1 .. k - 1 :
                   /\ store.edges[l].tag = "anchor"
                   /\ AnchorKey(store, store.edges[l]) = AnchorKey(store, e)
        ELSE \E l \in 1 .. k - 1 : Triple(store, store.edges[l]) = Triple(store, e)

MergeEdges(acc, store) ==
    LET fresh == {k \in Places(store.edges) : ~Repeated(store, k, acc.anchors)}
        Moved(k) == [store.edges[k] EXCEPT !.from = acc.map[@], !.to = acc.map[@]]
        kept == Kept(Ascending(store.edges), fresh)
        anchors == {e \in Range(store.edges) : e.tag = "anchor"}
    IN  [acc EXCEPT !.m.edges = @ \o [i \in Places(kept) |-> Moved(kept[i])],
                    !.anchors = @ \cup {AnchorKey(store, e) : e \in anchors}]

\* Of edges of one sort the first is left, with the modes of all.
Unite(edges, sort) ==
    LET With(k) == {l \in Places(edges) : sort[l] = sort[k]}
        ModesOf(k) == UNION {edges[l].modes : l \in With(k)}
    IN  RemoveDescending([k \in Places(edges) |-> [edges[k] EXCEPT !.modes = ModesOf(k)]],
                         {k \in Places(edges) : \E l \in With(k) : l < k})

\* merge_duplicate_table_access_edges: accesses of one kind of flow become one.
MergeAccesses(edges) ==
    Unite(edges, [k \in Places(edges) |->
                    IF edges[k].tag = "access"
                    THEN <<edges[k].from, edges[k].to, edges[k].flow>> ELSE <<k>>])

MergeStore(acc, store, j, prefer) ==
    LET noded == MergeNodes(acc, store, j, RelaxedReverse(acc.m.keyIndex, prefer))
        edged == MergeEdges(noded, store)
    IN  [edged EXCEPT !.m.edges = MergeAccesses(@),
                      !.m.fileNodes = @ \cup store.fileNodes,
                      !.maps = Append(@, edged.map)]

\* Mutant: whichever store has parameters of the routine.
ParamsOfAny(stores, from) ==
    LET With(k) == {j \in Places(stores) : k \in DOMAIN stores[j].params}
    IN  [k \in {x \in DOMAIN from : With(x) # {}} |-> stores[Min(With(k))].params[k]]

\* A routine has the parameters it has in the store its node came from, if any.
ParamsOf(stores, from) ==
    [k \in {x \in DOMAIN from : x \in DOMAIN stores[from[x]].params} |->
        stores[from[k]].params[k]]

Merge(stores, prefer) ==
    LET empty == [m |-> FromGraph([nodes |-> <<>>, edges |-> <<>>]), map |-> <<>>,
                  maps |-> <<>>, from |-> <<>>, anchors |-> {}]
        all == FoldLeft(LAMBDA acc, j : MergeStore(acc, stores[j], j, prefer),
                        empty, Ascending(stores))
    IN  [store |-> RebuildSecondary([all.m EXCEPT !.params = ParamsOf(stores, all.from)]),
         maps  |-> all.maps]

-----------------------------------------------------------------------------
(* Deduplication. *)

\* Mutant: the first of two nodes is kept, rich or not.
KeepsFirst(kept, node) == TRUE

\* pick_richer_node, whether it keeps the first of two.
Richer(kept, node) == kept.rich \/ ~node.rich

\* Which node each node gives way to, directly.
Yields(g) ==
    FoldLeft(LAMBDA acc, i :
                LET key == KeyOf(g, i)
                IN  IF key \notin DOMAIN acc.canon
                    THEN [acc EXCEPT !.canon = Put(@, key, i)]
                    ELSE IF Richer(g.nodes[acc.canon[key]], g.nodes[i])
                    THEN [acc EXCEPT !.to = Put(@, i, acc.canon[key])]
                    ELSE [acc EXCEPT !.to = Put(@, acc.canon[key], i),
                                     !.canon = Put(@, key, i)],
             [canon |-> <<>>, to |-> <<>>], Ascending(g.nodes)).to

\* Mutant: one step of it.
NextOf(to, i) == IF i \in DOMAIN to THEN to[i] ELSE i

\* A kept node may have given way later: the chain is followed to its end.
FinalOf(to, i) ==
    LET Follow[n \in 0 .. Cardinality(DOMAIN to)] ==
            IF n = 0 THEN i
            ELSE IF Follow[n - 1] \in DOMAIN to THEN to[Follow[n - 1]] ELSE Follow[n - 1]
    IN  Follow[Cardinality(DOMAIN to)]

\* The edges of a node which goes are added to the one it gives way to, except
\* those which would become loops.
Rewired(g, to) ==
    LET moved == [k \in Places(g.edges) |->
                    [g.edges[k] EXCEPT !.from = FinalOf(to, @), !.to = FinalOf(to, @)]]
    IN  Kept(moved, {k \in Places(g.edges) :
                        /\ {g.edges[k].from, g.edges[k].to} \cap DOMAIN to # {}
                        /\ moved[k].from # moved[k].to})

\* What makes an edge one of several.
Sort(e) == <<e.from, e.to, e.tag, IF e.tag = "anchor" THEN e.column ELSE NoColumn>>

DedupEdges(edges) == Unite(edges, [k \in Places(edges) |-> Sort(edges[k])])

Dedup(s) ==
    LET to == Yields(s)
        rewired == [nodes |-> s.nodes, edges |-> s.edges \o Rewired(s, to)]
        graph == RemoveNodes(rewired, DOMAIN to)
    IN  RebuildAll([s EXCEPT !.nodes = graph.nodes, !.edges = DedupEdges(graph.edges)])

-----------------------------------------------------------------------------
(* The commands. *)

Init ==
    /\ shelf = [n \in Store |-> NoStore]
    /\ steps = 0
    /\ last = [op |-> "none"]

Free(n) == shelf[n] = NoStore

Count == steps < MaxSteps /\ steps' = steps + 1

\* codeweb analyze: each routine it defines has its parameters (here, its file).
Analyze(n) ==
    /\ Count /\ Free(n)
    /\ \E g \in Analyzed :
          LET defined == {i \in Places(g.nodes) : Defines(g.nodes[i])}
              params == [k \in {KeyOf(g, i) : i \in defined} |->
                           g.nodes[CHOOSE i \in defined : KeyOf(g, i) = k].file]
          IN  shelf' = [shelf EXCEPT ![n] =
                  [FromGraph(g) EXCEPT !.params = params,
                                       !.prints = @ \cup Variants(g, KeyIndex(g))]]
    /\ last' = [op |-> "build"]

\* codeweb import, with or without --force
Import(n) ==
    /\ Count /\ Free(n)
    /\ \E doc \in Document, force \in BOOLEAN :
          /\ shelf' = IF Accepted(doc, force)
                      THEN [shelf EXCEPT ![n] = FromGraph(GraphOf(doc))] ELSE shelf
          /\ last' = [op |-> "import", doc |-> doc, force |-> force, to |-> n]

\* codeweb merge, of any stores, the same ones among them or none at all.
MergeInto(n) ==
    /\ Count /\ Free(n)
    /\ \E count \in 0 .. MaxMerged, prefer \in Schema :
          \E names \in [1 .. count -> {s \in Store : ~Free(s)}] :
              LET stores == [j \in 1 .. count |-> shelf[names[j]]]
                  merged == Merge(stores, prefer)
              IN  /\ shelf' = [shelf EXCEPT ![n] = merged.store]
                  /\ last' = [op |-> "merge", from |-> stores, maps |-> merged.maps, to |-> n]

\* codeweb dedup
DedupStore(n) ==
    /\ Count /\ ~Free(n)
    /\ shelf' = [shelf EXCEPT ![n] = Dedup(@)]
    /\ last' = [op |-> "dedup", from |-> <<shelf[n]>>, to |-> n]

Next == \E n \in Store : Analyze(n) \/ Import(n) \/ MergeInto(n) \/ DedupStore(n)

Spec == Init /\ [][Next]_files

-----------------------------------------------------------------------------
(* Properties. *)

Stores == {shelf[n] : n \in Store} \ {NoStore}

Made == shelf[last.to]

\* The indexes say what the graph says, so that a node, a statement or an edge is
\* found by them exactly if it is in the graph, whatever was merged, renumbered and
\* removed before (rebuild_secondary_indexes, rebuild_all_indexes); each node is listed
\* under its file; and a routine never has the parameters of another definition of it than
\* its node is, wherever the two came from and whichever of them was kept.
IndexesAgree ==
    \A s \in Stores :
        /\ DOMAIN s.keyIndex = Keys(s)
        /\ \A k \in Keys(s) :
              s.keyIndex[k] \in Places(s.nodes) /\ KeyOf(s, s.keyIndex[k]) = k
        /\ s.names = Names(s) /\ s.summaries = Summaries(s)
        /\ s.categories = Categories(s)
        /\ Prints(s, {"mapper"}) \subseteq s.prints
        /\ s.prints \subseteq Prints(s, {"mapper", "proc"}) \cup Variants(s, s.keyIndex)
        /\ FileNodes(s) \subseteq s.fileNodes
        /\ \A k \in DOMAIN s.params :
              k \in Keys(s) /\ s.nodes[s.keyIndex[k]].file = s.params[k]

Relation(g, e) == <<KeyOf(g, e.from), KeyOf(g, e.to), e.tag, e.column>>

Relations(g) == {Relation(g, e) : e \in Range(g.edges)}

Modes(g, from, to) ==
    UNION {e.modes : e \in {x \in Range(g.edges) :
                              KeyOf(g, x.from) = from /\ KeyOf(g, x.to) = to}}

\* No pair of keys has two accesses.
SingleAccess(g) ==
    LET accesses == {k \in Places(g.edges) : g.edges[k].tag = "access"}
    IN  \A k, l \in accesses : Triple(g, g.edges[k]) = Triple(g, g.edges[l]) => k = l

Is(j, i) == KeyOf(Made, last.maps[j][i])

\* Each node of a merged store is represented by one with its key, or, if it is a
\* routine, with its key but for a schema one of the two lacks; what has one key in several
\* stores has one representative, unless they are routines of different schemas and the key
\* has none; and no key is there twice.
NodesMerged ==
    /\ \A j \in Places(last.from) : \A i \in Places(last.from[j].nodes) :
          LET key == KeyOf(last.from[j], i)
          IN  /\ \/ Is(j, i) = key
                 \/ Relaxable(key) /\ Is(j, i) = Relaxed(key)
                 \/ Relaxable(Is(j, i)) /\ key = Relaxed(Is(j, i))
              /\ \A h \in Places(last.from) : \A l \in Places(last.from[h].nodes) :
                    KeyOf(last.from[h], l) = key =>
                        \/ last.maps[h][l] = last.maps[j][i]
                        \/ h # j /\ Relaxable(Is(j, i)) /\ Relaxable(Is(h, l)) /\ key.schema = NoSchema
    /\ Cardinality(Keys(Made)) = Len(Made.nodes)

Image(j, e) == <<Is(j, e.from), Is(j, e.to), e.tag, e.column>>

\* Each relation of a merged store is one between the nodes which represent its
\* ends, and the merged graph has no others.  An anchor which several stores have
\* is there for one of them.  The modes of accesses are united, of
\* accesses which were the only ones of their ends.
RelationsMerged ==
    /\ Relations(Made) \subseteq
          UNION {{Image(j, e) : e \in Range(last.from[j].edges)} : j \in Places(last.from)}
    /\ \A j \in Places(last.from) : \A e \in Range(last.from[j].edges) :
          IF e.tag # "anchor" THEN Image(j, e) \in Relations(Made)
          ELSE \E h \in 1 .. j : \E f \in Range(last.from[h].edges) :
                  /\ f.tag = "anchor" /\ AnchorKey(last.from[h], f) = AnchorKey(last.from[j], e)
                  /\ Image(h, f) \in Relations(Made)
    /\ \A j \in Places(last.from) :
          SingleAccess(last.from[j]) =>
              \A e \in Range(last.from[j].edges) :
                  e.modes \subseteq Modes(Made, Is(j, e.from), Is(j, e.to))

\* A merge, also of merged stores or of one store with itself, has every node and every
\* relation of its stores, an anchor for one of those with its key, and nothing else.
MergeKeepsGraphs == last.op = "merge" => NodesMerged /\ RelationsMerged

\* Each key and each sort of edge is left once, and of several nodes with one key a
\* rich one, if there was one.
DuplicatesGone ==
    /\ Keys(Made) = Keys(last.from[1])
    /\ Cardinality(Keys(Made)) = Len(Made.nodes)
    /\ Cardinality({Sort(e) : e \in Range(Made.edges)}) = Len(Made.edges)
    /\ \A n \in Range(last.from[1].nodes) :
          n.rich => \E m \in Range(Made.nodes) : m.rich /\ Key(m) = Key(n)

\* All relations between different keys are kept, with the modes of their accesses, and
\* none is made.
RelationsKept ==
    /\ {r \in Relations(last.from[1]) : r[1] # r[2]} \subseteq Relations(Made)
    /\ Relations(Made) \subseteq Relations(last.from[1])
    /\ \A from, to \in Keys(Made) :
          from # to => Modes(Made, from, to) = Modes(last.from[1], from, to)

\* Deduplication leaves one node for each key and one edge of each sort, and what they
\* said before they say after it, through chains of nodes which gave way to each other.
DedupKeepsGraph == last.op = "dedup" => DuplicatesGone /\ RelationsKept

\* Without force a document is imported as a whole, each edge between nodes with the
\* ids it names, or not at all; with force parts may be missing, but nothing
\* is there which the document does not say.
ImportIsWhole ==
    last.op = "import" /\ shelf[last.to] # NoStore =>
        LET doc == last.doc
            With(id) == {Key(n) : n \in {x \in Range(doc.nodes) : x.id = id}}
            Said(e) == {<<from, to, e.type, e.column>> :
                            from \in With(e.source), to \in With(e.target)}
        IN  /\ Relations(Made) \subseteq UNION {Said(e) : e \in Range(doc.edges)}
            /\ ~last.force =>
                  /\ Len(Made.nodes) = Len(doc.nodes) /\ Len(Made.edges) = Len(doc.edges)
                  /\ \A e \in Range(doc.edges) : Said(e) \cap Relations(Made) # {}

=============================================================================
