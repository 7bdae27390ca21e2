--------------------------- MODULE GraphStoreProofs ---------------------------
(***************************************************************************)
(* What the commands of module GraphStore leave, for any stores, analyses  *)
(* and documents and any number of merged stores: imports are whole, the   *)
(* indexes agree with the graphs, and merging and deduplication keep what  *)
(* the graphs said.                                                        *)
(***************************************************************************)
EXTENDS GraphStore, PetGraphProofs

-----------------------------------------------------------------------------
(* Sequences and graphs. *)

LEMMA RangeIs ==
    ASSUME NEW S, NEW s \in Seq(S)
    PROVE  /\ s \in Seq(Range(s)) /\ Len(s) \in Nat /\ DOMAIN s = Places(s)
           /\ Range(s) \in SUBSET S
           /\ \A i \in Places(s) : s[i] \in Range(s)
           /\ \A x \in Range(s) : \E i \in Places(s) : s[i] = x
  <1>1. Len(s) \in Nat /\ DOMAIN s = 1 .. Len(s) /\ \A i \in 1 .. Len(s) : s[i] \in S
    OBVIOUS
  <1>2. s = [i \in 1 .. Len(s) |-> s[i]]
    OBVIOUS
  <1>3. s \in [1 .. Len(s) -> Range(s)]
    BY <1>1, <1>2 DEF Range
  <1>4. s \in Seq(Range(s))
    BY <1>1, <1>3
  <1> QED BY <1>1, <1>4 DEF Range, Places

LEMMA IsSequence ==
    ASSUME NEW S, NEW n \in Nat, NEW s, DOMAIN s = 1 .. n, \A i \in 1 .. n : s[i] \in S,
           s = [i \in 1 .. n |-> s[i]]
    PROVE  s \in Seq(S) /\ Len(s) = n
  <1>1. s \in [1 .. n -> S]
    OBVIOUS
  <1> QED BY <1>1

-----------------------------------------------------------------------------
(* Imports. *)

IsDocument(doc) ==
    /\ doc.nodes \in Seq(Range(doc.nodes)) /\ doc.edges \in Seq(Range(doc.edges))
    /\ \A e \in Range(doc.edges) :
          /\ e.type \in STRING /\ e.modes \in SUBSET STRING /\ e.flow \in STRING
          /\ e.column \in STRING \cup {NoColumn} /\ Plain(e.type, e)

\* Where the node with this id is.
Spot(doc, id) == Max(NodeOf(doc, id))

LEMMA SpotIs ==
    ASSUME NEW doc, IsDocument(doc), NEW id, NodeOf(doc, id) # {}
    PROVE  Spot(doc, id) \in Taken(doc) /\ doc.nodes[Spot(doc, id)].id = id
  <1>1. Len(doc.nodes) \in Nat /\ Taken(doc) \in SUBSET (1 .. Len(doc.nodes))
    BY DEF IsDocument, Taken, Places
  <1>2. /\ NodeOf(doc, id) \in SUBSET (1 .. Len(doc.nodes))
        /\ \A i \in NodeOf(doc, id) : i \in Taken(doc) /\ doc.nodes[i].id = id
    BY <1>1 DEF NodeOf
  <1>3. Spot(doc, id) \in NodeOf(doc, id)
    BY <1>1, <1>2, PlacesFinite DEF Spot
  <1> QED BY <1>2, <1>3

NodesOf(doc) == Kept(doc.nodes, Taken(doc))

EdgesOf(doc) == Kept(doc.edges, Joining(doc))

NumberOf(doc, id) == Rank(Taken(doc), Spot(doc, id))

ConvertedEdge(doc, e) ==
    [from |-> NumberOf(doc, e.source), to |-> NumberOf(doc, e.target),
     tag |-> e.type, modes |-> e.modes, flow |-> e.flow, column |-> e.column]

LEMMA GraphOfIs ==
    ASSUME NEW doc
    PROVE  GraphOf(doc) = [nodes |-> [i \in Places(NodesOf(doc)) |-> Converted(NodesOf(doc)[i])],
                           edges |-> [k \in Places(EdgesOf(doc)) |->
                                        ConvertedEdge(doc, EdgesOf(doc)[k])]]
  BY DEF GraphOf, NodesOf, EdgesOf, ConvertedEdge, NumberOf, Spot

\* A node of the graph is one of the document, an edge one between the nodes with its ids.
LEMMA ImportedIs ==
    ASSUME NEW doc, IsDocument(doc)
    PROVE  /\ IsGraph(GraphOf(doc))
           /\ Len(GraphOf(doc).nodes) = Cardinality(Taken(doc))
           /\ Len(GraphOf(doc).edges) = Cardinality(Joining(doc))
           /\ \A i \in Taken(doc) :
                 /\ Rank(Taken(doc), i) \in Places(GraphOf(doc).nodes)
                 /\ KeyOf(GraphOf(doc), Rank(Taken(doc), i)) = Key(doc.nodes[i])
           /\ \A e \in Range(GraphOf(doc).edges) : \E k \in Joining(doc) :
                 e = ConvertedEdge(doc, doc.edges[k])
           /\ \A k \in Joining(doc) : ConvertedEdge(doc, doc.edges[k]) \in Range(GraphOf(doc).edges)
  <1> DEFINE g == GraphOf(doc)
             nodes == NodesOf(doc)
             edges == EdgesOf(doc)
  <1>1. /\ doc.nodes \in Seq(Range(doc.nodes)) /\ doc.edges \in Seq(Range(doc.edges))
        /\ Taken(doc) \in SUBSET Places(doc.nodes) /\ Joining(doc) \in SUBSET Places(doc.edges)
    BY DEF IsDocument, Taken, Joining
  <1>2. /\ nodes \in Seq(Range(doc.nodes)) /\ Len(nodes) = Cardinality(Taken(doc))
        /\ \A i \in Taken(doc) : /\ Rank(Taken(doc), i) \in Places(nodes)
                                 /\ nodes[Rank(Taken(doc), i)] = doc.nodes[i]
    BY <1>1, KeptIs DEF NodesOf
  <1>3. /\ edges \in Seq(Range(doc.edges)) /\ Len(edges) = Cardinality(Joining(doc))
        /\ \A k \in Joining(doc) : \E l \in Places(edges) : edges[l] = doc.edges[k]
        /\ \A l \in Places(edges) : \E k \in Joining(doc) : edges[l] = doc.edges[k]
    <2> DEFINE T == Joining(doc)
    <2>1. T \in SUBSET Places(doc.edges)
      BY <1>1
    <2> HIDE DEF T
    <2>2. /\ Kept(doc.edges, T) \in Seq(Range(doc.edges)) /\ Len(Kept(doc.edges, T)) = Cardinality(T)
          /\ \A i \in T : /\ Rank(T, i) \in Places(Kept(doc.edges, T))
                          /\ Kept(doc.edges, T)[Rank(T, i)] = doc.edges[i]
          /\ \A k \in Places(Kept(doc.edges, T)) :
                \E i \in T : Rank(T, i) = k /\ Kept(doc.edges, T)[k] = doc.edges[i]
      BY <1>1, <2>1, KeptIs
    <2> QED BY <2>2 DEF EdgesOf, T
  <1>4. /\ g.nodes = [i \in Places(nodes) |-> Converted(nodes[i])]
        /\ g.edges = [k \in Places(edges) |-> ConvertedEdge(doc, edges[k])]
    BY GraphOfIs
  <1> HIDE DEF g, nodes, edges
  <1>5. /\ Len(nodes) \in Nat /\ Len(edges) \in Nat
        /\ \A k \in Places(edges) : edges[k] \in Range(doc.edges)
    BY <1>2, <1>3 DEF Places
  <1>6. /\ g.nodes \in Seq(Range(g.nodes)) /\ Len(g.nodes) = Len(nodes)
        /\ Places(g.nodes) = Places(nodes)
    <2>1. DOMAIN g.nodes = 1 .. Len(nodes) /\ g.nodes = [i \in 1 .. Len(nodes) |-> g.nodes[i]]
      BY <1>4 DEF Places
    <2>2. \A i \in 1 .. Len(nodes) : g.nodes[i] \in Range(g.nodes)
      BY <2>1 DEF Range
    <2>3. g.nodes \in Seq(Range(g.nodes)) /\ Len(g.nodes) = Len(nodes)
      BY <1>5, <2>1, <2>2, IsSequence
    <2> QED BY <2>3 DEF Places
  <1>7. ASSUME NEW i \in Taken(doc)
        PROVE  /\ Rank(Taken(doc), i) \in Places(g.nodes)
               /\ KeyOf(g, Rank(Taken(doc), i)) = Key(doc.nodes[i])
    <2>1. g.nodes[Rank(Taken(doc), i)] = Converted(doc.nodes[i])
      BY <1>2, <1>4
    <2>2. Key(Converted(doc.nodes[i])) = Key(doc.nodes[i])
      BY DEF Key, Converted
    <2> QED BY <1>2, <1>6, <2>1, <2>2 DEF KeyOf
  <1>8. ASSUME NEW k \in Joining(doc)
        PROVE  /\ ConvertedEdge(doc, doc.edges[k]) \in Edges(Places(g.nodes))
               /\ Plain(doc.edges[k].type, doc.edges[k])
    <2> DEFINE e == doc.edges[k]
    <2>1. /\ e.type \in STRING /\ e.modes \in SUBSET STRING /\ e.flow \in STRING
          /\ e.column \in STRING \cup {NoColumn} /\ Plain(e.type, e)
      BY <1>1, RangeIs DEF IsDocument
    <2>2. NodeOf(doc, e.source) # {} /\ NodeOf(doc, e.target) # {}
      BY DEF Joining
    <2>3. NumberOf(doc, e.source) \in Places(g.nodes) /\ NumberOf(doc, e.target) \in Places(g.nodes)
      BY <1>7, <2>2, SpotIs DEF NumberOf
    <2> QED BY <2>1, <2>3 DEF Edges, ConvertedEdge
  <1>9. \A k \in Joining(doc) :
           Plain(ConvertedEdge(doc, doc.edges[k]).tag, ConvertedEdge(doc, doc.edges[k]))
    BY <1>8 DEF Plain, ConvertedEdge
  <1>10. /\ g.edges \in Seq(Edges(Places(g.nodes))) /\ Len(g.edges) = Len(edges)
    <2>1. DOMAIN g.edges = 1 .. Len(edges) /\ g.edges = [k \in 1 .. Len(edges) |-> g.edges[k]]
      BY <1>4 DEF Places
    <2>2. \A k \in 1 .. Len(edges) : g.edges[k] \in Edges(Places(g.nodes))
      BY <1>3, <1>4, <1>8 DEF Places
    <2> QED BY <1>5, <2>1, <2>2, IsSequence
  <1>11. \A e \in Range(g.edges) : \E k \in Joining(doc) : e = ConvertedEdge(doc, doc.edges[k])
    BY <1>3, <1>4 DEF Range
  <1>12. \A k \in Joining(doc) : ConvertedEdge(doc, doc.edges[k]) \in Range(g.edges)
    BY <1>3, <1>4 DEF Range
  <1>13. IsGraph(g)
    BY <1>6, <1>9, <1>10, <1>11 DEF IsGraph
  <1> QED BY <1>2, <1>3, <1>6, <1>7, <1>10, <1>11, <1>12, <1>13 DEF g

SaidBy(doc, e) ==
    LET With(id) == {Key(n) : n \in {x \in Range(doc.nodes) : x.id = id}}
    IN  {<<from, to, e.type, e.column>> : from \in With(e.source), to \in With(e.target)}

WholeImport(doc, force, s) ==
    /\ Relations(s) \subseteq UNION {SaidBy(doc, e) : e \in Range(doc.edges)}
    /\ ~force =>
          /\ Len(s.nodes) = Len(doc.nodes) /\ Len(s.edges) = Len(doc.edges)
          /\ \A e \in Range(doc.edges) : SaidBy(doc, e) \cap Relations(s) # {}

LEMMA ImportWhole ==
    ASSUME NEW doc, IsDocument(doc), NEW force \in BOOLEAN, Accepted(doc, force)
    PROVE  WholeImport(doc, force, FromGraph(GraphOf(doc)))
  <1> DEFINE s == FromGraph(GraphOf(doc))
             Told(k) == Relation(s, ConvertedEdge(doc, doc.edges[k]))
  <1>1. s.nodes = GraphOf(doc).nodes /\ s.edges = GraphOf(doc).edges
    BY DEF FromGraph
  <1> HIDE DEF s
  <1>2. /\ doc.nodes \in Seq(Range(doc.nodes)) /\ doc.edges \in Seq(Range(doc.edges))
        /\ \A k \in Joining(doc) : k \in Places(doc.edges)
        /\ \A i \in Taken(doc) : i \in Places(doc.nodes)
    BY DEF IsDocument, Joining, Taken
  <1>3. /\ Len(s.nodes) = Cardinality(Taken(doc))
        /\ Len(s.edges) = Cardinality(Joining(doc))
        /\ \A i \in Taken(doc) : KeyOf(s, Rank(Taken(doc), i)) = Key(doc.nodes[i])
        /\ \A e \in Range(s.edges) : \E k \in Joining(doc) : e = ConvertedEdge(doc, doc.edges[k])
        /\ \A k \in Joining(doc) : ConvertedEdge(doc, doc.edges[k]) \in Range(s.edges)
    BY <1>1, ImportedIs DEF KeyOf
  <1>4. ASSUME NEW k \in Joining(doc)
        PROVE  doc.edges[k] \in Range(doc.edges) /\ Told(k) \in SaidBy(doc, doc.edges[k])
    <2> DEFINE e == doc.edges[k]
               i == Spot(doc, e.source)
               j == Spot(doc, e.target)
    <2>1. NodeOf(doc, e.source) # {} /\ NodeOf(doc, e.target) # {}
      BY DEF Joining
    <2>2. /\ i \in Taken(doc) /\ doc.nodes[i].id = e.source
          /\ j \in Taken(doc) /\ doc.nodes[j].id = e.target
      BY <2>1, SpotIs
    <2>3. Told(k) = <<Key(doc.nodes[i]), Key(doc.nodes[j]), e.type, e.column>>
      BY <1>3, <2>2 DEF Relation, ConvertedEdge, NumberOf
    <2>4. doc.nodes[i] \in Range(doc.nodes) /\ doc.nodes[j] \in Range(doc.nodes)
      BY <1>2, <2>2, RangeIs
    <2>5. doc.edges[k] \in Range(doc.edges)
      BY <1>2, RangeIs
    <2> HIDE DEF i, j
    <2> QED BY <2>2, <2>3, <2>4, <2>5 DEF SaidBy
  <1> HIDE DEF Told
  <1>5. ASSUME NEW r \in Relations(s) PROVE \E k \in Joining(doc) : r = Told(k)
    <2>1. PICK e \in Range(s.edges) : r = Relation(s, e)
      BY DEF Relations
    <2> QED BY <1>3, <2>1 DEF Told
  <1>6. \A k \in Joining(doc) : Told(k) \in Relations(s)
    BY <1>3 DEF Told, Relations
  <1>7. Relations(s) \subseteq UNION {SaidBy(doc, e) : e \in Range(doc.edges)}
    BY <1>4, <1>5
  <1>8. ASSUME ~force
        PROVE  /\ Len(s.nodes) = Len(doc.nodes) /\ Len(s.edges) = Len(doc.edges)
               /\ \A e \in Range(doc.edges) : SaidBy(doc, e) \cap Relations(s) # {}
    <2>1. Taken(doc) = Places(doc.nodes) /\ Joining(doc) = Places(doc.edges)
      BY <1>8 DEF Accepted, Parsed
    <2>2. \A x \in Nat : Cardinality(1 .. x) = x
      BY FS_Interval
    <2>3. Len(s.nodes) = Len(doc.nodes) /\ Len(s.edges) = Len(doc.edges)
      <3>1. Len(doc.nodes) \in Nat /\ Len(doc.edges) \in Nat
        BY <1>2
      <3> QED BY <1>3, <2>1, <2>2, <3>1 DEF Places
    <2>4. ASSUME NEW e \in Range(doc.edges) PROVE SaidBy(doc, e) \cap Relations(s) # {}
      <3>1. PICK k \in Places(doc.edges) : doc.edges[k] = e
        BY <1>2, RangeIs
      <3>2. Told(k) \in SaidBy(doc, e) /\ Told(k) \in Relations(s)
        BY <1>4, <1>6, <2>1, <3>1
      <3> QED BY <3>2
    <2> QED BY <2>3, <2>4
  <1> QED BY <1>7, <1>8 DEF WholeImport, s

Shelved == DOMAIN shelf = Store

LEMMA ShelvedStep == Shelved /\ [Next]_files => Shelved'
  BY DEF Shelved, Next, Analyze, Import, MergeInto, DedupStore, files

LEMMA ImportStep == Shelved /\ ImportIsWhole /\ [Next]_files => ImportIsWhole'
  <1> SUFFICES ASSUME Shelved, ImportIsWhole, [Next]_files PROVE ImportIsWhole'
    OBVIOUS
  <1>1. CASE UNCHANGED files
    BY <1>1 DEF files, ImportIsWhole, Made
  <1>2. ASSUME NEW n \in Store, Import(n) PROVE ImportIsWhole'
    <2>1. PICK doc \in Document, force \in BOOLEAN :
              /\ shelf' = IF Accepted(doc, force)
                          THEN [shelf EXCEPT ![n] = FromGraph(GraphOf(doc))] ELSE shelf
              /\ last' = [op |-> "import", doc |-> doc, force |-> force, to |-> n]
      BY <1>2 DEF Import
    <2>2. IsDocument(doc)
      BY StoreAssumption DEF IsDocument
    <2>3. last'.doc = doc /\ last'.force = force /\ last'.to = n
      BY <2>1
    <2>4. CASE Accepted(doc, force)
      <3>1. shelf'[n] = FromGraph(GraphOf(doc))
        BY <2>1, <2>4 DEF Shelved
      <3>2. WholeImport(doc, force, shelf'[n])
        BY <2>2, <2>4, <3>1, ImportWhole
      <3> QED BY <2>3, <3>2 DEF ImportIsWhole, Made, WholeImport, SaidBy
    <2>5. CASE ~Accepted(doc, force)
      <3>1. shelf'[n] = NoStore
        BY <1>2, <2>1, <2>5 DEF Import, Free
      <3> QED BY <2>3, <3>1 DEF ImportIsWhole
    <2> QED BY <2>4, <2>5
  <1>3. ASSUME NEW n \in Store, Analyze(n) \/ MergeInto(n) \/ DedupStore(n)
        PROVE  ImportIsWhole'
    <2>1. Analyze(n) => last'.op # "import"
      <3>1. Analyze(n) => last' = [op |-> "build"]
        BY DEF Analyze
      <3> QED BY <3>1
    <2>2. DedupStore(n) => last'.op # "import"
      <3>1. DedupStore(n) => last' = [op |-> "dedup", from |-> <<shelf[n]>>, to |-> n]
        BY DEF DedupStore
      <3> QED BY <3>1
    <2>3. MergeInto(n) => last'.op # "import"
      <3>1. MergeInto(n) => \E x, y : last' = [op |-> "merge", from |-> x, maps |-> y, to |-> n]
        BY ZenonT(30) DEF MergeInto
      <3> QED BY <3>1
    <2> QED BY <1>3, <2>1, <2>2, <2>3 DEF ImportIsWhole
  <1> QED BY <1>1, <1>2, <1>3 DEF Next

\* An import without force takes the document as a whole or not at all, whatever the
\* document; with force it says nothing the document does not say (cmd_import).
THEOREM ImportsAreWhole == Spec => []ImportIsWhole
  <1>1. Init => Shelved /\ ImportIsWhole
    BY DEF Init, Shelved, ImportIsWhole
  <1>2. (Shelved /\ ImportIsWhole) /\ [Next]_files => (Shelved /\ ImportIsWhole)'
    BY ShelvedStep, ImportStep
  <1> QED BY <1>1, <1>2, PTL DEF Spec

-----------------------------------------------------------------------------
(* Stores whose indexes agree with their graphs. *)

HasFields(s) ==
    s = [nodes |-> s.nodes, edges |-> s.edges, keyIndex |-> s.keyIndex, names |-> s.names,
         summaries |-> s.summaries, categories |-> s.categories, prints |-> s.prints,
         fileNodes |-> s.fileNodes, params |-> s.params]

KeysAreIndexed(s) ==
    /\ DOMAIN s.keyIndex = Keys(s)
    /\ \A k \in Keys(s) :
          s.keyIndex[k] \in Places(s.nodes) /\ KeyOf(s, s.keyIndex[k]) = k

Secondary(s) ==
    s.names = Names(s) /\ s.summaries = Summaries(s) /\ s.categories = Categories(s)

PrintsAgree(s) ==
    /\ Prints(s, {"mapper"}) \subseteq s.prints
    /\ s.prints \subseteq Prints(s, {"mapper", "proc"}) \cup Variants(s, s.keyIndex)

\* All nodes with the key of a routine have its parameters, those another store will
\* choose among included.
ParamsHold(s) ==
    \A k \in DOMAIN s.params :
        k \in Keys(s) /\ \A i \in Places(s.nodes) : KeyOf(s, i) = k => s.nodes[i].file = s.params[k]

Well(s) ==
    /\ HasFields(s) /\ IsGraph(s)
    /\ KeysAreIndexed(s) /\ Secondary(s) /\ PrintsAgree(s)
    /\ FileNodes(s) \subseteq s.fileNodes
    /\ ParamsHold(s)

StoresWell == \A n \in Store : shelf[n] = NoStore \/ Well(shelf[n])

LEMMA WellAgrees == ASSUME StoresWell PROVE IndexesAgree
  <1> SUFFICES ASSUME NEW s \in Stores
               PROVE  /\ KeysAreIndexed(s) /\ Secondary(s) /\ PrintsAgree(s)
                      /\ FileNodes(s) \subseteq s.fileNodes
                      /\ \A k \in DOMAIN s.params :
                            k \in Keys(s) /\ s.nodes[s.keyIndex[k]].file = s.params[k]
    BY DEF IndexesAgree, KeysAreIndexed, Secondary, PrintsAgree
  <1>1. Well(s)
    BY DEF Stores, StoresWell
  <1> QED BY <1>1 DEF Well, ParamsHold, KeysAreIndexed

LEMMA SameGraph ==
    ASSUME NEW s, NEW g, s.nodes = g.nodes, s.edges = g.edges
    PROVE  /\ Keys(s) = Keys(g) /\ KeyIndex(s) = KeyIndex(g) /\ Names(s) = Names(g)
           /\ Summaries(s) = Summaries(g) /\ Categories(s) = Categories(g)
           /\ \A kinds : Prints(s, kinds) = Prints(g, kinds)
           /\ \A index : Variants(s, index) = Variants(g, index)
           /\ FileNodes(s) = FileNodes(g)
           /\ IsGraph(s) <=> IsGraph(g)
           /\ \A i : KeyOf(s, i) = KeyOf(g, i)
  BY DEF Keys, KeyIndex, Names, Summaries, Categories, Prints, Variants, FileNodes, IsGraph, KeyOf

LEMMA KeyIndexIs ==
    ASSUME NEW g, IsGraph(g)
    PROVE  /\ DOMAIN KeyIndex(g) = Keys(g)
           /\ \A k \in Keys(g) : KeyIndex(g)[k] \in Places(g.nodes) /\ KeyOf(g, KeyIndex(g)[k]) = k
  <1>1. Len(g.nodes) \in Nat
    BY DEF IsGraph
  <1>2. ASSUME NEW k \in Keys(g)
        PROVE  KeyIndex(g)[k] \in Places(g.nodes) /\ KeyOf(g, KeyIndex(g)[k]) = k
    <2> DEFINE T == {i \in Places(g.nodes) : KeyOf(g, i) = k}
    <2>1. T \in SUBSET (1 .. Len(g.nodes)) /\ T # {}
      BY DEF Places, Keys
    <2>2. KeyIndex(g)[k] = Max(T)
      BY DEF KeyIndex
    <2>3. \A i \in T : i \in Places(g.nodes) /\ KeyOf(g, i) = k
      OBVIOUS
    <2> HIDE DEF T
    <2>4. Max(T) \in T
      BY <1>1, <2>1, PlacesFinite
    <2> QED BY <2>2, <2>3, <2>4
  <1>3. DOMAIN KeyIndex(g) = Keys(g)
    BY DEF KeyIndex
  <1> QED BY <1>2, <1>3

LEMMA MorePrints ==
    ASSUME NEW g PROVE Prints(g, {"mapper"}) \subseteq Prints(g, {"mapper", "proc"})
  BY DEF Prints

LEMMA FromGraphWell ==
    ASSUME NEW g, IsGraph(g)
    PROVE  Well(FromGraph(g))
  <1> DEFINE s == FromGraph(g)
  <1>1. s = [nodes |-> g.nodes, edges |-> g.edges, keyIndex |-> KeyIndex(g),
             names |-> Names(g), summaries |-> Summaries(g), categories |-> Categories(g),
             prints |-> Prints(g, {"mapper", "proc"}), fileNodes |-> FileNodes(g),
             params |-> <<>>]
    BY DEF FromGraph
  <1> HIDE DEF s
  <1>2. HasFields(s)
    BY <1>1 DEF HasFields
  <1>3. s.nodes = g.nodes /\ s.edges = g.edges
    BY <1>1
  <1>4. /\ Keys(s) = Keys(g) /\ Names(s) = Names(g)
        /\ Summaries(s) = Summaries(g) /\ Categories(s) = Categories(g)
        /\ \A kinds : Prints(s, kinds) = Prints(g, kinds)
        /\ FileNodes(s) = FileNodes(g)
        /\ IsGraph(s)
        /\ \A i : KeyOf(s, i) = KeyOf(g, i)
    BY <1>3, SameGraph
  <1>5. KeysAreIndexed(s)
    BY <1>1, <1>3, <1>4, KeyIndexIs DEF KeysAreIndexed
  <1>6. Secondary(s) /\ PrintsAgree(s) /\ FileNodes(s) \subseteq s.fileNodes
    BY <1>1, <1>4, MorePrints DEF Secondary, PrintsAgree
  <1>7. ParamsHold(s)
    BY <1>1 DEF ParamsHold
  <1> QED BY <1>2, <1>4, <1>5, <1>6, <1>7 DEF Well, s

LEMMA AnalyzedWell ==
    ASSUME NEW g, IsGraph(g), NEW params,
           \A k \in DOMAIN params :
               k \in Keys(g) /\ \A i \in Places(g.nodes) : KeyOf(g, i) = k => g.nodes[i].file = params[k]
    PROVE  Well([FromGraph(g) EXCEPT !.params = params,
                                     !.prints = @ \cup Variants(g, KeyIndex(g))])
  <1> DEFINE f == FromGraph(g)
             s == [f EXCEPT !.params = params, !.prints = @ \cup Variants(g, KeyIndex(g))]
  <1>1. /\ Well(f) /\ f.nodes = g.nodes /\ f.edges = g.edges /\ f.keyIndex = KeyIndex(g)
        /\ HasFields(f)
    BY FromGraphWell DEF FromGraph, Well
  <1> HIDE DEF f
  <1>2. s = [nodes |-> f.nodes, edges |-> f.edges, keyIndex |-> f.keyIndex, names |-> f.names,
             summaries |-> f.summaries, categories |-> f.categories,
             prints |-> f.prints \cup Variants(g, KeyIndex(g)),
             fileNodes |-> f.fileNodes, params |-> params]
    <2> DEFINE more == f.prints \cup Variants(g, KeyIndex(g))
    <2>1. s = [f EXCEPT !.params = params, !.prints = more]
      BY <1>1 DEF HasFields
    <2> HIDE DEF more, s
    <2> QED BY <1>1, <2>1 DEF HasFields, more
  <1> HIDE DEF s
  <1>3. HasFields(s) /\ s.nodes = f.nodes /\ s.edges = f.edges
    BY <1>2 DEF HasFields
  <1>4. /\ Keys(s) = Keys(f) /\ Names(s) = Names(f)
        /\ Summaries(s) = Summaries(f) /\ Categories(s) = Categories(f)
        /\ \A kinds : Prints(s, kinds) = Prints(f, kinds)
        /\ FileNodes(s) = FileNodes(f)
        /\ IsGraph(s) <=> IsGraph(f)
        /\ \A i : KeyOf(s, i) = KeyOf(f, i)
    BY <1>3, SameGraph
  <1>5. /\ \A index : Variants(s, index) = Variants(g, index) /\ Variants(f, index) = Variants(g, index)
        /\ Keys(f) = Keys(g) /\ \A i : KeyOf(f, i) = KeyOf(g, i)
    BY <1>1, <1>3, SameGraph
  <1>6. KeysAreIndexed(s)
    BY <1>1, <1>2, <1>3, <1>4 DEF KeysAreIndexed, Well
  <1>7. Secondary(s) /\ FileNodes(s) \subseteq s.fileNodes
    BY <1>1, <1>2, <1>4 DEF Secondary, Well
  <1>8. PrintsAgree(s)
    <2>1. s.prints = f.prints \cup Variants(s, s.keyIndex)
      BY <1>1, <1>2, <1>5
    <2>2. f.prints \subseteq Prints(f, {"mapper", "proc"}) \cup Variants(s, s.keyIndex)
      BY <1>1, <1>2, <1>5 DEF PrintsAgree, Well
    <2>3. Prints(s, {"mapper"}) \subseteq f.prints
      BY <1>1, <1>4 DEF PrintsAgree, Well
    <2> QED BY <1>4, <2>1, <2>2, <2>3 DEF PrintsAgree
  <1>9. ParamsHold(s)
    <2>1. s.params = params /\ s.nodes = g.nodes /\ Keys(s) = Keys(g)
          /\ \A i : KeyOf(s, i) = KeyOf(g, i)
      BY <1>1, <1>2, <1>3, <1>4, <1>5
    <2> QED BY <2>1 DEF ParamsHold
  <1> QED BY <1>1, <1>3, <1>4, <1>6, <1>7, <1>8, <1>9 DEF Well, s, f

-----------------------------------------------------------------------------
(* Uniting edges of one sort. *)

SortOf(edges, sort, k) == {l \in Places(edges) : sort[l] = sort[k]}

AllModes(edges, sort, k) == UNION {edges[l].modes : l \in SortOf(edges, sort, k)}

United(edges, sort, k) == [edges[k] EXCEPT !.modes = AllModes(edges, sort, k)]

\* u has one edge of each sort, and src says which one that was.
UnitedBy(edges, sort, u, src) ==
    /\ \A k \in Places(u) : /\ src[k] \in Places(edges)
                            /\ u[k] = United(edges, sort, src[k])
    /\ \A j, k \in Places(u) : sort[src[j]] = sort[src[k]] => j = k
    /\ \A l \in Places(edges) : \E k \in Places(u) : sort[src[k]] = sort[l]

LEMMA UniteIs ==
    ASSUME NEW N, NEW edges \in Seq(Edges(N)), NEW sort
    PROVE  /\ Unite(edges, sort) \in Seq(Edges(N))
           /\ \E src : UnitedBy(edges, sort, Unite(edges, sort), src)
  <1> DEFINE n == Len(edges)
             b == [k \in Places(edges) |-> United(edges, sort, k)]
             set == {k \in Places(edges) : \E l \in SortOf(edges, sort, k) : l < k}
             u == Unite(edges, sort)
  <1>1. n \in Nat /\ Places(edges) = 1 .. n /\ \A k \in 1 .. n : edges[k] \in Edges(N)
    BY DEF Places
  <1>2. ASSUME NEW k \in 1 .. n PROVE United(edges, sort, k) \in Edges(N)
    <2>1. \A l \in 1 .. n : edges[l].modes \in SUBSET STRING
      BY <1>1 DEF Edges
    <2>2. AllModes(edges, sort, k) \in SUBSET STRING
      BY <1>1, <2>1 DEF AllModes, SortOf
    <2> QED BY <1>1, <2>2 DEF United, Edges
  <1>3. b \in Seq(Edges(N)) /\ Len(b) = n /\ Places(b) = 1 .. n
    <2>1. b \in [1 .. n -> Edges(N)]
      BY <1>1, <1>2
    <2>2. b \in Seq(Edges(N)) /\ Len(b) = n
      BY <1>1, <2>1
    <2> QED BY <2>2 DEF Places
  <1>4. set \in SUBSET Places(b)
    BY <1>1, <1>3
  <1>5. u = RemoveDescending(b, set)
    BY DEF Unite, United, AllModes, SortOf
  <1>6. \A k \in 1 .. n : b[k] = United(edges, sort, k)
    BY <1>1
  <1>7. \A k \in 1 .. n : k \in set <=> \E l \in 1 .. n : sort[l] = sort[k] /\ l < k
    BY <1>1 DEF SortOf
  <1> HIDE DEF b, set, u, n
  <1>8. u \in Seq(Edges(N))
    BY <1>3, <1>4, <1>5, RemoveDescendingIs
  <1>9. PICK pi : Shrunk(b, u, set, 1, pi)
    BY <1>3, <1>4, <1>5, RemoveDescendingIs
  <1>10. /\ \A k \in Places(u) : pi[k] \in 1 .. n /\ pi[k] \notin set /\ u[k] = b[pi[k]]
         /\ \A p \in 1 .. n : p \notin set => \E k \in Places(u) : pi[k] = p
         /\ \A j, k \in Places(u) : pi[j] = pi[k] => j = k
    BY <1>3, <1>9 DEF Shrunk
  <1>11. ASSUME NEW j \in Places(u), NEW k \in Places(u), sort[pi[j]] = sort[pi[k]] PROVE j = k
    <2>1. pi[j] \in 1 .. n /\ pi[k] \in 1 .. n /\ pi[j] \notin set /\ pi[k] \notin set
      BY <1>10
    <2>2. ~(pi[j] < pi[k]) /\ ~(pi[k] < pi[j])
      BY <1>7, <1>11, <2>1
    <2>3. pi[j] = pi[k]
      BY <2>1, <2>2
    <2> QED BY <1>10, <2>3
  <1>12. ASSUME NEW l \in 1 .. n PROVE \E k \in Places(u) : sort[pi[k]] = sort[l]
    <2> DEFINE T == {x \in 1 .. n : sort[x] = sort[l]}
    <2>1. T \in SUBSET Nat /\ l \in T
      OBVIOUS
    <2>2. \A x \in T : x \in 1 .. n /\ sort[x] = sort[l]
      OBVIOUS
    <2>3. \A x \in 1 .. n : sort[x] = sort[l] => x \in T
      OBVIOUS
    <2> HIDE DEF T
    <2>4. Min(T) \in T /\ \A x \in T : Min(T) <= x
      BY <2>1, LeastOfNats
    <2>5. PICK f \in T : \A x \in T : f <= x
      BY <2>4
    <2>6. f \in 1 .. n /\ sort[f] = sort[l]
      BY <2>2
    <2>7. f \notin set
      <3>1. ASSUME NEW x \in 1 .. n, sort[x] = sort[f] PROVE ~(x < f)
        <4>1. f <= x
          BY <2>3, <2>5, <2>6, <3>1
        <4> QED BY <2>6, <4>1
      <3> QED BY <1>7, <2>6, <3>1
    <2> QED BY <1>10, <2>6, <2>7
  <1>13. UnitedBy(edges, sort, u, pi)
    BY <1>1, <1>6, <1>10, <1>11, <1>12 DEF UnitedBy
  <1> QED BY <1>8, <1>13 DEF u

\* What uniting does not change, and the modes there are of a sort.
LEMMA UnitedIs ==
    ASSUME NEW N, NEW edges \in Seq(Edges(N)), NEW sort, NEW k \in Places(edges)
    PROVE  /\ United(edges, sort, k).from = edges[k].from /\ United(edges, sort, k).to = edges[k].to
           /\ United(edges, sort, k).tag = edges[k].tag
           /\ United(edges, sort, k).column = edges[k].column
           /\ United(edges, sort, k).modes = AllModes(edges, sort, k)
           /\ United(edges, sort, k) \in Edges(N) /\ edges[k] \in Edges(N)
  <1>1. \A l \in Places(edges) : edges[l] \in Edges(N)
    BY DEF Places
  <1>2. AllModes(edges, sort, k) \in SUBSET STRING
    BY <1>1 DEF AllModes, SortOf, Edges
  <1> QED BY <1>1, <1>2 DEF United, Edges

-----------------------------------------------------------------------------
(* Maps which grow. *)

Maps(K, V) == UNION {[D -> V] : D \in SUBSET K}

LEMMA MapsAre ==
    ASSUME NEW K, NEW V, NEW f
    PROVE  f \in Maps(K, V) <=> /\ DOMAIN f \in SUBSET K
                                /\ \A x \in DOMAIN f : f[x] \in V
                                /\ f = [x \in DOMAIN f |-> f[x]]
  <1>1. ASSUME f \in Maps(K, V)
        PROVE  DOMAIN f \in SUBSET K /\ (\A x \in DOMAIN f : f[x] \in V)
               /\ f = [x \in DOMAIN f |-> f[x]]
    <2>1. PICK D \in SUBSET K : f \in [D -> V]
      BY <1>1 DEF Maps
    <2> QED BY <2>1
  <1>2. ASSUME DOMAIN f \in SUBSET K, \A x \in DOMAIN f : f[x] \in V,
               f = [x \in DOMAIN f |-> f[x]]
        PROVE  f \in Maps(K, V)
    <2>1. f \in [DOMAIN f -> V]
      BY <1>2
    <2> QED BY <1>2, <2>1 DEF Maps
  <1> QED BY <1>1, <1>2

LEMMA PutDomain ==
    ASSUME NEW f, NEW x, NEW y PROVE DOMAIN Put(f, x, y) = DOMAIN f \cup {x}
  BY DEF Put

LEMMA PutNew ==
    ASSUME NEW f, NEW x, NEW y PROVE Put(f, x, y)[x] = y
  BY DEF Put

LEMMA PutOld ==
    ASSUME NEW f, NEW x, NEW y, NEW z, z \in DOMAIN f, z # x PROVE Put(f, x, y)[z] = f[z]
  BY DEF Put

LEMMA PutTyped ==
    ASSUME NEW K, NEW V, NEW f, NEW x, NEW y, f \in Maps(K, V), x \in K, y \in V
    PROVE  Put(f, x, y) \in Maps(K, V)
  <1> DEFINE D == DOMAIN f \cup {x}
             p == [z \in D |-> IF z = x THEN y ELSE f[z]]
  <1>1. DOMAIN f \in SUBSET K /\ \A z \in DOMAIN f : f[z] \in V
    BY MapsAre
  <1>2. D \in SUBSET K /\ p \in [D -> V]
    BY <1>1
  <1>3. p \in Maps(K, V)
    <2> HIDE DEF D, p
    <2> QED BY <1>2 DEF Maps
  <1> QED BY <1>3 DEF Put

LEMMA EmptyMap ==
    ASSUME NEW K, NEW V PROVE <<>> \in Maps(K, V) /\ DOMAIN <<>> = {}
  <1>1. DOMAIN <<>> = {} /\ <<>> = [x \in {} |-> x]
    OBVIOUS
  <1>2. <<>> \in [{} -> V]
    BY <1>1
  <1> QED BY <1>1, <1>2 DEF Maps

-----------------------------------------------------------------------------
(* Which node gives way to which. *)

YieldType(g) == [canon : Maps(Keys(g), Nat), to : Maps(Nat, Nat)]

Yield(g, acc, i) ==
    LET key == KeyOf(g, i)
    IN  IF key \notin DOMAIN acc.canon
        THEN [acc EXCEPT !.canon = Put(@, key, i)]
        ELSE IF Richer(g.nodes[acc.canon[key]], g.nodes[i])
        THEN [acc EXCEPT !.to = Put(@, i, acc.canon[key])]
        ELSE [acc EXCEPT !.to = Put(@, acc.canon[key], i), !.canon = Put(@, key, i)]

\* The later of a node and the one it gives way to: when it did.
When(to, p) == IF to[p] > p THEN to[p] ELSE p

RichOf(g) == {p \in Places(g.nodes) : g.nodes[p].rich}

Yielded(g, a, i) ==
    /\ DOMAIN a.canon = {KeyOf(g, p) : p \in 1 .. i}
    /\ \A k \in DOMAIN a.canon : a.canon[k] \in 1 .. i /\ KeyOf(g, a.canon[k]) = k
    /\ DOMAIN a.to \in SUBSET (1 .. i)
    /\ \A p \in DOMAIN a.to : /\ a.to[p] \in 1 .. i
                              /\ KeyOf(g, a.to[p]) = KeyOf(g, p)
                              /\ a.to[p] \in DOMAIN a.to => When(a.to, p) < When(a.to, a.to[p])
    /\ \A p \in 1 .. i : /\ p \in DOMAIN a.to <=> p # a.canon[KeyOf(g, p)]
                         /\ p \in RichOf(g) => a.canon[KeyOf(g, p)] \in RichOf(g)

LEMMA YieldIs ==
    ASSUME NEW g, NEW a, a \in YieldType(g), NEW i \in Places(g.nodes), Len(g.nodes) \in Nat
    PROVE  /\ Yield(g, a, i) \in YieldType(g)
           /\ KeyOf(g, i) \notin DOMAIN a.canon =>
                 /\ Yield(g, a, i).canon = Put(a.canon, KeyOf(g, i), i)
                 /\ Yield(g, a, i).to = a.to
           /\ KeyOf(g, i) \in DOMAIN a.canon
                 /\ Richer(g.nodes[a.canon[KeyOf(g, i)]], g.nodes[i]) =>
                 /\ Yield(g, a, i).canon = a.canon
                 /\ Yield(g, a, i).to = Put(a.to, i, a.canon[KeyOf(g, i)])
           /\ KeyOf(g, i) \in DOMAIN a.canon
                 /\ ~Richer(g.nodes[a.canon[KeyOf(g, i)]], g.nodes[i]) =>
                 /\ Yield(g, a, i).canon = Put(a.canon, KeyOf(g, i), i)
                 /\ Yield(g, a, i).to = Put(a.to, a.canon[KeyOf(g, i)], i)
  <1> DEFINE key == KeyOf(g, i)
             c == Put(a.canon, key, i)
             t1 == Put(a.to, i, a.canon[key])
             t2 == Put(a.to, a.canon[key], i)
             y == Yield(g, a, i)
  <1>1. /\ a = [canon |-> a.canon, to |-> a.to]
        /\ a.canon \in Maps(Keys(g), Nat) /\ a.to \in Maps(Nat, Nat)
    BY DEF YieldType
  <1>2. key \in Keys(g) /\ i \in Nat
    BY DEF Keys, Places
  <1>3. key \in DOMAIN a.canon => a.canon[key] \in Nat
    BY <1>1, MapsAre
  <1>4. /\ c \in Maps(Keys(g), Nat)
        /\ key \in DOMAIN a.canon => t1 \in Maps(Nat, Nat) /\ t2 \in Maps(Nat, Nat)
    BY <1>1, <1>2, <1>3, PutTyped
  <1>5. y = IF key \notin DOMAIN a.canon THEN [a EXCEPT !.canon = c]
            ELSE IF Richer(g.nodes[a.canon[key]], g.nodes[i]) THEN [a EXCEPT !.to = t1]
            ELSE [a EXCEPT !.to = t2, !.canon = c]
    BY <1>1 DEF Yield
  <1> HIDE DEF c, t1, t2, y, key
  <1> DEFINE richer == Richer(g.nodes[a.canon[key]], g.nodes[i])
             Goal == /\ y \in YieldType(g)
                     /\ key \notin DOMAIN a.canon => y.canon = c /\ y.to = a.to
                     /\ key \in DOMAIN a.canon /\ richer => y.canon = a.canon /\ y.to = t1
                     /\ key \in DOMAIN a.canon /\ ~richer => y.canon = c /\ y.to = t2
  <1>6. ASSUME key \notin DOMAIN a.canon PROVE Goal
    <2>1. y = [canon |-> c, to |-> a.to]
      BY <1>1, <1>5, <1>6
    <2> QED BY <1>1, <1>4, <1>6, <2>1 DEF YieldType
  <1>7. ASSUME key \in DOMAIN a.canon, richer PROVE Goal
    <2>1. y = [canon |-> a.canon, to |-> t1]
      BY <1>1, <1>5, <1>7
    <2> QED BY <1>1, <1>4, <1>7, <2>1 DEF YieldType
  <1>8. ASSUME key \in DOMAIN a.canon, ~richer PROVE Goal
    <2>1. y = [canon |-> c, to |-> t2]
      BY <1>1, <1>5, <1>8
    <2> QED BY <1>1, <1>4, <1>8, <2>1 DEF YieldType
  <1>9. Goal
    BY <1>6, <1>7, <1>8
  <1> QED BY <1>9 DEF c, t1, t2, y, key

LEMMA YieldedStep ==
    ASSUME NEW g, NEW a, NEW i, Len(g.nodes) \in Nat, a \in YieldType(g), i \in Places(g.nodes),
           Yielded(g, a, i - 1)
    PROVE  Yielded(g, Yield(g, a, i), i)
  <1> DEFINE key == KeyOf(g, i)
             canon == a.canon
             to == a.to
             c == Yield(g, a, i).canon
             t == Yield(g, a, i).to
             q == canon[key]
             K(p) == KeyOf(g, p)
             R == RichOf(g)
  <1>1. i \in Nat /\ i >= 1
    BY DEF Places
  <1>2. /\ key \notin DOMAIN canon => c = Put(canon, key, i) /\ t = to
        /\ key \in DOMAIN canon /\ (q \in R \/ i \notin R) => c = canon /\ t = Put(to, i, q)
        /\ key \in DOMAIN canon /\ ~(q \in R \/ i \notin R) => c = Put(canon, key, i) /\ t = Put(to, q, i)
    <2>1. key \in DOMAIN canon => q \in Places(g.nodes)
      BY DEF Yielded, Places
    <2>2. key \in DOMAIN canon =>
             (Richer(g.nodes[q], g.nodes[i]) <=> q \in R \/ i \notin R)
      BY <2>1 DEF Richer, RichOf
    <2> QED BY <2>2, YieldIs
  <1>3. DOMAIN canon = {K(p) : p \in 1 .. i - 1}
    BY DEF Yielded
  <1>4. \A k \in DOMAIN canon : canon[k] \in 1 .. i - 1 /\ K(canon[k]) = k
    BY DEF Yielded
  <1>5. /\ DOMAIN to \in SUBSET (1 .. i - 1)
        /\ \A p \in DOMAIN to : /\ to[p] \in 1 .. i - 1
                                /\ K(to[p]) = K(p)
                                /\ to[p] \in DOMAIN to => When(to, p) < When(to, to[p])
    BY DEF Yielded
  <1>6. \A p \in 1 .. i - 1 : /\ p \in DOMAIN to <=> p # canon[K(p)]
                              /\ p \in R => canon[K(p)] \in R
    BY DEF Yielded
  <1>7. K(i) = key
    OBVIOUS
  <1> DEFINE Goal == /\ DOMAIN c = {K(p) : p \in 1 .. i}
                     /\ \A k \in DOMAIN c : c[k] \in 1 .. i /\ K(c[k]) = k
                     /\ DOMAIN t \in SUBSET (1 .. i)
                     /\ \A p \in DOMAIN t : /\ t[p] \in 1 .. i
                                            /\ K(t[p]) = K(p)
                                            /\ t[p] \in DOMAIN t => When(t, p) < When(t, t[p])
                     /\ \A p \in 1 .. i : /\ p \in DOMAIN t <=> p # c[K(p)]
                                          /\ p \in R => c[K(p)] \in R
  <1> HIDE DEF key, canon, to, c, t, q, K, R, Goal
  <1>8. \A p \in 1 .. i : p = i \/ p \in 1 .. i - 1
    BY <1>1
  <1>9. \A p \in 1 .. i - 1 : p \in 1 .. i /\ p # i /\ p < i
    BY <1>1
  <1>10. i \in 1 .. i
    BY <1>1
  <1>11. DOMAIN canon \cup {key} = {K(p) : p \in 1 .. i}
    BY <1>3, <1>7, <1>8, <1>9, <1>10
  <1>12. \A p \in 1 .. i - 1 : K(p) \in DOMAIN canon
    BY <1>3
  <1>13. ASSUME key \notin DOMAIN canon PROVE Goal
    <2>1. t = to /\ DOMAIN c = {K(p) : p \in 1 .. i} /\ c[key] = i
      BY <1>2, <1>11, <1>13 DEF Put
    <2>2. ASSUME NEW k \in DOMAIN canon PROVE c[k] = canon[k]
      BY <1>2, <1>13 DEF Put
    <2>3. \A k \in DOMAIN c : k = key \/ k \in DOMAIN canon
      BY <1>11, <2>1
    <2>4. \A k \in DOMAIN c : c[k] \in 1 .. i /\ K(c[k]) = k
      BY <1>4, <1>7, <1>9, <1>10, <2>1, <2>2, <2>3
    <2>5. i \notin DOMAIN to
      BY <1>5, <1>9
    <2>6. \A p \in 1 .. i : (p \in DOMAIN t <=> p # c[K(p)]) /\ (p \in R => c[K(p)] \in R)
      BY <1>6, <1>7, <1>8, <1>12, <2>1, <2>2, <2>5
    <2>7. DOMAIN t \in SUBSET (1 .. i)
      BY <1>5, <1>9, <2>1
    <2>8. \A p \in DOMAIN t : /\ t[p] \in 1 .. i
                              /\ K(t[p]) = K(p)
                              /\ t[p] \in DOMAIN t => When(t, p) < When(t, t[p])
      BY <1>5, <1>9, <2>1
    <2> QED BY <2>1, <2>4, <2>6, <2>7, <2>8, Zenon DEF Goal
  <1>14. ASSUME key \in DOMAIN canon
         PROVE  q \in 1 .. i - 1 /\ K(q) = key /\ canon[key] = q /\ q \notin DOMAIN to
    BY <1>4, <1>6, <1>14 DEF q
  <1>15. ASSUME key \in DOMAIN canon, q \in R \/ i \notin R PROVE Goal
    <2>1. c = canon /\ DOMAIN c = {K(p) : p \in 1 .. i}
      BY <1>2, <1>11, <1>15
    <2>2. DOMAIN t = DOMAIN to \cup {i} /\ t[i] = q
      BY <1>2, <1>15 DEF Put
    <2>3. ASSUME NEW p \in DOMAIN to PROVE t[p] = to[p] /\ p # i
      <3>1. p # i
        BY <1>5, <1>9
      <3> QED BY <1>2, <1>15, <3>1 DEF Put
    <2>4. \A k \in DOMAIN c : c[k] \in 1 .. i /\ K(c[k]) = k
      BY <1>4, <1>9, <2>1
    <2>5. DOMAIN t \in SUBSET (1 .. i)
      BY <1>5, <1>9, <1>10, <2>2
    <2>6. q \in 1 .. i - 1 /\ K(q) = key /\ canon[key] = q /\ q \notin DOMAIN to /\ q # i
      BY <1>9, <1>14, <1>15
    <2>7. ASSUME NEW p \in DOMAIN t
          PROVE  /\ t[p] \in 1 .. i /\ K(t[p]) = K(p)
                 /\ t[p] \in DOMAIN t => When(t, p) < When(t, t[p])
      <3>1. CASE p = i
        BY <1>7, <1>9, <2>2, <2>6, <3>1
      <3>2. CASE p \in DOMAIN to
        <4>1. t[p] = to[p] /\ to[p] \in 1 .. i - 1 /\ K(to[p]) = K(p)
          BY <1>5, <2>3, <3>2
        <4>2. ASSUME t[p] \in DOMAIN t PROVE When(t, p) < When(t, t[p])
          <5>1. to[p] \in DOMAIN to
            BY <1>9, <2>2, <4>1, <4>2
          <5>2. When(to, p) < When(to, to[p]) /\ t[to[p]] = to[to[p]]
            BY <1>5, <2>3, <3>2, <5>1
          <5> QED BY <4>1, <5>2 DEF When
        <4> QED BY <1>9, <4>1, <4>2
      <3> QED BY <2>2, <3>1, <3>2
    <2>8. \A p \in 1 .. i : (p \in DOMAIN t <=> p # c[K(p)]) /\ (p \in R => c[K(p)] \in R)
      <3>1. i \in DOMAIN t /\ i # c[K(i)] /\ (i \in R => c[K(i)] \in R)
        BY <1>7, <1>15, <2>1, <2>2, <2>6
      <3>2. \A p \in 1 .. i - 1 : p \in DOMAIN t <=> p \in DOMAIN to
        BY <1>9, <2>2
      <3> QED BY <1>6, <1>8, <2>1, <3>1, <3>2
    <2> QED BY <2>1, <2>4, <2>5, <2>7, <2>8, Zenon DEF Goal
  <1>16. ASSUME key \in DOMAIN canon, ~(q \in R \/ i \notin R) PROVE Goal
    <2>1. DOMAIN c = {K(p) : p \in 1 .. i} /\ c[key] = i
      BY <1>2, <1>11, <1>16 DEF Put
    <2>2. DOMAIN t = DOMAIN to \cup {q} /\ t[q] = i
      BY <1>2, <1>16 DEF Put
    <2>3. q \in 1 .. i - 1 /\ q \in 1 .. i /\ K(q) = key /\ canon[key] = q /\ q \notin DOMAIN to /\ q # i
      BY <1>9, <1>14, <1>16
    <2>4. ASSUME NEW p \in DOMAIN to PROVE t[p] = to[p] /\ p # q
      <3>1. p # q
        BY <2>3
      <3> QED BY <1>2, <1>16, <3>1 DEF Put
    <2>5. ASSUME NEW k \in DOMAIN canon, k # key PROVE c[k] = canon[k]
      BY <1>2, <1>16, <2>5 DEF Put
    <2>6. \A k \in DOMAIN c : k = key \/ (k \in DOMAIN canon /\ k # key)
      BY <1>11, <2>1
    <2>7. \A k \in DOMAIN c : c[k] \in 1 .. i /\ K(c[k]) = k
      BY <1>4, <1>7, <1>9, <1>10, <2>1, <2>5, <2>6
    <2>8. DOMAIN t \in SUBSET (1 .. i)
      BY <1>5, <1>9, <2>2, <2>3
    <2>9. i \notin DOMAIN t
      BY <1>5, <1>9, <2>2, <2>3
    <2>10. ASSUME NEW p \in DOMAIN t
           PROVE  /\ t[p] \in 1 .. i /\ K(t[p]) = K(p)
                  /\ t[p] \in DOMAIN t => When(t, p) < When(t, t[p])
      <3>1. CASE p = q
        BY <1>7, <1>10, <2>2, <2>3, <2>9, <3>1
      <3>2. CASE p \in DOMAIN to
        <4>1. t[p] = to[p] /\ to[p] \in 1 .. i - 1 /\ K(to[p]) = K(p) /\ p \in 1 .. i - 1
          BY <1>5, <2>4, <3>2
        <4>2. ASSUME t[p] \in DOMAIN t PROVE When(t, p) < When(t, t[p])
          <5>1. CASE to[p] = q
            <6>1. When(t, p) \in 1 .. i - 1
              BY <4>1 DEF When
            <6>2. When(t, t[p]) = i
              BY <1>1, <2>2, <2>3, <4>1, <5>1 DEF When
            <6> QED BY <1>1, <6>1, <6>2
          <5>2. CASE to[p] # q
            <6>1. to[p] \in DOMAIN to
              BY <2>2, <4>1, <4>2, <5>2
            <6>2. When(to, p) < When(to, to[p]) /\ t[to[p]] = to[to[p]]
              BY <1>5, <2>4, <3>2, <6>1
            <6> QED BY <4>1, <6>2 DEF When
          <5> QED BY <5>1, <5>2
        <4> QED BY <1>9, <4>1, <4>2
      <3> QED BY <2>2, <3>1, <3>2
    <2>11. \A p \in 1 .. i : (p \in DOMAIN t <=> p # c[K(p)]) /\ (p \in R => c[K(p)] \in R)
      <3>1. i = c[K(i)]
        BY <1>7, <2>1
      <3>2. ASSUME NEW p \in 1 .. i - 1
            PROVE  (p \in DOMAIN t <=> p # c[K(p)]) /\ (p \in R => c[K(p)] \in R)
        <4>1. CASE K(p) = key
          <5>1. c[K(p)] = i /\ p # i /\ i \in R
            BY <1>9, <1>16, <2>1, <4>1
          <5>2. p \in DOMAIN t
            BY <1>6, <2>2, <2>3, <4>1
          <5> QED BY <5>1, <5>2
        <4>2. CASE K(p) # key
          <5>1. c[K(p)] = canon[K(p)] /\ p # q
            BY <1>12, <2>3, <2>5, <4>2
          <5> QED BY <1>6, <2>2, <5>1
        <4> QED BY <4>1, <4>2
      <3> QED BY <1>8, <2>9, <3>1, <3>2
    <2> QED BY <2>1, <2>7, <2>8, <2>10, <2>11, Zenon DEF Goal
  <1>17. Goal
    BY <1>13, <1>15, <1>16
  <1> QED BY <1>17 DEF Goal, Yielded, c, t, K, R

\* What Yields folds.
Yieldings(g, F) ==
    F = [s \in SUBSET DOMAIN Ascending(g.nodes) |->
            IF s = {} THEN [canon |-> <<>>, to |-> <<>>]
            ELSE Yield(g, F[s \ {Max(s)}], Ascending(g.nodes)[Max(s)])]

LEMMA YieldsWalk ==
    ASSUME NEW g, IsGraph(g)
    PROVE  \E H : /\ H \in [0 .. Len(g.nodes) -> YieldType(g)]
                  /\ H[0] = [canon |-> <<>>, to |-> <<>>]
                  /\ \A m \in 1 .. Len(g.nodes) : H[m] = Yield(g, H[m - 1], m)
                  /\ Yields(g) = H[Len(g.nodes)].to
  <1> DEFINE n == Len(g.nodes)
             A == YieldType(g)
             base == [canon |-> <<>>, to |-> <<>>]
             At(m) == Ascending(g.nodes)[m]
             D == DOMAIN Ascending(g.nodes)
             Step(m, h) == Yield(g, h, At(m))
             w == [m \in 1 .. n |-> [h \in A |-> Step(m, h)]]
  <1>1. n \in Nat
    BY DEF IsGraph
  <1>2. D = 1 .. n /\ \A m \in 1 .. n : At(m) = m /\ At(m) \in Places(g.nodes)
    BY <1>1 DEF Ascending, Places
  <1>3. base \in A
    BY EmptyMap DEF YieldType
  <1> HIDE DEF At, D, A, base
  <1>4. ASSUME NEW m \in 1 .. n, NEW h \in A PROVE w[m][h] = Step(m, h) /\ w[m][h] \in A
    <2>1. At(m) \in Places(g.nodes)
      BY <1>2
    <2>2. Yield(g, h, At(m)) \in A
      BY <1>1, <2>1, YieldIs DEF A
    <2> QED BY <2>2
  <1> HIDE DEF n, w
  <1>5. Foldable(n, A, base, w)
    BY <1>1, <1>3, <1>4 DEF Foldable
  <1>6. PICK F : /\ FoldsOn(w, base, SUBSET (1 .. n), F)
                 /\ \A s \in SUBSET (1 .. n) : F[s] \in A
    BY <1>5, FoldedBy
  <1>7. ASSUME NEW s \in SUBSET (1 .. n), s # {}
        PROVE  Max(s) \in 1 .. n /\ Max(s) \in s
    BY <1>1, <1>7, PlacesFinite
  <1>8. Yieldings(g, F)
    <2>1. F = [s \in SUBSET (1 .. n) |-> Folding(w, base, F, s)]
      BY <1>6 DEF FoldsOn
    <2>2. \A s \in SUBSET (1 .. n) :
              Folding(w, base, F, s) = IF s = {} THEN base ELSE Step(Max(s), F[s \ {Max(s)}])
      BY <1>4, <1>6, <1>7 DEF Folding
    <2> QED BY <1>2, <2>1, <2>2 DEF Yieldings, At, D, base
  <1>9. PICK G : Yieldings(g, G) /\ Yields(g) = G[D].to
    <2>1. Yields(g) = (CHOOSE G : Yieldings(g, G))[D].to
      BY DEF Yields, FoldLeft, MapThenFoldSet, Yieldings, Yield, D
    <2> QED BY <1>8, <2>1
  <1>10. /\ G[{}] = base
         /\ \A s \in SUBSET (1 .. n) : s # {} => G[s] = Step(Max(s), G[s \ {Max(s)}])
    <2>1. G = [s \in SUBSET D |-> IF s = {} THEN base ELSE Step(Max(s), G[s \ {Max(s)}])]
      BY <1>9 DEF Yieldings, At, D, base
    <2>2. {} \in SUBSET D
      OBVIOUS
    <2> HIDE DEF Step
    <2> QED BY <1>2, <2>1, <2>2
  <1>11. Folded(n, A, base, w, G)
    <2>1. \A s \in SUBSET (1 .. n) :
             s # {} /\ G[s \ {Max(s)}] \in A => G[s] = w[Max(s)][G[s \ {Max(s)}]]
      BY <1>4, <1>7, <1>10
    <2> QED BY <1>10, <2>1 DEF Folded
  <1>12. PICK H : Unfolds(n, A, base, w, H) /\ H[n] = G[1 .. n]
    BY <1>5, <1>11, FoldWalk
  <1>13. H \in [0 .. n -> A] /\ H[0] = base /\ \A m \in 1 .. n : H[m] = w[m][H[m - 1]]
    BY <1>12 DEF Unfolds
  <1>14. ASSUME NEW m \in 1 .. n PROVE H[m] = Step(m, H[m - 1])
    <2>1. H[m - 1] \in A
      BY <1>1, <1>13
    <2> QED BY <1>4, <1>13, <2>1
  <1> QED BY <1>2, <1>9, <1>12, <1>13, <1>14 DEF n, A, base

LEMMA YieldsAre ==
    ASSUME NEW g, IsGraph(g)
    PROVE  \E canon : Yielded(g, [canon |-> canon, to |-> Yields(g)], Len(g.nodes))
  <1> DEFINE n == Len(g.nodes)
  <1>1. n \in Nat /\ Places(g.nodes) = 1 .. n
    BY DEF IsGraph, Places
  <1>2. PICK H : /\ H \in [0 .. n -> YieldType(g)]
                 /\ H[0] = [canon |-> <<>>, to |-> <<>>]
                 /\ \A m \in 1 .. n : H[m] = Yield(g, H[m - 1], m)
                 /\ Yields(g) = H[n].to
    BY YieldsWalk
  <1> DEFINE Q == {m \in 0 .. n : Yielded(g, H[m], m)}
  <1>3. 0 \in Q
    <2>1. DOMAIN <<>> = {} /\ 1 .. 0 = {} /\ 0 \in 0 .. n
      BY <1>1
    <2>2. H[0].canon = <<>> /\ H[0].to = <<>>
      BY <1>2
    <2>3. Yielded(g, H[0], 0)
      BY <2>1, <2>2 DEF Yielded
    <2> QED BY <2>1, <2>3
  <1>4. ASSUME NEW m \in 1 .. n, m - 1 \in Q PROVE m \in Q
    <2>1. m \in 0 .. n /\ H[m - 1] \in YieldType(g) /\ m \in Places(g.nodes)
      BY <1>1, <1>2, <1>4
    <2>2. Yielded(g, H[m - 1], m - 1)
      BY <1>4
    <2>3. Yielded(g, Yield(g, H[m - 1], m), m)
      BY <1>1, <2>1, <2>2, YieldedStep
    <2> QED BY <1>2, <2>1, <2>3
  <1>5. n \in Q
    <2> HIDE DEF Q, n
    <2>1. \A m \in 0 .. n : m \in Q
      BY <1>1, <1>3, <1>4, WalkInduction
    <2> QED BY <1>1, <2>1
  <1>6. H[n] = [canon |-> H[n].canon, to |-> Yields(g)]
    <2>1. H[n] \in YieldType(g)
      BY <1>1, <1>2
    <2> QED BY <1>2, <2>1 DEF YieldType
  <1> QED BY <1>5, <1>6

Giving(to, x) == IF x \in DOMAIN to THEN to[x] ELSE x

Followed(to, i, F) ==
    F = [n \in 0 .. Cardinality(DOMAIN to) |->
            IF n = 0 THEN i
            ELSE IF F[n - 1] \in DOMAIN to THEN to[F[n - 1]] ELSE F[n - 1]]

\* The chain of nodes which gave way to each other, each later than the one before,
\* ends before it is followed further than there are such nodes.
LEMMA FinalIs ==
    ASSUME NEW g, IsGraph(g), NEW a, Yielded(g, a, Len(g.nodes)), NEW i \in Places(g.nodes)
    PROVE  FinalOf(a.to, i) = a.canon[KeyOf(g, i)]
  <1> DEFINE n == Len(g.nodes)
             to == a.to
             N == Cardinality(DOMAIN to)
             A == 1 .. n
             K(p) == KeyOf(g, p)
             Upto(x) == {p \in DOMAIN to : When(to, p) <= When(to, x)}
             w == [m \in 1 .. N |-> [x \in A |-> Giving(to, x)]]
  <1>1. n \in Nat /\ i \in A
    BY DEF IsGraph, Places
  <1>2. /\ DOMAIN to \in SUBSET A
        /\ \A p \in DOMAIN to : /\ to[p] \in A /\ K(to[p]) = K(p)
                                /\ to[p] \in DOMAIN to => When(to, p) < When(to, to[p])
        /\ \A p \in A : p \in DOMAIN to <=> p # a.canon[K(p)]
    BY DEF Yielded
  <1>3. IsFiniteSet(DOMAIN to) /\ N \in Nat
    <2>1. IsFiniteSet(A)
      BY <1>1, FS_Interval
    <2> QED BY <1>2, <2>1, FS_Subset, FS_CardinalityType
  <1> HIDE DEF n, to, N, A, K
  <1>4. \A x \in A : Giving(to, x) \in A
    BY <1>2 DEF Giving
  <1>5. PICK H : Unfolds(N, A, i, w, H)
    <2>1. Foldable(N, A, i, w)
      BY <1>1, <1>3, <1>4 DEF Foldable
    <2> QED BY <2>1, WalkExists
  <1>6. H \in [0 .. N -> A] /\ H[0] = i /\ \A m \in 1 .. N : H[m] = Giving(to, H[m - 1])
    <2>1. H \in [0 .. N -> A] /\ H[0] = i /\ \A m \in 1 .. N : H[m] = w[m][H[m - 1]]
      BY <1>5 DEF Unfolds
    <2>2. \A m \in 1 .. N : H[m - 1] \in A
      BY <1>3, <2>1
    <2> QED BY <2>1, <2>2
  <1>7. PICK F : Followed(to, i, F) /\ FinalOf(to, i) = F[N]
    <2>1. H = [m \in 0 .. N |-> H[m]]
      BY <1>6
    <2>2. \A m \in 0 .. N : H[m] = IF m = 0 THEN i ELSE Giving(to, H[m - 1])
      BY <1>3, <1>6
    <2>3. H = [m \in 0 .. N |-> IF m = 0 THEN i ELSE Giving(to, H[m - 1])]
      BY <2>1, <2>2
    <2>4. Followed(to, i, H)
      BY <2>3 DEF Followed, Giving, N
    <2>5. FinalOf(to, i) = (CHOOSE F : Followed(to, i, F))[N]
      BY DEF FinalOf, Followed, N
    <2> QED BY <2>4, <2>5
  <1>8. F[0] = i /\ \A m \in 1 .. N : F[m] = Giving(to, F[m - 1])
    <2>1. F = [m \in 0 .. N |-> IF m = 0 THEN i ELSE Giving(to, F[m - 1])]
      BY <1>7 DEF Followed, Giving, N
    <2> QED BY <1>3, <2>1
  <1>9. \A p \in DOMAIN to : When(to, p) \in Nat
    BY <1>1, <1>2 DEF When, A
  <1>10. ASSUME NEW x \in DOMAIN to
         PROVE  /\ IsFiniteSet(Upto(x)) /\ Cardinality(Upto(x)) \in Nat
                /\ Cardinality(Upto(x)) <= N /\ x \in Upto(x)
    <2>1. Upto(x) \subseteq DOMAIN to /\ x \in Upto(x)
      BY <1>9
    <2> QED BY <1>3, <2>1, FS_Subset, FS_CardinalityType DEF N
  <1> DEFINE Q == {m \in 0 .. N : /\ F[m] \in A /\ K(F[m]) = K(i)
                                  /\ F[m] \in DOMAIN to => m + 1 <= Cardinality(Upto(F[m]))}
  <1>11. 0 \in Q
    <2>1. ASSUME i \in DOMAIN to PROVE 1 <= Cardinality(Upto(i))
      <3>1. Cardinality(Upto(i)) # 0
        BY <1>10, <2>1, FS_EmptySet
      <3>2. Cardinality(Upto(i)) \in Nat
        BY <1>10, <2>1
      <3> HIDE DEF Upto
      <3> QED BY <3>1, <3>2
    <2> HIDE DEF Upto
    <2> QED BY <1>1, <1>3, <1>8, <2>1
  <1>12. ASSUME NEW m \in 1 .. N, m - 1 \in Q PROVE m \in Q
    <2> DEFINE x == F[m - 1]
               y == F[m]
    <2>1. /\ x \in A /\ K(x) = K(i) /\ y = Giving(to, x) /\ m \in 0 .. N
          /\ x \in DOMAIN to => m <= Cardinality(Upto(x))
      <3>1. m - 1 + 1 = m
        BY <1>3
      <3> QED BY <1>3, <1>8, <1>12, <3>1
    <2> HIDE DEF x, y
    <2>2. y \in A /\ K(y) = K(i)
      BY <1>2, <2>1 DEF Giving
    <2>3. ASSUME y \in DOMAIN to PROVE m + 1 <= Cardinality(Upto(y))
      <3>1. x \in DOMAIN to /\ y = to[x] /\ When(to, x) < When(to, y)
        BY <1>2, <2>1, <2>3 DEF Giving
      <3>2. Upto(x) \subseteq Upto(y) /\ y \notin Upto(x) /\ y \in Upto(y)
        BY <1>9, <2>3, <3>1
      <3>3. /\ IsFiniteSet(Upto(y)) /\ Cardinality(Upto(x)) \in Nat /\ Cardinality(Upto(y)) \in Nat
        BY <1>10, <2>3, <3>1
      <3> DEFINE X == Upto(x)
                 Y == Upto(y)
      <3>4. X \subseteq Y /\ X # Y /\ IsFiniteSet(Y)
        BY <3>2, <3>3
      <3> HIDE DEF X, Y
      <3>5. Cardinality(X) <= Cardinality(Y) /\ Cardinality(X) # Cardinality(Y)
        BY <3>4, FS_Subset
      <3> HIDE DEF Upto
      <3> QED BY <2>1, <3>1, <3>3, <3>5 DEF X, Y
    <2> HIDE DEF Upto
    <2> QED BY <2>1, <2>2, <2>3 DEF y
  <1>13. N \in Q
    <2> HIDE DEF Q
    <2>1. \A m \in 0 .. N : m \in Q
      BY <1>3, <1>11, <1>12, WalkInduction
    <2> QED BY <1>3, <2>1
  <1>14. F[N] \in A /\ K(F[N]) = K(i) /\ F[N] \notin DOMAIN to
    <2>1. F[N] \in A /\ K(F[N]) = K(i)
          /\ (F[N] \in DOMAIN to => N + 1 <= Cardinality(Upto(F[N])))
      BY <1>13
    <2>2. F[N] \in DOMAIN to => Cardinality(Upto(F[N])) \in Nat /\ Cardinality(Upto(F[N])) <= N
      BY <1>10
    <2> HIDE DEF Upto
    <2> QED BY <1>3, <2>1, <2>2
  <1>15. F[N] = a.canon[K(i)]
    BY <1>2, <1>14
  <1> QED BY <1>7, <1>15 DEF to, K

-----------------------------------------------------------------------------
(* The graph which deduplication leaves. *)

\* Edges which say the same, but for their ends.
Alike(e, f) == e.tag = f.tag /\ e.modes = f.modes /\ e.flow = f.flow /\ e.column = f.column

LEMMA RejoinedEdge ==
    ASSUME NEW N, NEW M, NEW e, NEW x, NEW y, e \in Edges(N), x \in M, y \in M
    PROVE  Rejoined(e, x, y) \in Edges(M)
  BY DEF Edges, Rejoined

LEMMA RejoinedAlike ==
    ASSUME NEW N, NEW e, NEW x, NEW y, e \in Edges(N)
    PROVE  Alike(Rejoined(e, x, y), e)
  BY DEF Edges, Rejoined, Alike

LEMMA RejoinedEdgeFrom ==
    ASSUME NEW N, NEW e, NEW x, NEW y, e \in Edges(N) PROVE Rejoined(e, x, y).from = x
  BY DEF Edges, Rejoined

LEMMA RejoinedEdgeTo ==
    ASSUME NEW N, NEW e, NEW x, NEW y, e \in Edges(N) PROVE Rejoined(e, x, y).to = y
  BY DEF Edges, Rejoined

LEMMA EdgesJoinable == Joinable(Edges(Nat))
  <1> SUFFICES ASSUME NEW e \in Edges(Nat)
               PROVE  /\ e.from \in Nat /\ e.to \in Nat
                      /\ Rejoined(e, e.from, e.to) = e
                      /\ \A x, y \in Nat :
                            /\ Rejoined(e, x, y) \in Edges(Nat)
                            /\ Rejoined(e, x, y).from = x /\ Rejoined(e, x, y).to = y
                            /\ \A u, v \in Nat :
                                  Rejoined(Rejoined(e, x, y), u, v) = Rejoined(e, u, v)
    BY DEF Joinable
  <1>1. /\ e.from \in Nat /\ e.to \in Nat
        /\ e = [from |-> e.from, to |-> e.to, tag |-> e.tag, modes |-> e.modes,
                flow |-> e.flow, column |-> e.column]
    BY DEF Edges
  <1>2. ASSUME NEW x, NEW y
        PROVE  Rejoined(e, x, y) = [from |-> x, to |-> y, tag |-> e.tag, modes |-> e.modes,
                                    flow |-> e.flow, column |-> e.column]
    <2> DEFINE r == Rejoined(e, x, y)
    <2>1. r = [e EXCEPT !.from = x, !.to = y]
      BY DEF Rejoined
    <2> HIDE DEF r
    <2>2. r = [from |-> x, to |-> y, tag |-> e.tag, modes |-> e.modes,
               flow |-> e.flow, column |-> e.column]
      BY <1>1, <2>1
    <2> QED BY <2>2 DEF r
  <1>3. \A x, y \in Nat : Rejoined(e, x, y) \in Edges(Nat)
    BY RejoinedEdge
  <1>4. ASSUME NEW x \in Nat, NEW y \in Nat, NEW u \in Nat, NEW v \in Nat
        PROVE  Rejoined(Rejoined(e, x, y), u, v) = Rejoined(e, u, v)
    <2> DEFINE r == Rejoined(e, x, y)
               t == Rejoined(r, u, v)
    <2>1. t = [r EXCEPT !.from = u, !.to = v]
      BY DEF Rejoined
    <2>2. r = [from |-> x, to |-> y, tag |-> e.tag, modes |-> e.modes,
               flow |-> e.flow, column |-> e.column]
      BY <1>2
    <2> HIDE DEF r, t
    <2>3. t = [from |-> u, to |-> v, tag |-> e.tag, modes |-> e.modes,
               flow |-> e.flow, column |-> e.column]
      BY <2>1, <2>2
    <2> QED BY <1>2, <2>3 DEF t, r
  <1> QED BY <1>1, <1>2, <1>3, <1>4

LEMMA MoreEdges ==
    ASSUME NEW N, NEW M, N \subseteq M PROVE Edges(N) \subseteq Edges(M)
  BY DEF Edges

\* What a node is represented by when it has given way.
Rep(s, canon, p) == canon[KeyOf(s, p)]

Represents(s, canon) ==
    \A p \in Places(s.nodes) : /\ Rep(s, canon, p) \in Places(s.nodes)
                               /\ KeyOf(s, Rep(s, canon, p)) = KeyOf(s, p)
                               /\ Rep(s, canon, Rep(s, canon, p)) = Rep(s, canon, p)

Moves(s, canon, e) == Rejoined(e, Rep(s, canon, e.from), Rep(s, canon, e.to))

\* An edge which is added for the node its end gave way to.
Turns(s, canon, to, e) ==
    /\ e.from \in DOMAIN to \/ e.to \in DOMAIN to
    /\ Rep(s, canon, e.from) # Rep(s, canon, e.to)

LEMMA RewiredIs ==
    ASSUME NEW s, IsGraph(s), NEW canon, NEW to,
           Yielded(s, [canon |-> canon, to |-> to], Len(s.nodes))
    PROVE  /\ Represents(s, canon)
           /\ Rewired(s, to) \in Seq(Edges(Places(s.nodes)))
           /\ \A k \in Places(Rewired(s, to)) : \E l \in Places(s.edges) :
                 Turns(s, canon, to, s.edges[l]) /\ Rewired(s, to)[k] = Moves(s, canon, s.edges[l])
           /\ \A l \in Places(s.edges) : Turns(s, canon, to, s.edges[l]) =>
                 \E k \in Places(Rewired(s, to)) : Rewired(s, to)[k] = Moves(s, canon, s.edges[l])
  <1> DEFINE N == Places(s.nodes)
             D == Places(s.edges)
             a == [canon |-> canon, to |-> to]
             moved == [k \in D |-> [s.edges[k] EXCEPT !.from = FinalOf(to, @), !.to = FinalOf(to, @)]]
             T == {k \in D : {s.edges[k].from, s.edges[k].to} \cap DOMAIN to # {}
                             /\ moved[k].from # moved[k].to}
             r == Rewired(s, to)
  <1>1. /\ N = 1 .. Len(s.nodes) /\ D = 1 .. Len(s.edges) /\ Len(s.edges) \in Nat
        /\ \A l \in D : s.edges[l] \in Edges(N)
    BY DEF IsGraph, Places
  <1>2. \A l \in D : s.edges[l].from \in N /\ s.edges[l].to \in N
    BY <1>1 DEF Edges
  <1>3. Represents(s, canon)
    BY <1>1 DEF Yielded, Represents, Rep
  <1>4. \A p \in N : FinalOf(to, p) = Rep(s, canon, p)
    <2>1. a.canon = canon /\ a.to = to
      OBVIOUS
    <2> QED BY <2>1, FinalIs DEF Rep
  <1>5. r = Kept(moved, T)
    BY DEF Rewired
  <1>6. ASSUME NEW l \in D PROVE moved[l] = Moves(s, canon, s.edges[l])
    <2>1. moved[l] = Rejoined(s.edges[l], FinalOf(to, s.edges[l].from), FinalOf(to, s.edges[l].to))
      BY DEF Rejoined
    <2> QED BY <1>2, <1>4, <2>1 DEF Moves
  <1>7. \A k \in D : k \in T <=> {s.edges[k].from, s.edges[k].to} \cap DOMAIN to # {}
                                 /\ moved[k].from # moved[k].to
    OBVIOUS
  <1>8. T \in SUBSET D /\ DOMAIN moved = D /\ moved = [k \in D |-> moved[k]]
    OBVIOUS
  <1> HIDE DEF N, D, moved, T, r
  <1>9. ASSUME NEW l \in D
        PROVE  /\ moved[l] \in Edges(N)
               /\ moved[l].from = Rep(s, canon, s.edges[l].from)
               /\ moved[l].to = Rep(s, canon, s.edges[l].to)
    <2>1. Rep(s, canon, s.edges[l].from) \in N /\ Rep(s, canon, s.edges[l].to) \in N
      BY <1>2, <1>3 DEF Represents, N
    <2>2. s.edges[l] \in Edges(N)
      BY <1>1
    <2> QED BY <1>6, <2>1, <2>2, RejoinedEdge, RejoinedEdgeFrom, RejoinedEdgeTo DEF Moves
  <1>10. moved \in Seq(Edges(N)) /\ Len(moved) = Len(s.edges)
    <2>1. DOMAIN moved = 1 .. Len(s.edges) /\ moved = [l \in 1 .. Len(s.edges) |-> moved[l]]
      BY <1>1, <1>8
    <2>2. \A l \in 1 .. Len(s.edges) : moved[l] \in Edges(N)
      BY <1>1, <1>9
    <2> QED BY <1>1, <2>1, <2>2, IsSequence
  <1>11. \A l \in D : l \in T <=> Turns(s, canon, to, s.edges[l])
    BY <1>7, <1>9 DEF Turns
  <1>12. /\ r \in Seq(Edges(N))
         /\ \A i \in T : \E k \in Places(r) : r[k] = moved[i]
         /\ \A k \in Places(r) : \E i \in T : r[k] = moved[i]
    <2>1. T \in SUBSET Places(moved)
      BY <1>1, <1>8, <1>10 DEF Places
    <2> QED BY <1>5, <1>10, <2>1, KeptIs
  <1> QED BY <1>3, <1>6, <1>8, <1>11, <1>12 DEF N, D, r

\* The elements of c are those of a and b.
Concatenated(c, a, b) ==
    /\ \A k \in Places(c) : \/ \E l \in Places(a) : c[k] = a[l]
                            \/ \E l \in Places(b) : c[k] = b[l]
    /\ \A l \in Places(a) : \E k \in Places(c) : c[k] = a[l]
    /\ \A l \in Places(b) : \E k \in Places(c) : c[k] = b[l]

LEMMA ConcatIs ==
    ASSUME NEW S, NEW a, NEW b, a \in Seq(S), b \in Seq(S)
    PROVE  a \o b \in Seq(S) /\ Concatenated(a \o b, a, b)
  <1>1. Len(a) \in Nat /\ Len(b) \in Nat /\ Len(a \o b) = Len(a) + Len(b) /\ a \o b \in Seq(S)
    OBVIOUS
  <1>2. \A k \in 1 .. Len(a) + Len(b) :
            (a \o b)[k] = IF k <= Len(a) THEN a[k] ELSE b[k - Len(a)]
    OBVIOUS
  <1>3. \A k \in 1 .. Len(a) + Len(b) : k \in 1 .. Len(a) \/ k - Len(a) \in 1 .. Len(b)
    BY <1>1
  <1>4. \A k \in 1 .. Len(a) + Len(b) : k - Len(a) \in 1 .. Len(b) => ~(k <= Len(a))
    BY <1>1
  <1>5. \A l \in 1 .. Len(a) : l \in 1 .. Len(a) + Len(b) /\ l <= Len(a)
    BY <1>1
  <1>6. \A l \in 1 .. Len(b) : /\ l + Len(a) \in 1 .. Len(a) + Len(b)
                               /\ ~(l + Len(a) <= Len(a)) /\ l + Len(a) - Len(a) = l
    BY <1>1
  <1> DEFINE c == a \o b
  <1>7. /\ c \in Seq(S) /\ Len(c) = Len(a) + Len(b)
        /\ \A k \in 1 .. Len(a) + Len(b) : c[k] = IF k <= Len(a) THEN a[k] ELSE b[k - Len(a)]
    BY <1>1, <1>2
  <1> HIDE DEF c
  <1>8. \A k \in Places(c) : (\E l \in Places(a) : c[k] = a[l]) \/ (\E l \in Places(b) : c[k] = b[l])
    BY <1>3, <1>4, <1>5, <1>7 DEF Places
  <1>9. \A l \in Places(a) : \E k \in Places(c) : c[k] = a[l]
    BY <1>5, <1>7 DEF Places
  <1>10. ASSUME NEW l \in Places(b) PROVE \E k \in Places(c) : c[k] = b[l]
    <2>1. l + Len(a) \in Places(c) /\ c[l + Len(a)] = b[l]
      BY <1>6, <1>7 DEF Places
    <2> QED BY <2>1
  <1> QED BY <1>7, <1>8, <1>9, <1>10 DEF c, Concatenated

LEMMA EdgesAre ==
    ASSUME NEW N, NEW t, t \in Seq(Edges(N))
    PROVE  \A k \in Places(t) : t[k] \in Edges(N) /\ t[k].from \in N /\ t[k].to \in N
  <1>1. ASSUME NEW k \in Places(t) PROVE t[k] \in Edges(N)
    BY DEF Places
  <1>2. \A e \in Edges(N) : e.from \in N /\ e.to \in N
    BY DEF Edges
  <1> QED BY <1>1, <1>2

Match(s, e, h, f) == Relation(s, e) = Relation(h, f) /\ Alike(e, f)

\* h has one node for each key of s and the edges between different keys.
Contracted(s, h, pi) ==
    /\ h.nodes \in Seq(Range(s.nodes)) /\ h.edges \in Seq(Edges(Places(h.nodes)))
    /\ \A k \in Places(h.nodes) : pi[k] \in Places(s.nodes) /\ h.nodes[k] = s.nodes[pi[k]]
    /\ \A j, k \in Places(h.nodes) : KeyOf(h, j) = KeyOf(h, k) => j = k
    /\ \A p \in Places(s.nodes) : \E k \in Places(h.nodes) :
          KeyOf(h, k) = KeyOf(s, p) /\ (p \in RichOf(s) => k \in RichOf(h))
    /\ \A k \in Places(h.edges) : \E l \in Places(s.edges) : Match(s, s.edges[l], h, h.edges[k])
    /\ \A l \in Places(s.edges) :
          KeyOf(s, s.edges[l].from) # KeyOf(s, s.edges[l].to) =>
              \E k \in Places(h.edges) : Match(s, s.edges[l], h, h.edges[k])

Widened(s) == [nodes |-> s.nodes, edges |-> s.edges \o Rewired(s, Yields(s))]

Narrowed(s) == RemoveNodes(Widened(s), DOMAIN Yields(s))

LEMMA NarrowedIs ==
    ASSUME NEW s, IsGraph(s)
    PROVE  \E pi : Contracted(s, Narrowed(s), pi)
  <1> DEFINE S == Range(s.nodes)
             N == Places(s.nodes)
             to == Yields(s)
             gone == DOMAIN to
             w == Widened(s)
             h == Narrowed(s)
             R == Rewired(s, to)
             K(p) == KeyOf(s, p)
             I(p) == KeyOf(h, p)
  <1>1. PICK canon : Yielded(s, [canon |-> canon, to |-> to], Len(s.nodes))
    BY YieldsAre
  <1> DEFINE M(p) == Rep(s, canon, p)
  <1>2. /\ s.nodes \in Seq(S) /\ s.edges \in Seq(Edges(N)) /\ Len(s.nodes) \in Nat
        /\ N = 1 .. Len(s.nodes) /\ \A i \in N : i \in Nat
    BY DEF IsGraph, Places
  <1>3. \A l \in Places(s.edges) : s.edges[l] \in Edges(N) /\ s.edges[l].from \in N /\ s.edges[l].to \in N
    BY <1>2, EdgesAre
  <1>4. \A p \in N : p \in gone <=> p # M(p)
    BY <1>1, <1>2 DEF Yielded, Rep
  <1>5. \A p \in N : p \in RichOf(s) => M(p) \in RichOf(s)
    BY <1>1, <1>2 DEF Yielded, Rep
  <1>6. gone \in SUBSET N
    BY <1>1, <1>2 DEF Yielded
  <1>7. /\ Represents(s, canon)
        /\ R \in Seq(Edges(N))
        /\ \A k \in Places(R) : \E l \in Places(s.edges) :
              Turns(s, canon, to, s.edges[l]) /\ R[k] = Moves(s, canon, s.edges[l])
        /\ \A l \in Places(s.edges) : Turns(s, canon, to, s.edges[l]) =>
              \E k \in Places(R) : R[k] = Moves(s, canon, s.edges[l])
    BY <1>1, RewiredIs
  <1>8. w.nodes = s.nodes /\ w.edges = s.edges \o R /\ w = [nodes |-> w.nodes, edges |-> w.edges]
    BY DEF Widened
  <1>9. h = RemoveNodes(w, gone)
    BY DEF Narrowed
  <1> HIDE DEF S, N, to, w, h, R, K, M, I
  <1>10. \A p \in N : M(p) \in N /\ K(M(p)) = K(p) /\ M(M(p)) = M(p)
    BY <1>7 DEF Represents, N, K, M
  <1>11. /\ w.edges \in Seq(Edges(N))
         /\ \A k \in Places(w.edges) : \/ \E l \in Places(s.edges) : w.edges[k] = s.edges[l]
                                       \/ \E l \in Places(R) : w.edges[k] = R[l]
         /\ \A l \in Places(s.edges) : \E k \in Places(w.edges) : w.edges[k] = s.edges[l]
         /\ \A l \in Places(R) : \E k \in Places(w.edges) : w.edges[k] = R[l]
    <2>1. w.edges \in Seq(Edges(N)) /\ Concatenated(w.edges, s.edges, R)
      BY <1>2, <1>7, <1>8, ConcatIs
    <2> QED BY <2>1 DEF Concatenated
  <1>12. \A k \in Places(w.edges) :
            w.edges[k] \in Edges(N) /\ w.edges[k].from \in N /\ w.edges[k].to \in N
    BY <1>11, EdgesAre
  <1>13. w \in GraphOver(S, Edges(Nat)) /\ Joined(w) /\ gone \in SUBSET Places(w.nodes)
    <2>1. Edges(N) \subseteq Edges(Nat)
      BY <1>2, MoreEdges
    <2>2. w.edges \in Seq(Edges(Nat))
      <3>1. \A k \in 1 .. Len(w.edges) : w.edges[k] \in Edges(Nat)
        BY <1>11, <2>1
      <3>2. /\ Len(w.edges) \in Nat /\ DOMAIN w.edges = 1 .. Len(w.edges)
            /\ w.edges = [k \in 1 .. Len(w.edges) |-> w.edges[k]]
        BY <1>11
      <3> QED BY <3>1, <3>2, IsSequence
    <2>3. w \in GraphOver(S, Edges(Nat))
      BY <1>2, <1>8, <2>2 DEF GraphOver
    <2> QED BY <1>6, <1>8, <1>12, <2>3 DEF Joined, N
  <1>14. h \in GraphOver(S, Edges(Nat))
    BY <1>9, <1>13, EdgesJoinable, RemoveNodesIs
  <1>15. PICK pi : Carried(w, h, gone, 1, pi)
    BY <1>9, <1>13, EdgesJoinable, RemoveNodesIs
  <1>16. /\ h.nodes \in Seq(S) /\ h.edges \in Seq(Edges(Nat)) /\ Len(h.edges) \in Nat
         /\ DOMAIN h.edges = 1 .. Len(h.edges)
         /\ h.edges = [k \in 1 .. Len(h.edges) |-> h.edges[k]]
         /\ \A k \in Places(h.edges) : h.edges[k] \in Edges(Nat)
    BY <1>14 DEF GraphOver, Places
  <1>17. /\ \A k \in Places(h.nodes) : pi[k] \in N /\ pi[k] \notin gone /\ h.nodes[k] = s.nodes[pi[k]]
         /\ \A j, k \in Places(h.nodes) : pi[j] = pi[k] => j = k
         /\ \A p \in N : p \notin gone => \E k \in Places(h.nodes) : pi[k] = p
    BY <1>8, <1>15 DEF Carried, Shrunk, N
  <1>18. \A k \in Places(h.nodes) : I(k) = K(pi[k]) /\ (pi[k] \in RichOf(s) => k \in RichOf(h))
    BY <1>17 DEF I, K, KeyOf, RichOf
  <1>19. /\ \A k \in Places(h.edges) : h.edges[k].from \in Places(h.nodes) /\ h.edges[k].to \in Places(h.nodes)
         /\ \A k \in Places(h.edges) : \E l \in Places(w.edges) : Original(pi, h.edges[k]) = w.edges[l]
         /\ \A l \in Places(w.edges) :
               w.edges[l].from \notin gone /\ w.edges[l].to \notin gone =>
                   \E k \in Places(h.edges) : Original(pi, h.edges[k]) = w.edges[l]
    BY <1>15 DEF Carried, Joined
  <1>20. h.edges \in Seq(Edges(Places(h.nodes)))
    <2>1. \A k \in 1 .. Len(h.edges) : h.edges[k] \in Edges(Places(h.nodes))
      BY <1>16, <1>19 DEF Edges, Places
    <2> QED BY <1>16, <2>1, IsSequence
  <1>21. ASSUME NEW k \in Places(h.edges), NEW x, Original(pi, h.edges[k]) = x
         PROVE  Match(s, x, h, h.edges[k])
    <2> DEFINE f == h.edges[k]
    <2>1. f \in Edges(Nat) /\ x = Rejoined(f, pi[f.from], pi[f.to])
      BY <1>16, <1>21 DEF Original
    <2>2. f.from \in Places(h.nodes) /\ f.to \in Places(h.nodes)
      BY <1>19
    <2> HIDE DEF f
    <2>3. Alike(x, f) /\ x.from = pi[f.from] /\ x.to = pi[f.to]
      BY <2>1, RejoinedAlike, RejoinedEdgeFrom, RejoinedEdgeTo
    <2>4. KeyOf(h, f.from) = KeyOf(s, x.from) /\ KeyOf(h, f.to) = KeyOf(s, x.to)
      BY <1>18, <2>2, <2>3 DEF I, K
    <2> QED BY <2>3, <2>4 DEF Match, Relation, Alike, f
  <1>22. ASSUME NEW l \in Places(s.edges)
         PROVE  /\ Match(s, s.edges[l], s, Moves(s, canon, s.edges[l]))
                /\ Moves(s, canon, s.edges[l]).from = M(s.edges[l].from)
                /\ Moves(s, canon, s.edges[l]).to = M(s.edges[l].to)
    <2> DEFINE e == s.edges[l]
               x == Moves(s, canon, e)
    <2>1. e \in Edges(N) /\ x = Rejoined(e, M(e.from), M(e.to)) /\ e.from \in N /\ e.to \in N
      BY <1>3 DEF Moves, M
    <2> HIDE DEF e, x
    <2>2. Alike(x, e) /\ x.from = M(e.from) /\ x.to = M(e.to)
      BY <2>1, RejoinedAlike, RejoinedEdgeFrom, RejoinedEdgeTo
    <2>3. KeyOf(s, x.from) = KeyOf(s, e.from) /\ KeyOf(s, x.to) = KeyOf(s, e.to)
      BY <1>10, <2>1, <2>2 DEF K
    <2> QED BY <2>2, <2>3 DEF Match, Relation, Alike, e, x
  <1>23. ASSUME NEW k \in Places(h.edges)
         PROVE  \E l \in Places(s.edges) : Match(s, s.edges[l], h, h.edges[k])
    <2>1. PICK j \in Places(w.edges) : Original(pi, h.edges[k]) = w.edges[j]
      BY <1>19
    <2>2. Match(s, w.edges[j], h, h.edges[k])
      BY <1>21, <2>1
    <2>3. CASE \E l \in Places(s.edges) : w.edges[j] = s.edges[l]
      BY <2>2, <2>3
    <2>4. CASE \E i \in Places(R) : w.edges[j] = R[i]
      <3>1. PICK l \in Places(s.edges) : w.edges[j] = Moves(s, canon, s.edges[l])
        BY <1>7, <2>4
      <3>2. Match(s, s.edges[l], s, w.edges[j])
        BY <1>22, <3>1
      <3>3. Match(s, s.edges[l], h, h.edges[k])
        BY <2>2, <3>2 DEF Match, Alike
      <3> QED BY <3>3
    <2> QED BY <1>11, <2>3, <2>4
  <1>24. ASSUME NEW l \in Places(s.edges), K(s.edges[l].from) # K(s.edges[l].to)
         PROVE  \E k \in Places(h.edges) : Match(s, s.edges[l], h, h.edges[k])
    <2> DEFINE e == s.edges[l]
    <2>1. e.from \in N /\ e.to \in N
      BY <1>3
    <2>2. CASE e.from \notin gone /\ e.to \notin gone
      <3>1. PICK j \in Places(w.edges) : w.edges[j] = e
        BY <1>11
      <3>2. PICK k \in Places(h.edges) : Original(pi, h.edges[k]) = e
        BY <1>19, <2>2, <3>1
      <3> QED BY <1>21, <3>2
    <2>3. CASE e.from \in gone \/ e.to \in gone
      <3>1. M(e.from) # M(e.to)
        BY <1>10, <1>24, <2>1
      <3>2. Turns(s, canon, to, e)
        BY <2>3, <3>1 DEF Turns, M
      <3>3. PICK i \in Places(R) : R[i] = Moves(s, canon, e)
        BY <1>7, <3>2
      <3>4. PICK j \in Places(w.edges) : w.edges[j] = Moves(s, canon, e)
        BY <1>11, <3>3
      <3>5. w.edges[j].from = M(e.from) /\ w.edges[j].to = M(e.to)
        BY <1>22, <3>4
      <3>6. M(e.from) \notin gone /\ M(e.to) \notin gone
        BY <1>4, <1>10, <2>1
      <3>7. PICK k \in Places(h.edges) : Original(pi, h.edges[k]) = Moves(s, canon, e)
        BY <1>19, <3>4, <3>5, <3>6
      <3>8. Match(s, Moves(s, canon, e), h, h.edges[k]) /\ Match(s, e, s, Moves(s, canon, e))
        BY <1>21, <1>22, <3>7
      <3> QED BY <3>8 DEF Match, Alike
    <2> QED BY <2>2, <2>3
  <1>25. ASSUME NEW p \in N
         PROVE  \E k \in Places(h.nodes) : I(k) = K(p) /\ (p \in RichOf(s) => k \in RichOf(h))
    <2>1. M(p) \in N /\ M(p) \notin gone
      BY <1>4, <1>10
    <2>2. PICK k \in Places(h.nodes) : pi[k] = M(p)
      BY <1>17, <2>1
    <2> QED BY <1>5, <1>10, <1>18, <2>2
  <1>26. ASSUME NEW j \in Places(h.nodes), NEW k \in Places(h.nodes), I(j) = I(k) PROVE j = k
    <2>1. K(pi[j]) = K(pi[k]) /\ pi[j] \in N /\ pi[k] \in N /\ pi[j] \notin gone /\ pi[k] \notin gone
      BY <1>17, <1>18, <1>26
    <2>2. M(pi[j]) = pi[j] /\ M(pi[k]) = pi[k]
      BY <1>4, <2>1
    <2>3. M(pi[j]) = M(pi[k])
      BY <2>1 DEF M, Rep, K
    <2> QED BY <1>17, <2>2, <2>3
  <1>27. Contracted(s, h, pi)
    BY <1>16, <1>17, <1>20, <1>23, <1>24, <1>25, <1>26 DEF Contracted, S, N, K, I
  <1> QED BY <1>27 DEF h

LEMMA DistinctCount ==
    ASSUME NEW n \in Nat, NEW f, NEW T, DOMAIN f = 1 .. n, f = [i \in 1 .. n |-> f[i]],
           \A i, j \in 1 .. n : f[i] = f[j] => i = j,
           \A i \in 1 .. n : f[i] \in T, \A x \in T : \E i \in 1 .. n : f[i] = x
    PROVE  Cardinality(T) = n
  <1>1. f \in [1 .. n -> T]
    OBVIOUS
  <1>2. f \in Injection(1 .. n, T)
    BY <1>1 DEF Injection, IsInjective
  <1>3. f \in Surjection(1 .. n, T)
    BY <1>1 DEF Surjection
  <1>4. f \in Bijection(1 .. n, T)
    BY <1>2, <1>3 DEF Bijection
  <1>5. ExistsBijection(1 .. n, T)
    BY <1>4 DEF ExistsBijection
  <1> QED BY <1>5, FS_CountingElements

\* What a graph says without duplicates says what the graph said.
Deduplicated(s, d, pi) ==
    /\ IsGraph(d)
    /\ \A k \in Places(d.nodes) : pi[k] \in Places(s.nodes) /\ d.nodes[k] = s.nodes[pi[k]]
    /\ \A j, k \in Places(d.nodes) : KeyOf(d, j) = KeyOf(d, k) => j = k
    /\ \A p \in Places(s.nodes) : \E k \in Places(d.nodes) :
          KeyOf(d, k) = KeyOf(s, p) /\ (p \in RichOf(s) => k \in RichOf(d))
    /\ \A j, k \in Places(d.edges) : Sort(d.edges[j]) = Sort(d.edges[k]) => j = k
    /\ \A k \in Places(d.edges) : \E l \in Places(s.edges) :
          Relation(s, s.edges[l]) = Relation(d, d.edges[k])
    /\ \A k \in Places(d.edges) : \A mode \in d.edges[k].modes :
          \E l \in Places(s.edges) :
              /\ mode \in s.edges[l].modes
              /\ KeyOf(s, s.edges[l].from) = KeyOf(d, d.edges[k].from)
              /\ KeyOf(s, s.edges[l].to) = KeyOf(d, d.edges[k].to)
    /\ \A l \in Places(s.edges) :
          KeyOf(s, s.edges[l].from) # KeyOf(s, s.edges[l].to) =>
              \E k \in Places(d.edges) :
                  /\ Relation(s, s.edges[l]) = Relation(d, d.edges[k])
                  /\ s.edges[l].modes \subseteq d.edges[k].modes

LEMMA DeduplicatedIs ==
    ASSUME NEW s, IsGraph(s), NEW d, d.nodes = Narrowed(s).nodes,
           d.edges = DedupEdges(Narrowed(s).edges)
    PROVE  \E pi : Deduplicated(s, d, pi)
  <1> DEFINE h == Narrowed(s)
             N == Places(h.nodes)
             e == h.edges
             u == d.edges
             sort == [k \in Places(e) |-> Sort(e[k])]
             All(k) == AllModes(e, sort, k)
  <1>1. PICK pi : Contracted(s, h, pi)
    BY NarrowedIs
  <1>2. h.nodes \in Seq(Range(s.nodes)) /\ e \in Seq(Edges(N))
    BY <1>1 DEF Contracted
  <1>3. /\ \A k \in Places(e) : \E l \in Places(s.edges) : Match(s, s.edges[l], h, e[k])
        /\ \A l \in Places(s.edges) :
              KeyOf(s, s.edges[l].from) # KeyOf(s, s.edges[l].to) =>
                  \E k \in Places(e) : Match(s, s.edges[l], h, e[k])
    BY <1>1 DEF Contracted
  <1>4. u = Unite(e, sort)
    BY DEF DedupEdges
  <1>5. \A k \in Places(e) : sort[k] = Sort(e[k])
    OBVIOUS
  <1>6. \A i : KeyOf(d, i) = KeyOf(h, i)
    BY DEF KeyOf
  <1>7. \A f : Relation(d, f) = Relation(h, f)
    BY <1>6 DEF Relation
  <1>8. Places(d.nodes) = N
    OBVIOUS
  <1>9. \A l \in Places(s.edges) : Plain(s.edges[l].tag, s.edges[l])
    <2>1. s.edges \in Seq(Edges(Places(s.nodes)))
      BY DEF IsGraph
    <2>2. \A l \in Places(s.edges) : s.edges[l] \in Range(s.edges)
      BY <2>1, RangeIs
    <2> QED BY <2>2 DEF IsGraph
  <1> HIDE DEF h, N, e, u, sort, All
  <1>10. PICK src : UnitedBy(e, sort, u, src)
    BY <1>2, <1>4, UniteIs
  <1>11. u \in Seq(Edges(N))
    BY <1>2, <1>4, UniteIs
  <1>12. /\ \A k \in Places(u) : src[k] \in Places(e) /\ u[k] = United(e, sort, src[k])
         /\ \A j, k \in Places(u) : sort[src[j]] = sort[src[k]] => j = k
         /\ \A l \in Places(e) : \E k \in Places(u) : sort[src[k]] = sort[l]
    BY <1>10 DEF UnitedBy
  <1>13. ASSUME NEW k \in Places(e)
         PROVE  /\ United(e, sort, k).from = e[k].from /\ United(e, sort, k).to = e[k].to
                /\ United(e, sort, k).tag = e[k].tag /\ United(e, sort, k).column = e[k].column
                /\ United(e, sort, k).modes = All(k)
    BY <1>2, UnitedIs DEF All
  <1>14. \A k \in Places(e) : Plain(e[k].tag, e[k])
    BY <1>3, <1>9 DEF Match, Alike, Plain
  <1>15. ASSUME NEW j \in Places(e), NEW k \in Places(e), sort[j] = sort[k]
         PROVE  /\ e[j].from = e[k].from /\ e[j].to = e[k].to /\ e[j].tag = e[k].tag
                /\ e[j].column = e[k].column
    BY <1>5, <1>14, <1>15 DEF Sort, Plain
  <1>16. ASSUME NEW k \in Places(u)
         PROVE  /\ u[k].from = e[src[k]].from /\ u[k].to = e[src[k]].to
                /\ u[k].tag = e[src[k]].tag /\ u[k].column = e[src[k]].column
                /\ u[k].modes = All(src[k]) /\ src[k] \in Places(e)
    BY <1>12, <1>13
  <1>17. \A k \in Places(e) : \A mode : mode \in All(k) <=>
            \E l \in Places(e) : sort[l] = sort[k] /\ mode \in e[l].modes
    BY DEF All, AllModes, SortOf
  <1>18. ASSUME NEW k \in Places(u) PROVE Plain(u[k].tag, u[k])
    <2>1. ASSUME u[k].tag # "access" PROVE u[k].modes = {}
      <3>1. ASSUME NEW mode \in All(src[k]) PROVE FALSE
        <4>1. PICK l \in Places(e) : sort[l] = sort[src[k]] /\ mode \in e[l].modes
          BY <1>16, <1>17, <3>1
        <4>2. e[l].tag # "access"
          BY <1>15, <1>16, <2>1, <4>1
        <4> QED BY <1>14, <4>1, <4>2 DEF Plain
      <3> QED BY <1>16, <3>1
    <2> QED BY <1>14, <1>16, <2>1 DEF Plain
  <1>19. IsGraph(d)
    <2>1. d.nodes \in Seq(Range(d.nodes))
      BY <1>2, RangeIs DEF h
    <2>2. \A x \in Range(d.edges) : \E k \in Places(u) : u[k] = x
      BY <1>11, RangeIs DEF u
    <2> QED BY <1>8, <1>11, <1>18, <2>1, <2>2 DEF IsGraph, u
  <1>20. ASSUME NEW k \in Places(u) PROVE Sort(u[k]) = sort[src[k]]
    BY <1>5, <1>16 DEF Sort
  <1>21. \A j, k \in Places(u) : Sort(u[j]) = Sort(u[k]) => j = k
    BY <1>12, <1>20
  <1>22. ASSUME NEW k \in Places(u) PROVE Relation(d, u[k]) = Relation(h, e[src[k]])
    BY <1>7, <1>16 DEF Relation
  <1>23. \A k \in Places(u) : \E l \in Places(s.edges) : Relation(s, s.edges[l]) = Relation(d, u[k])
    BY <1>3, <1>16, <1>22 DEF Match
  <1>24. ASSUME NEW k \in Places(u), NEW mode \in u[k].modes
         PROVE  \E l \in Places(s.edges) :
                    /\ mode \in s.edges[l].modes
                    /\ KeyOf(s, s.edges[l].from) = KeyOf(d, u[k].from)
                    /\ KeyOf(s, s.edges[l].to) = KeyOf(d, u[k].to)
    <2>1. PICK m \in Places(e) : sort[m] = sort[src[k]] /\ mode \in e[m].modes
      BY <1>16, <1>17
    <2>2. PICK l \in Places(s.edges) : Match(s, s.edges[l], h, e[m])
      BY <1>3
    <2>3. e[m].from = u[k].from /\ e[m].to = u[k].to
      BY <1>15, <1>16, <2>1
    <2> QED BY <1>6, <2>1, <2>2, <2>3 DEF Match, Relation, Alike
  <1>25. ASSUME NEW l \in Places(s.edges), KeyOf(s, s.edges[l].from) # KeyOf(s, s.edges[l].to)
         PROVE  \E k \in Places(u) : /\ Relation(s, s.edges[l]) = Relation(d, u[k])
                                     /\ s.edges[l].modes \subseteq u[k].modes
    <2>1. PICK m \in Places(e) : Match(s, s.edges[l], h, e[m])
      BY <1>3, <1>25
    <2>2. PICK k \in Places(u) : sort[src[k]] = sort[m]
      BY <1>12
    <2>3. Relation(h, e[src[k]]) = Relation(h, e[m])
      BY <1>15, <1>16, <2>2 DEF Relation
    <2>4. e[m].modes \subseteq u[k].modes
      BY <1>16, <1>17, <2>2
    <2> QED BY <1>22, <2>1, <2>3, <2>4 DEF Match, Alike
  <1>26. /\ \A k \in N : pi[k] \in Places(s.nodes) /\ d.nodes[k] = s.nodes[pi[k]]
         /\ \A j, k \in N : KeyOf(d, j) = KeyOf(d, k) => j = k
         /\ \A p \in Places(s.nodes) : \E k \in N :
               KeyOf(d, k) = KeyOf(s, p) /\ (p \in RichOf(s) => k \in RichOf(d))
    <2>1. RichOf(d) = RichOf(h) /\ d.nodes = h.nodes
      BY DEF RichOf, h
    <2> QED BY <1>1, <1>6, <2>1 DEF Contracted, N
  <1>27. Deduplicated(s, d, pi)
    BY <1>8, <1>19, <1>21, <1>23, <1>24, <1>25, <1>26 DEF Deduplicated, u
  <1> QED BY <1>27

LEMMA RebuildSecondaryIs ==
    ASSUME NEW s, HasFields(s)
    PROVE  RebuildSecondary(s) =
              [nodes |-> s.nodes, edges |-> s.edges, keyIndex |-> s.keyIndex, names |-> Names(s),
               summaries |-> Summaries(s), categories |-> Categories(s),
               prints |-> Prints(s, {"mapper"}), fileNodes |-> s.fileNodes, params |-> s.params]
  <1> DEFINE names == Names(s)
             summaries == Summaries(s)
             categories == Categories(s)
             prints == Prints(s, {"mapper"})
             r == RebuildSecondary(s)
  <1>1. r = [s EXCEPT !.names = names, !.summaries = summaries, !.categories = categories,
                      !.prints = prints]
    BY DEF RebuildSecondary
  <1> HIDE DEF names, summaries, categories, prints, r
  <1>2. r = [nodes |-> s.nodes, edges |-> s.edges, keyIndex |-> s.keyIndex, names |-> names,
             summaries |-> summaries, categories |-> categories, prints |-> prints,
             fileNodes |-> s.fileNodes, params |-> s.params]
    BY <1>1 DEF HasFields
  <1> QED BY <1>2 DEF names, summaries, categories, prints, r

\* A store as rebuild_secondary_indexes leaves it.
Rebuilt(s, nodes, edges, keyIndex, fileNodes, params) ==
    s = [nodes |-> nodes, edges |-> edges, keyIndex |-> keyIndex, names |-> Names(s),
         summaries |-> Summaries(s), categories |-> Categories(s),
         prints |-> Prints(s, {"mapper"}), fileNodes |-> fileNodes, params |-> params]

LEMMA RebuiltIs ==
    ASSUME NEW s, NEW x, HasFields(s), x = RebuildSecondary(s)
    PROVE  Rebuilt(x, s.nodes, s.edges, s.keyIndex, s.fileNodes, s.params)
  <1>1. x = [nodes |-> s.nodes, edges |-> s.edges, keyIndex |-> s.keyIndex, names |-> Names(s),
             summaries |-> Summaries(s), categories |-> Categories(s),
             prints |-> Prints(s, {"mapper"}), fileNodes |-> s.fileNodes, params |-> s.params]
    BY RebuildSecondaryIs
  <1>2. x.nodes = s.nodes /\ x.edges = s.edges
    BY <1>1
  <1>3. /\ Names(x) = Names(s) /\ Summaries(x) = Summaries(s) /\ Categories(x) = Categories(s)
        /\ Prints(x, {"mapper"}) = Prints(s, {"mapper"})
    BY <1>2, SameGraph
  <1> QED BY <1>1, <1>3 DEF Rebuilt

\* What is rebuilt is well if the graph, the keys, the files and the parameters are.
LEMMA RebuiltWell ==
    ASSUME NEW s, NEW nodes, NEW edges, NEW keyIndex, NEW fileNodes, NEW params,
           Rebuilt(s, nodes, edges, keyIndex, fileNodes, params),
           IsGraph(s), KeysAreIndexed(s), FileNodes(s) \subseteq s.fileNodes, ParamsHold(s)
    PROVE  Well(s)
  <1>1. s = [nodes |-> nodes, edges |-> edges, keyIndex |-> keyIndex, names |-> Names(s),
             summaries |-> Summaries(s), categories |-> Categories(s),
             prints |-> Prints(s, {"mapper"}), fileNodes |-> fileNodes, params |-> params]
    BY DEF Rebuilt
  <1> DEFINE names == Names(s)
             summaries == Summaries(s)
             categories == Categories(s)
             prints == Prints(s, {"mapper"})
  <1> HIDE DEF names, summaries, categories, prints
  <1>2. s = [nodes |-> nodes, edges |-> edges, keyIndex |-> keyIndex, names |-> names,
             summaries |-> summaries, categories |-> categories, prints |-> prints,
             fileNodes |-> fileNodes, params |-> params]
    BY <1>1 DEF names, summaries, categories, prints
  <1>3. HasFields(s)
    BY <1>2 DEF HasFields
  <1>4. s.names = names /\ s.summaries = summaries /\ s.categories = categories /\ s.prints = prints
    BY <1>2
  <1>5. Secondary(s)
    BY <1>4 DEF Secondary, names, summaries, categories
  <1>6. PrintsAgree(s)
    BY <1>4, MorePrints DEF PrintsAgree, prints
  <1> QED BY <1>3, <1>5, <1>6 DEF Well

LEMMA DedupIs ==
    ASSUME NEW s, HasFields(s)
    PROVE  Rebuilt(Dedup(s), Narrowed(s).nodes, DedupEdges(Narrowed(s).edges),
                   KeyIndex(Dedup(s)), FileNodes(Dedup(s)), s.params)
  <1> DEFINE nodes == Narrowed(s).nodes
             edges == DedupEdges(Narrowed(s).edges)
             x == [s EXCEPT !.nodes = nodes, !.edges = edges]
             keys == KeyIndex(x)
             listed == FileNodes(x)
             y == [x EXCEPT !.keyIndex = keys, !.fileNodes = listed]
             d == Dedup(s)
  <1>1. d = RebuildSecondary(y)
    BY DEF Dedup, RebuildAll, Narrowed, Widened
  <1>2. x = [s EXCEPT !.nodes = nodes, !.edges = edges]
    OBVIOUS
  <1> HIDE DEF nodes, edges, x
  <1>3. x = [nodes |-> nodes, edges |-> edges, keyIndex |-> s.keyIndex, names |-> s.names,
             summaries |-> s.summaries, categories |-> s.categories, prints |-> s.prints,
             fileNodes |-> s.fileNodes, params |-> s.params]
    BY <1>2 DEF HasFields
  <1>4. y = [x EXCEPT !.keyIndex = keys, !.fileNodes = listed]
    OBVIOUS
  <1> HIDE DEF keys, listed, y
  <1>5. y = [nodes |-> nodes, edges |-> edges, keyIndex |-> keys, names |-> s.names,
             summaries |-> s.summaries, categories |-> s.categories, prints |-> s.prints,
             fileNodes |-> listed, params |-> s.params]
    BY <1>3, <1>4
  <1> HIDE DEF d
  <1>6. HasFields(y)
    BY <1>5 DEF HasFields
  <1>7. Rebuilt(d, y.nodes, y.edges, y.keyIndex, y.fileNodes, y.params)
    BY <1>1, <1>6, RebuiltIs
  <1>8. Rebuilt(d, nodes, edges, keys, listed, s.params)
    BY <1>5, <1>7
  <1>9. d.nodes = x.nodes /\ d.edges = x.edges
    BY <1>3, <1>8 DEF Rebuilt
  <1>10. KeyIndex(d) = keys /\ FileNodes(d) = listed
    BY <1>9, SameGraph DEF keys, listed
  <1> QED BY <1>8, <1>10 DEF d, nodes, edges

LEMMA DedupWell ==
    ASSUME NEW s, Well(s) PROVE Well(Dedup(s)) /\ \E pi : Deduplicated(s, Dedup(s), pi)
  <1> DEFINE d == Dedup(s)
             nodes == Narrowed(s).nodes
             edges == DedupEdges(Narrowed(s).edges)
  <1>1. HasFields(s) /\ IsGraph(s) /\ ParamsHold(s)
    BY DEF Well
  <1>2. Rebuilt(d, nodes, edges, KeyIndex(d), FileNodes(d), s.params)
    BY <1>1, DedupIs
  <1>3. d.nodes = nodes /\ d.edges = edges /\ d.params = s.params
        /\ d.keyIndex = KeyIndex(d) /\ d.fileNodes = FileNodes(d)
    BY <1>2 DEF Rebuilt
  <1> HIDE DEF d
  <1>4. PICK pi : Deduplicated(s, d, pi)
    BY <1>1, <1>3, DeduplicatedIs
  <1>5. IsGraph(d)
    BY <1>4 DEF Deduplicated
  <1>6. KeysAreIndexed(d)
    BY <1>3, <1>5, KeyIndexIs DEF KeysAreIndexed
  <1>7. /\ \A k \in Places(d.nodes) : pi[k] \in Places(s.nodes) /\ d.nodes[k] = s.nodes[pi[k]]
        /\ \A p \in Places(s.nodes) : \E k \in Places(d.nodes) : KeyOf(d, k) = KeyOf(s, p)
    BY <1>4 DEF Deduplicated
  <1>8. ParamsHold(d)
    <2>1. ASSUME NEW k \in DOMAIN s.params, NEW i \in Places(d.nodes), KeyOf(d, i) = k
          PROVE  d.nodes[i].file = s.params[k]
      <3>1. KeyOf(s, pi[i]) = k /\ d.nodes[i].file = s.nodes[pi[i]].file
        BY <1>7, <2>1 DEF KeyOf
      <3> QED BY <1>1, <1>7, <3>1 DEF ParamsHold
    <2>2. Keys(s) \subseteq Keys(d)
      BY <1>7 DEF Keys
    <2> QED BY <1>1, <1>3, <2>1, <2>2 DEF ParamsHold
  <1>9. Well(d)
    BY <1>2, <1>3, <1>5, <1>6, <1>8, RebuiltWell
  <1> QED BY <1>4, <1>9 DEF d

\* What DedupKeepsGraph promises of a store s and what it becomes.
NoDuplicates(s, d) ==
    /\ Keys(d) = Keys(s)
    /\ Cardinality(Keys(d)) = Len(d.nodes)
    /\ Cardinality({Sort(e) : e \in Range(d.edges)}) = Len(d.edges)
    /\ \A n \in Range(s.nodes) :
          n.rich => \E m \in Range(d.nodes) : m.rich /\ Key(m) = Key(n)

SameRelations(s, d) ==
    /\ {r \in Relations(s) : r[1] # r[2]} \subseteq Relations(d)
    /\ Relations(d) \subseteq Relations(s)
    /\ \A from, to \in Keys(d) : from # to => Modes(d, from, to) = Modes(s, from, to)

LEMMA GraphPlaces ==
    ASSUME NEW g, IsGraph(g)
    PROVE  /\ Len(g.nodes) \in Nat /\ DOMAIN g.nodes = 1 .. Len(g.nodes)
           /\ Len(g.edges) \in Nat /\ DOMAIN g.edges = 1 .. Len(g.edges)
           /\ \A k \in Places(g.nodes) : g.nodes[k] \in Range(g.nodes)
           /\ \A n \in Range(g.nodes) : \E k \in Places(g.nodes) : g.nodes[k] = n
           /\ \A k \in Places(g.edges) : g.edges[k] \in Range(g.edges)
           /\ \A e \in Range(g.edges) : \E k \in Places(g.edges) : g.edges[k] = e
  <1>1. g.nodes \in Seq(Range(g.nodes)) /\ g.edges \in Seq(Edges(Places(g.nodes)))
    BY DEF IsGraph
  <1>2. /\ Len(g.nodes) \in Nat /\ DOMAIN g.nodes = 1 .. Len(g.nodes)
        /\ Len(g.edges) \in Nat /\ DOMAIN g.edges = 1 .. Len(g.edges)
    BY <1>1
  <1> QED BY <1>2 DEF Range, Places

\* Keys which are there once are as many as the nodes.
LEMMA KeyCount ==
    ASSUME NEW g, IsGraph(g),
           \A j, k \in Places(g.nodes) : KeyOf(g, j) = KeyOf(g, k) => j = k
    PROVE  Cardinality(Keys(g)) = Len(g.nodes)
  <1> DEFINE n == Len(g.nodes)
             f == [i \in 1 .. n |-> KeyOf(g, i)]
             T == Keys(g)
  <1>1. n \in Nat /\ Places(g.nodes) = 1 .. n
    BY GraphPlaces DEF Places
  <1>2. DOMAIN f = 1 .. n /\ f = [i \in 1 .. n |-> f[i]] /\ \A i \in 1 .. n : f[i] = KeyOf(g, i)
    OBVIOUS
  <1>3. T = {KeyOf(g, i) : i \in 1 .. n}
    BY <1>1 DEF Keys
  <1> HIDE DEF n, f, T
  <1>4. \A i, j \in 1 .. n : f[i] = f[j] => i = j
    BY <1>1, <1>2
  <1>5. (\A i \in 1 .. n : f[i] \in T) /\ \A x \in T : \E i \in 1 .. n : f[i] = x
    BY <1>2, <1>3
  <1>6. Cardinality(T) = n
    BY <1>1, <1>2, <1>4, <1>5, DistinctCount
  <1> QED BY <1>6 DEF n, T

LEMMA ModesAre ==
    ASSUME NEW g, IsGraph(g), NEW from, NEW to
    PROVE  \A mode : mode \in Modes(g, from, to) <=> \E k \in Places(g.edges) :
              /\ KeyOf(g, g.edges[k].from) = from /\ KeyOf(g, g.edges[k].to) = to
              /\ mode \in g.edges[k].modes
  <1>1. /\ \A k \in Places(g.edges) : g.edges[k] \in Range(g.edges)
        /\ \A e \in Range(g.edges) : \E k \in Places(g.edges) : g.edges[k] = e
    BY GraphPlaces
  <1>2. \A mode : mode \in Modes(g, from, to) <=> \E e \in Range(g.edges) :
           KeyOf(g, e.from) = from /\ KeyOf(g, e.to) = to /\ mode \in e.modes
    BY DEF Modes
  <1> QED BY <1>1, <1>2

LEMMA DedupKeeps ==
    ASSUME NEW s, IsGraph(s), NEW d, NEW pi, Deduplicated(s, d, pi)
    PROVE  NoDuplicates(s, d) /\ SameRelations(s, d)
  <1>1. IsGraph(d)
    BY DEF Deduplicated
  <1>2. /\ \A k \in Places(d.nodes) : pi[k] \in Places(s.nodes) /\ KeyOf(d, k) = KeyOf(s, pi[k])
        /\ \A p \in Places(s.nodes) : \E k \in Places(d.nodes) :
              KeyOf(d, k) = KeyOf(s, p) /\ (p \in RichOf(s) => k \in RichOf(d))
    BY DEF Deduplicated, KeyOf
  <1>3. Keys(d) = Keys(s)
    BY <1>2 DEF Keys
  <1>4. Cardinality(Keys(d)) = Len(d.nodes)
    BY <1>1, KeyCount DEF Deduplicated
  <1>5. Cardinality({Sort(e) : e \in Range(d.edges)}) = Len(d.edges)
    <2> DEFINE n == Len(d.edges)
               f == [i \in 1 .. n |-> Sort(d.edges[i])]
               T == {Sort(e) : e \in Range(d.edges)}
    <2>1. n \in Nat /\ Places(d.edges) = 1 .. n
      BY <1>1, GraphPlaces DEF Places
    <2>2. DOMAIN f = 1 .. n /\ f = [i \in 1 .. n |-> f[i]] /\ \A i \in 1 .. n : f[i] = Sort(d.edges[i])
      OBVIOUS
    <2>3. T = {Sort(d.edges[i]) : i \in 1 .. n}
      <3>1. /\ \A i \in 1 .. n : d.edges[i] \in Range(d.edges)
            /\ \A e \in Range(d.edges) : \E i \in 1 .. n : d.edges[i] = e
        BY <1>1, <2>1, GraphPlaces
      <3> QED BY <3>1
    <2>4. \A i, j \in 1 .. n : f[i] = f[j] => i = j
      BY <2>1, <2>2 DEF Deduplicated
    <2> HIDE DEF n, f, T
    <2>5. (\A i \in 1 .. n : f[i] \in T) /\ \A x \in T : \E i \in 1 .. n : f[i] = x
      BY <2>2, <2>3
    <2>6. Cardinality(T) = n
      BY <2>1, <2>2, <2>4, <2>5, DistinctCount
    <2> QED BY <2>6 DEF n, T
  <1>6. ASSUME NEW n \in Range(s.nodes), n.rich
        PROVE  \E m \in Range(d.nodes) : m.rich /\ Key(m) = Key(n)
    <2>1. PICK p \in Places(s.nodes) : s.nodes[p] = n
      BY GraphPlaces
    <2>2. p \in RichOf(s) /\ KeyOf(s, p) = Key(n)
      BY <1>6, <2>1 DEF RichOf, KeyOf
    <2>3. PICK k \in Places(d.nodes) : KeyOf(d, k) = KeyOf(s, p) /\ k \in RichOf(d)
      BY <1>2, <2>2
    <2>4. d.nodes[k] \in Range(d.nodes) /\ d.nodes[k].rich /\ Key(d.nodes[k]) = Key(n)
      BY <1>1, <2>2, <2>3, GraphPlaces DEF RichOf, KeyOf
    <2> QED BY <2>4
  <1>7. \A r \in Relations(s) : \E l \in Places(s.edges) : r = Relation(s, s.edges[l])
    BY GraphPlaces DEF Relations
  <1>8. \A r \in Relations(d) : \E k \in Places(d.edges) : r = Relation(d, d.edges[k])
    BY <1>1, GraphPlaces DEF Relations
  <1>9. \A l \in Places(s.edges) : Relation(s, s.edges[l]) \in Relations(s)
    BY GraphPlaces DEF Relations
  <1>10. \A k \in Places(d.edges) : Relation(d, d.edges[k]) \in Relations(d)
    BY <1>1, GraphPlaces DEF Relations
  <1>11. \A k \in Places(d.edges) : \E l \in Places(s.edges) :
            Relation(s, s.edges[l]) = Relation(d, d.edges[k])
    BY DEF Deduplicated
  <1>12. \A l \in Places(s.edges) :
            KeyOf(s, s.edges[l].from) # KeyOf(s, s.edges[l].to) =>
                \E k \in Places(d.edges) :
                    /\ Relation(s, s.edges[l]) = Relation(d, d.edges[k])
                    /\ s.edges[l].modes \subseteq d.edges[k].modes
    BY DEF Deduplicated
  <1>13. \A k \in Places(d.edges) : \A mode \in d.edges[k].modes :
            \E l \in Places(s.edges) :
                /\ mode \in s.edges[l].modes
                /\ KeyOf(s, s.edges[l].from) = KeyOf(d, d.edges[k].from)
                /\ KeyOf(s, s.edges[l].to) = KeyOf(d, d.edges[k].to)
    BY DEF Deduplicated
  <1>14. Relations(d) \subseteq Relations(s)
    BY <1>8, <1>9, <1>11
  <1>15. {r \in Relations(s) : r[1] # r[2]} \subseteq Relations(d)
    <2>1. ASSUME NEW r \in Relations(s), r[1] # r[2] PROVE r \in Relations(d)
      <3>1. PICK l \in Places(s.edges) : r = Relation(s, s.edges[l])
        BY <1>7
      <3>2. KeyOf(s, s.edges[l].from) # KeyOf(s, s.edges[l].to)
        BY <2>1, <3>1 DEF Relation
      <3> QED BY <1>10, <1>12, <3>1, <3>2
    <2> QED BY <2>1
  <1>16. ASSUME NEW from, NEW to, from # to PROVE Modes(d, from, to) = Modes(s, from, to)
    <2>1. \A mode : mode \in Modes(d, from, to) <=> \E k \in Places(d.edges) :
             /\ KeyOf(d, d.edges[k].from) = from /\ KeyOf(d, d.edges[k].to) = to
             /\ mode \in d.edges[k].modes
      BY <1>1, ModesAre
    <2>2. \A mode : mode \in Modes(s, from, to) <=> \E l \in Places(s.edges) :
             /\ KeyOf(s, s.edges[l].from) = from /\ KeyOf(s, s.edges[l].to) = to
             /\ mode \in s.edges[l].modes
      BY ModesAre
    <2>3. ASSUME NEW mode \in Modes(d, from, to) PROVE mode \in Modes(s, from, to)
      BY <1>13, <2>1, <2>2
    <2>4. ASSUME NEW mode \in Modes(s, from, to) PROVE mode \in Modes(d, from, to)
      <3>1. PICK l \in Places(s.edges) : /\ KeyOf(s, s.edges[l].from) = from
                                         /\ KeyOf(s, s.edges[l].to) = to
                                         /\ mode \in s.edges[l].modes
        BY <2>2
      <3>2. PICK k \in Places(d.edges) : /\ Relation(s, s.edges[l]) = Relation(d, d.edges[k])
                                         /\ s.edges[l].modes \subseteq d.edges[k].modes
        BY <1>12, <1>16, <3>1
      <3>3. KeyOf(d, d.edges[k].from) = from /\ KeyOf(d, d.edges[k].to) = to
        BY <3>1, <3>2 DEF Relation
      <3> QED BY <2>1, <3>1, <3>2, <3>3
    <2> QED BY <2>3, <2>4
  <1> QED BY <1>3, <1>4, <1>5, <1>6, <1>14, <1>15, <1>16 DEF NoDuplicates, SameRelations

-----------------------------------------------------------------------------
(* Where merged nodes are placed. *)

KeysOf(NS) == {Key(n) : n \in NS}

\* Each node is found by its key.
Indexed(nodes, index) ==
    /\ DOMAIN index = {Key(nodes[p]) : p \in Places(nodes)}
    /\ \A p \in Places(nodes) : index[Key(nodes[p])] = p

\* A key without a schema stands for one with it.
Reversed(index, reverse) ==
    /\ DOMAIN reverse = {Relaxed(k) : k \in {x \in DOMAIN index : Relaxable(x)}}
    /\ \A r \in DOMAIN reverse : \E x \in DOMAIN index :
          Relaxable(x) /\ Relaxed(x) = r /\ reverse[r] = index[x]

LEMMA RelaxedKey ==
    ASSUME NEW NS, NEW k, k \in KeysOf(NS)
    PROVE  Relaxed(k).schema = NoSchema /\ ~Relaxable(Relaxed(k))
  BY DEF KeysOf, Key, Relaxed, Relaxable

LEMMA ReverseTyped ==
    ASSUME NEW index, NEW prefer, NEW KS, index \in Maps(KS, Nat)
    PROVE  /\ RelaxedReverse(index, prefer) \in Maps({Relaxed(k) : k \in KS}, Nat)
           /\ Reversed(index, RelaxedReverse(index, prefer))
  <1> DEFINE qualified == {k \in DOMAIN index : Relaxable(k)}
             Of(r) == {k \in qualified : Relaxed(k) = r}
             Preferred(r) == {k \in Of(r) : k.schema = prefer}
             Favourite(r) == CHOOSE k \in Of(r) : Preferred(r) # {} => k \in Preferred(r)
             D == {Relaxed(k) : k \in qualified}
             f == [r \in D |-> index[Favourite(r)]]
  <1>1. RelaxedReverse(index, prefer) = f
    BY DEF RelaxedReverse
  <1>2. DOMAIN index \in SUBSET KS /\ \A k \in DOMAIN index : index[k] \in Nat
    BY MapsAre
  <1>3. ASSUME NEW r \in D PROVE Favourite(r) \in Of(r)
    <2>1. Of(r) # {}
      OBVIOUS
    <2>2. \E k \in Of(r) : Preferred(r) # {} => k \in Preferred(r)
      BY <2>1
    <2> HIDE DEF Of, Preferred
    <2> QED BY <2>2
  <1> HIDE DEF Favourite
  <1>4. \A r \in D : /\ Favourite(r) \in DOMAIN index /\ Relaxable(Favourite(r))
                     /\ Relaxed(Favourite(r)) = r
    BY <1>3
  <1>5. f \in [D -> Nat] /\ D \in SUBSET {Relaxed(k) : k \in KS}
    BY <1>2, <1>4
  <1>6. f \in Maps({Relaxed(k) : k \in KS}, Nat)
    <2> HIDE DEF f, D
    <2> QED BY <1>5 DEF Maps
  <1>7. Reversed(index, f)
    BY <1>4 DEF Reversed
  <1> QED BY <1>1, <1>6, <1>7

LEMMA PlaceOne ==
    ASSUME NEW index, NEW reverse, NEW key, NEW KS, NEW RS,
           index \in Maps(KS, Nat), reverse \in Maps(RS, Nat), Place(index, reverse, key) # {}
    PROVE  \E p \in Nat : Place(index, reverse, key) = {p}
  <1>1. \A k \in DOMAIN index : index[k] \in Nat
    BY MapsAre
  <1>2. \A k \in DOMAIN reverse : reverse[k] \in Nat
    BY MapsAre
  <1>3. CASE key \in DOMAIN index
    BY <1>1, <1>3 DEF Place
  <1>4. CASE key \notin DOMAIN index /\ Relaxable(key) /\ Relaxed(key) \in DOMAIN index
    BY <1>1, <1>4 DEF Place
  <1>5. CASE key \notin DOMAIN index /\ ~(Relaxable(key) /\ Relaxed(key) \in DOMAIN index)
    <2>1. Place(index, reverse, key) = {reverse[k] : k \in DOMAIN reverse \cap {key}}
      BY <1>5 DEF Place
    <2>2. key \in DOMAIN reverse
      BY <2>1
    <2>3. Place(index, reverse, key) = {reverse[key]}
      BY <2>1, <2>2
    <2> QED BY <1>2, <2>2, <2>3
  <1> QED BY <1>3, <1>4, <1>5

\* What Place finds, and when it finds nothing.
Placed(index, reverse, key, p) ==
    \/ key \in DOMAIN index /\ p = index[key]
    \/ /\ key \notin DOMAIN index /\ Relaxable(key) /\ Relaxed(key) \in DOMAIN index
       /\ p = index[Relaxed(key)]
    \/ /\ key \notin DOMAIN index /\ ~(Relaxable(key) /\ Relaxed(key) \in DOMAIN index)
       /\ key \in DOMAIN reverse /\ p = reverse[key]

Unplaced(index, reverse, key) ==
    /\ key \notin DOMAIN index /\ ~(Relaxable(key) /\ Relaxed(key) \in DOMAIN index)
    /\ key \notin DOMAIN reverse

LEMMA PlacedAt ==
    ASSUME NEW index, NEW reverse, NEW key, NEW p, Place(index, reverse, key) = {p}
    PROVE  Placed(index, reverse, key, p)
  <1>1. CASE key \in DOMAIN index
    BY <1>1 DEF Place, Placed
  <1>2. CASE key \notin DOMAIN index /\ Relaxable(key) /\ Relaxed(key) \in DOMAIN index
    BY <1>2 DEF Place, Placed
  <1>3. CASE key \notin DOMAIN index /\ ~(Relaxable(key) /\ Relaxed(key) \in DOMAIN index)
    <2>1. Place(index, reverse, key) = {reverse[k] : k \in DOMAIN reverse \cap {key}}
      BY <1>3 DEF Place
    <2> QED BY <1>3, <2>1 DEF Placed
  <1> QED BY <1>1, <1>2, <1>3

LEMMA PlacedNowhere ==
    ASSUME NEW index, NEW reverse, NEW key, Place(index, reverse, key) = {}
    PROVE  Unplaced(index, reverse, key)
  <1>1. CASE key \in DOMAIN index
    BY <1>1 DEF Place
  <1>2. CASE key \notin DOMAIN index /\ Relaxable(key) /\ Relaxed(key) \in DOMAIN index
    BY <1>2 DEF Place
  <1>3. CASE key \notin DOMAIN index /\ ~(Relaxable(key) /\ Relaxed(key) \in DOMAIN index)
    <2>1. Place(index, reverse, key) = {reverse[k] : k \in DOMAIN reverse \cap {key}}
      BY <1>3 DEF Place
    <2> QED BY <1>3, <2>1 DEF Unplaced
  <1> QED BY <1>1, <1>2, <1>3

\* One key has one place.
LEMMA PlacedOnce ==
    ASSUME NEW index, NEW reverse, NEW key, NEW p, NEW q,
           Placed(index, reverse, key, p), Placed(index, reverse, key, q)
    PROVE  p = q
  BY DEF Placed

\* A key which had a place keeps it when one is added which had none.
LEMMA PlaceStays ==
    ASSUME NEW index, NEW reverse, NEW key, NEW p, NEW new, NEW y,
           Placed(index, reverse, key, p), Unplaced(index, reverse, new),
           \A r \in DOMAIN reverse : ~Relaxable(r)
    PROVE  Placed(Put(index, new, y), reverse, key, p)
  <1> DEFINE f == Put(index, new, y)
  <1>1. DOMAIN f = DOMAIN index \cup {new}
    BY PutDomain
  <1>2. ASSUME NEW k \in DOMAIN index PROVE f[k] = index[k]
    <2>1. k # new
      BY DEF Unplaced
    <2> QED BY <2>1 DEF Put
  <1> HIDE DEF f
  <1>3. key # new
    BY DEF Placed, Unplaced
  <1>4. ASSUME key \in DOMAIN index /\ p = index[key] PROVE Placed(f, reverse, key, p)
    BY <1>1, <1>2, <1>4 DEF Placed
  <1>5. ASSUME /\ key \notin DOMAIN index /\ Relaxable(key) /\ Relaxed(key) \in DOMAIN index
               /\ p = index[Relaxed(key)]
        PROVE  Placed(f, reverse, key, p)
    BY <1>1, <1>2, <1>3, <1>5 DEF Placed
  <1>6. ASSUME /\ key \notin DOMAIN index /\ ~(Relaxable(key) /\ Relaxed(key) \in DOMAIN index)
               /\ key \in DOMAIN reverse /\ p = reverse[key]
        PROVE  Placed(f, reverse, key, p)
    BY <1>1, <1>3, <1>6 DEF Placed
  <1> QED BY <1>4, <1>5, <1>6 DEF Placed, f

-----------------------------------------------------------------------------
(* Where a node is represented, whatever else is merged. *)

Settled(index, key, p) ==
    \/ key \in DOMAIN index /\ p = index[key]
    \/ /\ key \notin DOMAIN index /\ Relaxable(key) /\ Relaxed(key) \in DOMAIN index
       /\ p = index[Relaxed(key)]
    \/ /\ key \notin DOMAIN index
       /\ \E x \in DOMAIN index : Relaxable(x) /\ Relaxed(x) = key /\ p = index[x]

\* More keys, of which none had a place before.
Extends(old, index, reverse) ==
    /\ DOMAIN old \subseteq DOMAIN index
    /\ \A k \in DOMAIN old : index[k] = old[k]
    /\ \A k \in DOMAIN index \ DOMAIN old : Unplaced(old, reverse, k)

LEMMA SettledHere ==
    ASSUME NEW old, NEW index, NEW reverse, NEW key, NEW p,
           Extends(old, index, reverse), Reversed(old, reverse), Placed(index, reverse, key, p)
    PROVE  Settled(index, key, p)
  <1>1. CASE key \in DOMAIN index /\ p = index[key]
    BY <1>1 DEF Settled
  <1>2. CASE /\ key \notin DOMAIN index /\ Relaxable(key) /\ Relaxed(key) \in DOMAIN index
             /\ p = index[Relaxed(key)]
    BY <1>2 DEF Settled
  <1>3. CASE /\ key \notin DOMAIN index /\ ~(Relaxable(key) /\ Relaxed(key) \in DOMAIN index)
             /\ key \in DOMAIN reverse /\ p = reverse[key]
    <2>1. PICK x \in DOMAIN old : Relaxable(x) /\ Relaxed(x) = key /\ reverse[key] = old[x]
      BY <1>3 DEF Reversed
    <2>2. x \in DOMAIN index /\ index[x] = old[x]
      BY DEF Extends
    <2> QED BY <1>3, <2>1, <2>2 DEF Settled
  <1> QED BY <1>1, <1>2, <1>3 DEF Placed

LEMMA SettledStays ==
    ASSUME NEW old, NEW index, NEW reverse, NEW key, NEW p,
           Extends(old, index, reverse), Reversed(old, reverse), Settled(old, key, p)
    PROVE  Settled(index, key, p)
  <1>1. CASE key \in DOMAIN old /\ p = old[key]
    BY <1>1 DEF Settled, Extends
  <1>2. CASE /\ key \notin DOMAIN old /\ Relaxable(key) /\ Relaxed(key) \in DOMAIN old
             /\ p = old[Relaxed(key)]
    <2>1. key \notin DOMAIN index
      BY <1>2 DEF Extends, Unplaced
    <2> QED BY <1>2, <2>1 DEF Settled, Extends
  <1>3. CASE /\ key \notin DOMAIN old
             /\ \E x \in DOMAIN old : Relaxable(x) /\ Relaxed(x) = key /\ p = old[x]
    <2>1. PICK x \in DOMAIN old : Relaxable(x) /\ Relaxed(x) = key /\ p = old[x]
      BY <1>3
    <2>2. key \in DOMAIN reverse
      BY <2>1 DEF Reversed
    <2>3. key \notin DOMAIN index
      BY <1>3, <2>2 DEF Extends, Unplaced
    <2>4. x \in DOMAIN index /\ index[x] = old[x]
      BY DEF Extends
    <2> QED BY <2>1, <2>3, <2>4 DEF Settled
  <1> QED BY <1>1, <1>2, <1>3 DEF Settled

-----------------------------------------------------------------------------
(* The nodes of one more store. *)

\* What merging nodes makes of acc.
Mergers(acc, NS) ==
    [m : [nodes : Seq(NS), edges : {acc.m.edges}, keyIndex : Maps(KeysOf(NS), Nat),
          names : {acc.m.names}, summaries : {acc.m.summaries},
          categories : {acc.m.categories}, prints : {acc.m.prints},
          fileNodes : {acc.m.fileNodes}, params : {acc.m.params}],
     map : Seq(Nat), maps : {acc.maps}, from : Maps(KeysOf(NS), Nat), anchors : {acc.anchors}]

MergeNode(a, node, j, reverse) ==
    LET at == Place(a.m.keyIndex, reverse, Key(node))
        new == Len(a.m.nodes) + 1
    IN  IF at # {}
        THEN [a EXCEPT !.map = Append(@, CHOOSE p \in at : TRUE)]
        ELSE [a EXCEPT !.map = Append(@, new),
                       !.m.nodes = Append(@, node),
                       !.m.keyIndex = Put(@, Key(node), new),
                       !.from = Put(@, Key(node), j)]

HasPlace(a, reverse, node) == Place(a.m.keyIndex, reverse, Key(node)) # {}

\* a and what it becomes when the node has a place, and when it has none.
FoundAt(a, b, p) ==
    b.m = a.m /\ b.map = Append(a.map, p) /\ b.from = a.from

AddedNew(a, b, node, j) ==
    /\ b.m.nodes = Append(a.m.nodes, node)
    /\ b.m.keyIndex = Put(a.m.keyIndex, Key(node), Len(a.m.nodes) + 1)
    /\ b.map = Append(a.map, Len(a.m.nodes) + 1)
    /\ b.from = Put(a.from, Key(node), j)

LEMMA AppendTyped ==
    ASSUME NEW S, NEW s, NEW x, s \in Seq(S), x \in S
    PROVE  Append(s, x) \in Seq(S)
  OBVIOUS

LEMMA MergeNodeFound ==
    ASSUME NEW acc, NEW NS, NEW RS, NEW a, NEW node, NEW j, NEW reverse,
           a \in Mergers(acc, NS), reverse \in Maps(RS, Nat), HasPlace(a, reverse, node)
    PROVE  /\ MergeNode(a, node, j, reverse) \in Mergers(acc, NS)
           /\ \E p \in Nat : /\ Place(a.m.keyIndex, reverse, Key(node)) = {p}
                             /\ FoundAt(a, MergeNode(a, node, j, reverse), p)
  <1> DEFINE at == Place(a.m.keyIndex, reverse, Key(node))
             c == CHOOSE p \in at : TRUE
             map == Append(a.map, c)
             b == MergeNode(a, node, j, reverse)
  <1>1. /\ a = [m |-> a.m, map |-> a.map, maps |-> a.maps, from |-> a.from, anchors |-> a.anchors]
        /\ a.m.keyIndex \in Maps(KeysOf(NS), Nat) /\ a.map \in Seq(Nat)
    BY DEF Mergers
  <1>2. PICK p \in Nat : at = {p}
    BY <1>1, PlaceOne DEF HasPlace
  <1>3. c = p
    BY <1>2
  <1>4. b = [a EXCEPT !.map = map]
    BY <1>2 DEF MergeNode
  <1>5. map = Append(a.map, p) /\ map \in Seq(Nat)
    BY <1>1, <1>3, AppendTyped
  <1> HIDE DEF b, map
  <1>6. b = [m |-> a.m, map |-> map, maps |-> a.maps, from |-> a.from, anchors |-> a.anchors]
    BY <1>1, <1>4
  <1>7. b \in Mergers(acc, NS)
    BY <1>5, <1>6 DEF Mergers
  <1>8. FoundAt(a, b, p)
    BY <1>5, <1>6 DEF FoundAt
  <1> QED BY <1>2, <1>7, <1>8 DEF b

LEMMA MergeNodeNew ==
    ASSUME NEW acc, NEW NS, NEW a, NEW node, NEW j, NEW reverse,
           a \in Mergers(acc, NS), node \in NS, j \in Nat, ~HasPlace(a, reverse, node)
    PROVE  /\ MergeNode(a, node, j, reverse) \in Mergers(acc, NS)
           /\ AddedNew(a, MergeNode(a, node, j, reverse), node, j)
  <1> DEFINE key == Key(node)
             new == Len(a.m.nodes) + 1
             map == Append(a.map, new)
             nodes == Append(a.m.nodes, node)
             index == Put(a.m.keyIndex, key, new)
             from == Put(a.from, key, j)
             b == MergeNode(a, node, j, reverse)
  <1>1. /\ a = [m |-> a.m, map |-> a.map, maps |-> a.maps, from |-> a.from, anchors |-> a.anchors]
        /\ a.m.keyIndex \in Maps(KeysOf(NS), Nat) /\ a.map \in Seq(Nat)
        /\ a.from \in Maps(KeysOf(NS), Nat) /\ a.m.nodes \in Seq(NS)
    BY DEF Mergers
  <1>2. HasFields(a.m)
    BY DEF Mergers, HasFields
  <1>3. new \in Nat /\ key \in KeysOf(NS)
    BY <1>1 DEF KeysOf
  <1>4. b = [a EXCEPT !.map = map, !.m.nodes = nodes, !.m.keyIndex = index, !.from = from]
    BY DEF MergeNode, HasPlace
  <1> HIDE DEF key, new
  <1>5. /\ map \in Seq(Nat) /\ nodes \in Seq(NS)
        /\ index \in Maps(KeysOf(NS), Nat) /\ from \in Maps(KeysOf(NS), Nat)
    <2>1. map \in Seq(Nat) /\ nodes \in Seq(NS)
      BY <1>1, <1>3, AppendTyped
    <2>2. index \in Maps(KeysOf(NS), Nat)
      BY <1>1, <1>3, PutTyped
    <2>3. from \in Maps(KeysOf(NS), Nat)
      BY <1>1, <1>3, PutTyped
    <2> QED BY <2>1, <2>2, <2>3
  <1> HIDE DEF b, map, nodes, index, from
  <1> DEFINE m == [nodes |-> nodes, edges |-> a.m.edges, keyIndex |-> index,
                   names |-> a.m.names, summaries |-> a.m.summaries,
                   categories |-> a.m.categories, prints |-> a.m.prints,
                   fileNodes |-> a.m.fileNodes, params |-> a.m.params]
  <1>6. b = [m |-> m, map |-> map, maps |-> a.maps, from |-> from, anchors |-> a.anchors]
    <2> DEFINE r == [a.m EXCEPT !.nodes = nodes]
               t == [r EXCEPT !.keyIndex = index]
    <2>1. r = [a.m EXCEPT !.nodes = nodes] /\ t = [r EXCEPT !.keyIndex = index]
      OBVIOUS
    <2>2. b = [m |-> t, map |-> map, maps |-> a.maps, from |-> from, anchors |-> a.anchors]
      BY <1>1, <1>4
    <2> HIDE DEF r, t
    <2>3. r = [nodes |-> nodes, edges |-> a.m.edges, keyIndex |-> a.m.keyIndex,
               names |-> a.m.names, summaries |-> a.m.summaries,
               categories |-> a.m.categories, prints |-> a.m.prints,
               fileNodes |-> a.m.fileNodes, params |-> a.m.params]
      BY <1>2, <2>1 DEF HasFields
    <2>4. t = m
      BY <2>1, <2>3
    <2> QED BY <2>2, <2>4
  <1>7. b.m = m /\ b.map = map /\ b.from = from
    BY <1>6
  <1>8. b \in Mergers(acc, NS)
    BY <1>5, <1>6 DEF Mergers
  <1>9. AddedNew(a, b, node, j)
    BY <1>7 DEF AddedNew, nodes, index, map, from, key, new
  <1> QED BY <1>8, <1>9 DEF b

LEMMA AppendIs ==
    ASSUME NEW S, NEW s, NEW x, s \in Seq(S)
    PROVE  /\ Len(s) \in Nat /\ Len(Append(s, x)) = Len(s) + 1
           /\ \A i \in Places(s) : Append(s, x)[i] = s[i]
           /\ Append(s, x)[Len(s) + 1] = x
           /\ Places(Append(s, x)) = Places(s) \cup {Len(s) + 1}
           /\ Len(s) + 1 \notin Places(s)
  <1>1. Len(s) \in Nat /\ Len(Append(s, x)) = Len(s) + 1
    OBVIOUS
  <1>2. (\A i \in 1 .. Len(s) : Append(s, x)[i] = s[i]) /\ Append(s, x)[Len(s) + 1] = x
    OBVIOUS
  <1> QED BY <1>1, <1>2 DEF Places

LEMMA IndexedAppend ==
    ASSUME NEW S, NEW nodes, NEW node, NEW index, nodes \in Seq(S), Indexed(nodes, index),
           Key(node) \notin DOMAIN index
    PROVE  Indexed(Append(nodes, node), Put(index, Key(node), Len(nodes) + 1))
  <1> DEFINE new == Append(nodes, node)
             key == Key(node)
             n == Len(nodes) + 1
             f == Put(index, key, n)
             K(p) == Key(nodes[p])
  <1>1. /\ Places(new) = Places(nodes) \cup {n} /\ n \notin Places(nodes)
        /\ \A p \in Places(nodes) : new[p] = nodes[p]
        /\ new[n] = node
    <2>1. Len(new) = n /\ Len(nodes) \in Nat
      BY AppendIs
    <2>2. new[n] = node /\ \A p \in Places(nodes) : new[p] = nodes[p]
      BY <2>1 DEF Places
    <2> QED BY <2>1, <2>2 DEF Places
  <1>2. DOMAIN index = {K(p) : p \in Places(nodes)} /\ \A p \in Places(nodes) : index[K(p)] = p
    BY DEF Indexed
  <1>3. key \notin DOMAIN index /\ f = [k \in DOMAIN index \cup {key} |-> IF k = key THEN n ELSE index[k]]
    BY DEF Put
  <1> HIDE DEF new, key, n, f
  <1>4. /\ DOMAIN f = DOMAIN index \cup {key} /\ f[key] = n
        /\ \A k \in DOMAIN index : f[k] = index[k]
    BY <1>3
  <1>5. Key(new[n]) = key /\ \A p \in Places(nodes) : Key(new[p]) = K(p)
    BY <1>1 DEF key
  <1> HIDE DEF K
  <1>6. \A p \in Places(nodes) : K(p) \in DOMAIN index
    BY <1>2
  <1>7. DOMAIN f = {Key(new[p]) : p \in Places(new)}
    BY <1>1, <1>2, <1>4, <1>5
  <1>8. \A p \in Places(new) : f[Key(new[p])] = p
    BY <1>1, <1>2, <1>4, <1>5, <1>6
  <1> QED BY <1>7, <1>8 DEF Indexed, new, f, key, n

\* acc after the first i of the nodes which are new to it.
Grown(acc, reverse, new, j, b, i) ==
    /\ Len(b.map) = i
    /\ Indexed(b.m.nodes, b.m.keyIndex)
    /\ Len(acc.m.nodes) <= Len(b.m.nodes)
    /\ \A p \in Places(acc.m.nodes) : b.m.nodes[p] = acc.m.nodes[p]
    /\ Extends(acc.m.keyIndex, b.m.keyIndex, reverse)
    /\ DOMAIN b.from = DOMAIN b.m.keyIndex
    /\ \A k \in DOMAIN acc.m.keyIndex : b.from[k] = acc.from[k]
    /\ \A k \in DOMAIN b.m.keyIndex \ DOMAIN acc.m.keyIndex :
          b.from[k] = j /\ b.m.nodes[b.m.keyIndex[k]] \in Range(new)
    /\ \A l \in 1 .. i : /\ b.map[l] \in Places(b.m.nodes)
                         /\ Placed(b.m.keyIndex, reverse, Key(new[l]), b.map[l])

LEMMA IndexedPlaces ==
    ASSUME NEW nodes, NEW index, Indexed(nodes, index)
    PROVE  \A k \in DOMAIN index : index[k] \in Places(nodes) /\ Key(nodes[index[k]]) = k
  BY DEF Indexed

LEMMA PlacedInside ==
    ASSUME NEW nodes, NEW index, NEW old, NEW reverse, NEW key, NEW p,
           Indexed(nodes, index), Extends(old, index, reverse), Reversed(old, reverse),
           Placed(index, reverse, key, p)
    PROVE  p \in Places(nodes)
  <1>1. \A k \in DOMAIN index : index[k] \in Places(nodes)
    BY IndexedPlaces
  <1>2. CASE key \in DOMAIN reverse /\ p = reverse[key]
    <2>1. PICK x \in DOMAIN old : reverse[key] = old[x]
      BY <1>2 DEF Reversed
    <2> QED BY <1>1, <1>2, <2>1 DEF Extends
  <1> QED BY <1>1, <1>2 DEF Placed

LEMMA GrownFound ==
    ASSUME NEW acc, NEW NS, NEW reverse, NEW new, NEW j, NEW b, NEW c, NEW i, NEW p,
           b \in Mergers(acc, NS), Reversed(acc.m.keyIndex, reverse), i \in Places(new),
           Len(new) \in Nat, Grown(acc, reverse, new, j, b, i - 1),
           Place(b.m.keyIndex, reverse, Key(new[i])) = {p}, FoundAt(b, c, p)
    PROVE  Grown(acc, reverse, new, j, c, i)
  <1>1. i \in Nat /\ i >= 1 /\ \A l \in 1 .. i : l = i \/ l \in 1 .. i - 1
    BY DEF Places
  <1>2. Placed(b.m.keyIndex, reverse, Key(new[i]), p)
    BY PlacedAt
  <1>3. Indexed(b.m.nodes, b.m.keyIndex) /\ Extends(acc.m.keyIndex, b.m.keyIndex, reverse)
    BY DEF Grown
  <1>4. p \in Places(b.m.nodes)
    BY <1>2, <1>3, PlacedInside
  <1>5. c.m = b.m /\ c.map = Append(b.map, p) /\ c.from = b.from
    BY DEF FoundAt
  <1>6. b.map \in Seq(Nat) /\ Len(b.map) = i - 1
    BY DEF Mergers, Grown
  <1>7. Len(c.map) = i /\ c.map[i] = p /\ \A l \in 1 .. i - 1 : c.map[l] = b.map[l]
    <2>1. Len(b.map) + 1 = i /\ Places(b.map) = 1 .. i - 1
      BY <1>1, <1>6 DEF Places
    <2> QED BY <1>5, <1>6, <2>1, AppendIs
  <1>8. \A l \in 1 .. i : /\ c.map[l] \in Places(b.m.nodes)
                          /\ Placed(b.m.keyIndex, reverse, Key(new[l]), c.map[l])
    BY <1>1, <1>2, <1>4, <1>7 DEF Grown
  <1> QED BY <1>5, <1>7, <1>8 DEF Grown

LEMMA GrownNew ==
    ASSUME NEW acc, NEW NS, NEW reverse, NEW new, NEW j, NEW b, NEW c, NEW i,
           acc.m.nodes \in Seq(NS), b \in Mergers(acc, NS), Reversed(acc.m.keyIndex, reverse),
           i \in Places(new), new \in Seq(NS), Grown(acc, reverse, new, j, b, i - 1),
           \A r \in DOMAIN reverse : ~Relaxable(r),
           Place(b.m.keyIndex, reverse, Key(new[i])) = {}, AddedNew(b, c, new[i], j)
    PROVE  Grown(acc, reverse, new, j, c, i)
  <1> DEFINE key == Key(new[i])
             n == Len(b.m.nodes) + 1
             index == b.m.keyIndex
             f == c.m.keyIndex
             old == acc.m.keyIndex
  <1>1. /\ i \in Nat /\ i >= 1 /\ \A l \in 1 .. i : l = i \/ l \in 1 .. i - 1
        /\ new[i] \in Range(new)
    BY RangeIs DEF Places
  <1>2. /\ b.m.nodes \in Seq(NS) /\ b.map \in Seq(Nat) /\ Len(b.map) = i - 1
        /\ Indexed(b.m.nodes, index) /\ Extends(old, index, reverse)
    BY DEF Mergers, Grown
  <1>3. /\ c.m.nodes = Append(b.m.nodes, new[i]) /\ f = Put(index, key, n)
        /\ c.map = Append(b.map, n) /\ c.from = Put(b.from, key, j)
    BY DEF AddedNew
  <1>4. Unplaced(index, reverse, key)
    BY PlacedNowhere
  <1>5. Indexed(c.m.nodes, f)
    BY <1>2, <1>3, <1>4, IndexedAppend DEF Unplaced
  <1>6. Len(acc.m.nodes) \in Nat /\ Len(b.m.nodes) \in Nat
    BY <1>2
  <1>7. /\ Len(c.m.nodes) = n /\ Places(c.m.nodes) = Places(b.m.nodes) \cup {n}
        /\ c.m.nodes[n] = new[i] /\ \A p \in Places(b.m.nodes) : c.m.nodes[p] = b.m.nodes[p]
    <2>1. Len(c.m.nodes) = n /\ Len(b.m.nodes) \in Nat
      BY <1>2, <1>3, AppendIs
    <2>2. c.m.nodes[n] = new[i] /\ \A p \in Places(b.m.nodes) : c.m.nodes[p] = b.m.nodes[p]
      BY <1>2, <1>3, <2>1 DEF Places
    <2> QED BY <2>1, <2>2 DEF Places
  <1>8. Len(c.map) = i /\ c.map[i] = n /\ \A l \in 1 .. i - 1 : c.map[l] = b.map[l]
    <2>1. Len(b.map) + 1 = i /\ Places(b.map) = 1 .. i - 1
      BY <1>1, <1>2 DEF Places
    <2> QED BY <1>2, <1>3, <2>1, AppendIs
  <1>9. /\ DOMAIN f = DOMAIN index \cup {key} /\ f[key] = n
        /\ \A k \in DOMAIN index : f[k] = index[k]
    <2>1. key \notin DOMAIN index
      BY <1>4 DEF Unplaced
    <2> QED BY <1>3, <2>1 DEF Put
  <1>10. /\ DOMAIN c.from = DOMAIN f /\ c.from[key] = j
         /\ \A k \in DOMAIN index : c.from[k] = b.from[k]
    <2>1. key \notin DOMAIN index /\ DOMAIN b.from = DOMAIN index
      BY <1>4 DEF Unplaced, Grown
    <2> QED BY <1>3, <1>9, <2>1 DEF Put
  <1>11. /\ DOMAIN old \subseteq DOMAIN index
         /\ \A k \in DOMAIN old : index[k] = old[k]
         /\ \A k \in DOMAIN index \ DOMAIN old : Unplaced(old, reverse, k)
    BY <1>2 DEF Extends
  <1>12. Extends(old, f, reverse)
    <2>1. Unplaced(old, reverse, key)
      BY <1>4, <1>11 DEF Unplaced
    <2> HIDE DEF old, index, f, key
    <2> QED BY <1>9, <1>11, <2>1 DEF Extends
  <1>13. \A k \in DOMAIN old : c.from[k] = acc.from[k]
    BY <1>10, <1>11 DEF Grown
  <1>14. \A k \in DOMAIN f \ DOMAIN old : c.from[k] = j /\ c.m.nodes[f[k]] \in Range(new)
    <2>1. \A k \in DOMAIN index \ DOMAIN old : b.from[k] = j /\ b.m.nodes[index[k]] \in Range(new)
      BY DEF Grown
    <2>2. \A k \in DOMAIN index : index[k] \in Places(b.m.nodes)
      BY <1>2, IndexedPlaces
    <2>3. c.from[key] = j /\ c.m.nodes[f[key]] \in Range(new)
      BY <1>1, <1>7, <1>9, <1>10
    <2>4. ASSUME NEW k \in DOMAIN index \ DOMAIN old
          PROVE  c.from[k] = j /\ c.m.nodes[f[k]] \in Range(new)
      BY <1>7, <1>9, <1>10, <2>1, <2>2
    <2> HIDE DEF old, index, f, key
    <2> QED BY <1>9, <2>3, <2>4
  <1>15. ASSUME NEW l \in 1 .. i
         PROVE  c.map[l] \in Places(c.m.nodes) /\ Placed(f, reverse, Key(new[l]), c.map[l])
    <2>1. CASE l = i
      <3>1. \A x : x = key => Placed(f, reverse, x, n)
        BY <1>9 DEF Placed
      <3>2. c.map[l] = n /\ new[l] = new[i] /\ n \in Places(c.m.nodes)
        BY <1>7, <1>8, <2>1
      <3>3. Key(new[l]) = key
        BY <3>2
      <3> QED BY <3>1, <3>2, <3>3
    <2>2. CASE l \in 1 .. i - 1
      <3>1. b.map[l] \in Places(b.m.nodes) /\ Placed(index, reverse, Key(new[l]), b.map[l])
        BY <2>2 DEF Grown
      <3>2. Placed(Put(index, key, n), reverse, Key(new[l]), b.map[l])
        BY <1>4, <3>1, PlaceStays
      <3> QED BY <1>3, <1>7, <1>8, <2>2, <3>1, <3>2
    <2> QED BY <1>1, <2>1, <2>2
  <1>16. /\ Len(acc.m.nodes) <= Len(c.m.nodes)
         /\ \A p \in Places(acc.m.nodes) : c.m.nodes[p] = acc.m.nodes[p]
    <2>1. /\ Len(acc.m.nodes) <= Len(b.m.nodes)
          /\ \A p \in Places(acc.m.nodes) : b.m.nodes[p] = acc.m.nodes[p]
      BY DEF Grown
    <2>2. \A p \in Places(acc.m.nodes) : p \in Places(b.m.nodes)
      BY <1>6, <2>1 DEF Places
    <2> QED BY <1>6, <1>7, <2>1, <2>2
  <1> QED BY <1>5, <1>8, <1>10, <1>12, <1>13, <1>14, <1>15, <1>16 DEF Grown

\* What MergeNodes folds.
Mergings(acc, store, j, reverse, F) ==
    F = [s \in SUBSET DOMAIN store.nodes |->
            IF s = {} THEN [acc EXCEPT !.map = <<>>]
            ELSE MergeNode(F[s \ {Max(s)}], store.nodes[Max(s)], j, reverse)]

LEMMA MergeNodeTyped ==
    ASSUME NEW acc, NEW NS, NEW RS, NEW a, NEW node, NEW j, NEW reverse,
           a \in Mergers(acc, NS), reverse \in Maps(RS, Nat), node \in NS, j \in Nat
    PROVE  MergeNode(a, node, j, reverse) \in Mergers(acc, NS)
  <1>1. CASE HasPlace(a, reverse, node)
    BY <1>1, MergeNodeFound
  <1>2. CASE ~HasPlace(a, reverse, node)
    BY <1>2, MergeNodeNew
  <1> QED BY <1>1, <1>2

MergeWalk(acc, NS, store, j, reverse, H) ==
    /\ H \in [0 .. Len(store.nodes) -> Mergers(acc, NS)]
    /\ H[0] = [acc EXCEPT !.map = <<>>]
    /\ \A m \in 1 .. Len(store.nodes) : H[m] = MergeNode(H[m - 1], store.nodes[m], j, reverse)
    /\ MergeNodes(acc, store, j, reverse) = H[Len(store.nodes)]

LEMMA MergeNodesWalk ==
    ASSUME NEW acc, NEW NS, NEW RS, NEW store, NEW j, NEW reverse,
           acc \in Mergers(acc, NS), reverse \in Maps(RS, Nat), store.nodes \in Seq(NS), j \in Nat
    PROVE  \E H : MergeWalk(acc, NS, store, j, reverse, H)
  <1> DEFINE n == Len(store.nodes)
             A == Mergers(acc, NS)
             base == [acc EXCEPT !.map = <<>>]
             D == DOMAIN store.nodes
             Step(m, h) == MergeNode(h, store.nodes[m], j, reverse)
             w == [m \in 1 .. n |-> [h \in A |-> Step(m, h)]]
  <1>1. n \in Nat
    OBVIOUS
  <1>2. D = 1 .. n /\ \A m \in 1 .. n : store.nodes[m] \in NS
    OBVIOUS
  <1>3. base \in A
    <2>1. base = [m |-> acc.m, map |-> <<>>, maps |-> acc.maps, from |-> acc.from,
                  anchors |-> acc.anchors]
      BY DEF Mergers
    <2>2. <<>> \in Seq(Nat)
      OBVIOUS
    <2> HIDE DEF base
    <2> QED BY <2>1, <2>2 DEF Mergers
  <1> HIDE DEF D, A, base
  <1>4. ASSUME NEW m \in 1 .. n, NEW h \in A PROVE w[m][h] = Step(m, h) /\ w[m][h] \in A
    <2>1. store.nodes[m] \in NS
      BY <1>2
    <2>2. MergeNode(h, store.nodes[m], j, reverse) \in A
      BY <2>1, MergeNodeTyped DEF A
    <2> QED BY <2>2
  <1> HIDE DEF n, w
  <1>5. Foldable(n, A, base, w)
    BY <1>1, <1>3, <1>4 DEF Foldable
  <1>6. PICK F : /\ FoldsOn(w, base, SUBSET (1 .. n), F)
                 /\ \A s \in SUBSET (1 .. n) : F[s] \in A
    BY <1>5, FoldedBy
  <1>7. ASSUME NEW s \in SUBSET (1 .. n), s # {}
        PROVE  Max(s) \in 1 .. n /\ Max(s) \in s
    BY <1>1, <1>7, PlacesFinite
  <1>8. Mergings(acc, store, j, reverse, F)
    <2>1. F = [s \in SUBSET (1 .. n) |-> Folding(w, base, F, s)]
      BY <1>6 DEF FoldsOn
    <2>2. \A s \in SUBSET (1 .. n) :
              Folding(w, base, F, s) = IF s = {} THEN base ELSE Step(Max(s), F[s \ {Max(s)}])
      BY <1>4, <1>6, <1>7 DEF Folding
    <2> QED BY <1>2, <2>1, <2>2 DEF Mergings, D, base
  <1>9. PICK G : /\ Mergings(acc, store, j, reverse, G)
                 /\ MergeNodes(acc, store, j, reverse) = G[D]
    <2>1. MergeNodes(acc, store, j, reverse) = (CHOOSE G : Mergings(acc, store, j, reverse, G))[D]
      BY DEF MergeNodes, FoldLeft, MapThenFoldSet, Mergings, MergeNode, D
    <2> QED BY <1>8, <2>1
  <1>10. /\ G[{}] = base
         /\ \A s \in SUBSET (1 .. n) : s # {} => G[s] = Step(Max(s), G[s \ {Max(s)}])
    <2>1. G = [s \in SUBSET D |-> IF s = {} THEN base ELSE Step(Max(s), G[s \ {Max(s)}])]
      BY <1>9 DEF Mergings, D, base
    <2>2. {} \in SUBSET D
      OBVIOUS
    <2> HIDE DEF Step
    <2> QED BY <1>2, <2>1, <2>2
  <1>11. Folded(n, A, base, w, G)
    <2>1. \A s \in SUBSET (1 .. n) :
             s # {} /\ G[s \ {Max(s)}] \in A => G[s] = w[Max(s)][G[s \ {Max(s)}]]
      BY <1>4, <1>7, <1>10
    <2> QED BY <1>10, <2>1 DEF Folded
  <1>12. PICK H : Unfolds(n, A, base, w, H) /\ H[n] = G[1 .. n]
    BY <1>5, <1>11, FoldWalk
  <1>13. H \in [0 .. n -> A] /\ H[0] = base /\ \A m \in 1 .. n : H[m] = w[m][H[m - 1]]
    BY <1>12 DEF Unfolds
  <1>14. ASSUME NEW m \in 1 .. n PROVE H[m] = Step(m, H[m - 1])
    <2>1. H[m - 1] \in A
      BY <1>1, <1>13
    <2> QED BY <1>4, <1>13, <2>1
  <1> QED BY <1>2, <1>9, <1>12, <1>13, <1>14 DEF n, A, base, MergeWalk

\* The nodes of a store, merged into what was merged before.
LEMMA MergeNodesGrow ==
    ASSUME NEW acc, NEW NS, NEW RS, NEW store, NEW j, NEW reverse,
           acc \in Mergers(acc, NS), reverse \in Maps(RS, Nat), store.nodes \in Seq(NS), j \in Nat,
           Indexed(acc.m.nodes, acc.m.keyIndex), DOMAIN acc.from = DOMAIN acc.m.keyIndex,
           Reversed(acc.m.keyIndex, reverse)
    PROVE  /\ MergeNodes(acc, store, j, reverse) \in Mergers(acc, NS)
           /\ Grown(acc, reverse, store.nodes, j, MergeNodes(acc, store, j, reverse),
                    Len(store.nodes))
  <1> DEFINE n == Len(store.nodes)
             new == store.nodes
             b == MergeNodes(acc, store, j, reverse)
  <1>1. n \in Nat /\ Places(new) = 1 .. n /\ \A m \in 1 .. n : new[m] \in NS
    BY DEF Places
  <1>0. PICK H : MergeWalk(acc, NS, store, j, reverse, H)
    BY MergeNodesWalk
  <1>2. /\ H \in [0 .. n -> Mergers(acc, NS)]
        /\ H[0] = [acc EXCEPT !.map = <<>>]
        /\ \A m \in 1 .. n : H[m] = MergeNode(H[m - 1], new[m], j, reverse)
        /\ b = H[n]
    BY <1>0 DEF MergeWalk
  <1> DEFINE Q == {m \in 0 .. n : Grown(acc, reverse, new, j, H[m], m)}
  <1>3. 0 \in Q
    <2>1. H[0].m = acc.m /\ H[0].map = <<>> /\ H[0].from = acc.from
      BY <1>2 DEF Mergers
    <2>2. Len(acc.m.nodes) \in Nat /\ 0 \in 0 .. n /\ 1 .. 0 = {} /\ Len(<<>>) = 0
      BY <1>1 DEF Mergers
    <2>3. Grown(acc, reverse, new, j, H[0], 0)
      BY <2>1, <2>2 DEF Grown, Extends
    <2> QED BY <2>2, <2>3
  <1>4. \A r \in DOMAIN reverse : ~Relaxable(r)
    <2>1. \A x \in DOMAIN acc.m.keyIndex : x \in KeysOf(NS)
      BY MapsAre DEF Mergers
    <2> QED BY <2>1, RelaxedKey DEF Reversed
  <1>5. ASSUME NEW m \in 1 .. n, m - 1 \in Q PROVE m \in Q
    <2>1. m \in 0 .. n /\ H[m - 1] \in Mergers(acc, NS) /\ m \in Places(new) /\ new[m] \in NS
      BY <1>1, <1>2, <1>5
    <2>2. Grown(acc, reverse, new, j, H[m - 1], m - 1)
      BY <1>5
    <2>3. CASE HasPlace(H[m - 1], reverse, new[m])
      <3>1. PICK p \in Nat : /\ Place(H[m - 1].m.keyIndex, reverse, Key(new[m])) = {p}
                             /\ FoundAt(H[m - 1], MergeNode(H[m - 1], new[m], j, reverse), p)
        BY <2>1, <2>3, MergeNodeFound
      <3>2. FoundAt(H[m - 1], H[m], p)
        BY <1>2, <3>1
      <3>3. Grown(acc, reverse, new, j, H[m], m)
        BY <1>1, <2>1, <2>2, <3>1, <3>2, GrownFound
      <3> QED BY <2>1, <3>3
    <2>4. CASE ~HasPlace(H[m - 1], reverse, new[m])
      <3>1. AddedNew(H[m - 1], MergeNode(H[m - 1], new[m], j, reverse), new[m], j)
        BY <2>1, <2>4, MergeNodeNew
      <3>2. AddedNew(H[m - 1], H[m], new[m], j)
        BY <1>2, <3>1
      <3>3. acc.m.nodes \in Seq(NS) /\ Place(H[m - 1].m.keyIndex, reverse, Key(new[m])) = {}
        BY <2>4 DEF Mergers, HasPlace
      <3>4. Grown(acc, reverse, new, j, H[m], m)
        BY <1>4, <2>1, <2>2, <3>2, <3>3, GrownNew
      <3> QED BY <2>1, <3>4
    <2> QED BY <2>3, <2>4
  <1>6. n \in Q
    <2> HIDE DEF Q, n
    <2>1. \A m \in 0 .. n : m \in Q
      BY <1>1, <1>3, <1>5, WalkInduction
    <2> QED BY <1>1, <2>1
  <1>7. Grown(acc, reverse, new, j, b, n) /\ b \in Mergers(acc, NS)
    BY <1>1, <1>2, <1>6
  <1> QED BY <1>7

-----------------------------------------------------------------------------
(* The edges of one more store. *)

\* Edges which say the same, but for their modes.
SameEdge(x, y) == x.from = y.from /\ x.to = y.to /\ x.tag = y.tag /\ x.column = y.column

AllPlain(edges) == \A k \in Places(edges) : Plain(edges[k].tag, edges[k])

\* u has the edges there were, and no other modes get lost.
Gathered(edges, u) ==
    /\ \A x \in Places(u) : \E k \in Places(edges) : SameEdge(u[x], edges[k])
    /\ \A k \in Places(edges) : \E x \in Places(u) :
          SameEdge(u[x], edges[k]) /\ edges[k].modes \subseteq u[x].modes

LEMMA TriplesAreNoSingles ==
    ASSUME NEW a, NEW b, NEW c, NEW k PROVE <<a, b, c>> # <<k>>
  <1>1. Len(<<a, b, c>>) = 3 /\ Len(<<k>>) = 1
    OBVIOUS
  <1> QED BY <1>1

LEMMA TriplesAgree ==
    ASSUME NEW a, NEW b, NEW c, NEW x, NEW y, NEW z, <<a, b, c>> = <<x, y, z>>
    PROVE  a = x /\ b = y
  OBVIOUS

LEMMA SinglesAgree ==
    ASSUME NEW k, NEW l, <<k>> = <<l>> PROVE k = l
  OBVIOUS

LEMMA AccessesMerged ==
    ASSUME NEW edges, edges \in Seq(Edges(Nat)), AllPlain(edges)
    PROVE  /\ MergeAccesses(edges) \in Seq(Edges(Nat)) /\ AllPlain(MergeAccesses(edges))
           /\ Gathered(edges, MergeAccesses(edges))
  <1> DEFINE sort == [k \in Places(edges) |->
                        IF edges[k].tag = "access"
                        THEN <<edges[k].from, edges[k].to, edges[k].flow>> ELSE <<k>>]
             u == MergeAccesses(edges)
  <1>1. u = Unite(edges, sort)
    BY DEF MergeAccesses
  <1>2. ASSUME NEW k \in Places(edges), NEW l \in Places(edges), sort[k] = sort[l]
        PROVE  k = l \/ /\ edges[k].tag = "access" /\ edges[l].tag = "access"
                        /\ edges[k].from = edges[l].from /\ edges[k].to = edges[l].to
    <2>1. CASE edges[k].tag = "access" /\ edges[l].tag = "access"
      BY <1>2, <2>1, TriplesAgree
    <2>2. CASE edges[k].tag = "access" /\ edges[l].tag # "access"
      BY <1>2, <2>2, TriplesAreNoSingles
    <2>3. CASE edges[k].tag # "access" /\ edges[l].tag = "access"
      BY <1>2, <2>3, TriplesAreNoSingles
    <2>4. CASE edges[k].tag # "access" /\ edges[l].tag # "access"
      BY <1>2, <2>4, SinglesAgree
    <2> QED BY <2>1, <2>2, <2>3, <2>4
  <1> HIDE DEF sort, u
  <1>3. u \in Seq(Edges(Nat)) /\ \E src : UnitedBy(edges, sort, u, src)
    BY <1>1, UniteIs
  <1>4. PICK src : UnitedBy(edges, sort, u, src)
    BY <1>3
  <1>5. \A x \in Places(u) : src[x] \in Places(edges) /\ u[x] = United(edges, sort, src[x])
    BY <1>4 DEF UnitedBy
  <1>6. ASSUME NEW x \in Places(u)
        PROVE  SameEdge(u[x], edges[src[x]]) /\ u[x].modes = AllModes(edges, sort, src[x])
    BY <1>5, UnitedIs DEF SameEdge
  <1>7. ASSUME NEW k \in Places(edges), NEW l \in Places(edges), sort[k] = sort[l]
        PROVE  SameEdge(edges[k], edges[l])
    <2>1. CASE k = l
      BY <2>1 DEF SameEdge
    <2>2. CASE /\ edges[k].tag = "access" /\ edges[l].tag = "access"
               /\ edges[k].from = edges[l].from /\ edges[k].to = edges[l].to
      BY <2>2 DEF SameEdge, AllPlain, Plain
    <2> QED BY <1>2, <1>7, <2>1, <2>2
  <1>8. ASSUME NEW k \in Places(edges)
        PROVE  \E x \in Places(u) : SameEdge(u[x], edges[k]) /\ edges[k].modes \subseteq u[x].modes
    <2>1. PICK x \in Places(u) : sort[src[x]] = sort[k]
      BY <1>4 DEF UnitedBy
    <2>2. SameEdge(u[x], edges[src[x]]) /\ SameEdge(edges[src[x]], edges[k])
      BY <1>5, <1>6, <1>7, <2>1
    <2>3. edges[k].modes \subseteq u[x].modes
      <3>1. k \in SortOf(edges, sort, src[x])
        BY <2>1 DEF SortOf
      <3> QED BY <1>6, <3>1 DEF AllModes
    <2> QED BY <2>2, <2>3 DEF SameEdge
  <1>9. Gathered(edges, u)
    BY <1>5, <1>6, <1>8 DEF Gathered
  <1>10. ASSUME NEW x \in Places(u) PROVE Plain(u[x].tag, u[x])
    <2>1. SameEdge(u[x], edges[src[x]]) /\ src[x] \in Places(edges)
      BY <1>5, <1>6
    <2>2. u[x].tag # "access" => u[x].modes = {}
      <3>1. ASSUME u[x].tag # "access", NEW l \in SortOf(edges, sort, src[x])
            PROVE  edges[l].modes = {}
        <4>1. l = src[x]
          BY <1>2, <2>1, <3>1 DEF SortOf, SameEdge
        <4> QED BY <2>1, <3>1, <4>1 DEF SameEdge, AllPlain, Plain
      <3> QED BY <1>6, <3>1 DEF AllModes
    <2>3. u[x].tag # "anchor" => u[x].column = NoColumn
      BY <2>1 DEF SameEdge, AllPlain, Plain
    <2> QED BY <2>2, <2>3 DEF Plain
  <1> QED BY <1>3, <1>9, <1>10 DEF AllPlain, u

\* An edge, between the nodes its ends were merged to.
Moved(e, map) == Rejoined(e, map[e.from], map[e.to])

Fresh(store, anchors) == {k \in Places(store.edges) : ~Repeated(store, k, anchors)}

AnchorsOf(store) ==
    {AnchorKey(store, e) : e \in {x \in Range(store.edges) : x.tag = "anchor"}}

MovedEdges(acc, store) ==
    LET kept == Kept(Ascending(store.edges), Fresh(store, acc.anchors))
    IN  [i \in Places(kept) |-> Moved(store.edges[kept[i]], acc.map)]

LEMMA AscendingIs ==
    ASSUME NEW s, Len(s) \in Nat
    PROVE  /\ Ascending(s) \in Seq(Nat) /\ Len(Ascending(s)) = Len(s)
           /\ \A i \in Places(s) : Ascending(s)[i] = i
  <1> DEFINE a == Ascending(s)
             n == Len(s)
  <1>1. DOMAIN a = 1 .. n /\ a = [i \in 1 .. n |-> a[i]] /\ \A i \in 1 .. n : a[i] = i
    BY DEF Ascending, Places
  <1> HIDE DEF a
  <1>2. n \in Nat /\ \A i \in 1 .. n : a[i] \in Nat
    BY <1>1
  <1>3. a \in Seq(Nat) /\ Len(a) = n
    BY <1>1, <1>2, IsSequence
  <1> QED BY <1>1, <1>3 DEF a, Places

LEMMA MovedEdgesAre ==
    ASSUME NEW acc, NEW store, IsGraph(store), \A p \in Places(store.nodes) : acc.map[p] \in Nat
    PROVE  /\ MovedEdges(acc, store) \in Seq(Edges(Nat))
           /\ \A i \in Places(MovedEdges(acc, store)) : \E k \in Fresh(store, acc.anchors) :
                MovedEdges(acc, store)[i] = Moved(store.edges[k], acc.map)
           /\ \A k \in Fresh(store, acc.anchors) : \E i \in Places(MovedEdges(acc, store)) :
                MovedEdges(acc, store)[i] = Moved(store.edges[k], acc.map)
  <1> DEFINE T == Fresh(store, acc.anchors)
             up == Ascending(store.edges)
             kept == Kept(up, T)
             v == MovedEdges(acc, store)
             At(k) == Moved(store.edges[k], acc.map)
  <1>1. Len(store.edges) \in Nat /\ T \in SUBSET Places(store.edges)
    BY DEF IsGraph, Fresh
  <1>2. up \in Seq(Nat) /\ Places(up) = Places(store.edges) /\ \A k \in T : up[k] = k
    BY <1>1, AscendingIs DEF Places
  <1>3. ASSUME NEW k \in T PROVE At(k) \in Edges(Nat)
    <2>1. store.edges \in Seq(Edges(Places(store.nodes))) /\ k \in Places(store.edges)
      BY <1>1 DEF IsGraph
    <2>2. /\ store.edges[k] \in Edges(Places(store.nodes))
          /\ store.edges[k].from \in Places(store.nodes) /\ store.edges[k].to \in Places(store.nodes)
      BY <2>1, EdgesAre
    <2> QED BY <2>2, RejoinedEdge DEF Moved
  <1>4. v = [i \in Places(kept) |-> At(kept[i])]
    BY DEF MovedEdges
  <1> HIDE DEF T, up, At, v
  <1>5. /\ kept \in Seq(Nat)
        /\ \A k \in T : Rank(T, k) \in Places(kept) /\ kept[Rank(T, k)] = up[k]
        /\ \A i \in Places(kept) : \E k \in T : kept[i] = up[k]
    <2>1. T \in SUBSET Places(up)
      BY <1>1, <1>2
    <2> QED BY <1>2, <2>1, KeptIs
  <1> HIDE DEF kept
  <1>6. \A i \in Places(kept) : kept[i] \in T
    BY <1>2, <1>5
  <1>7. v \in Seq(Edges(Nat)) /\ Len(v) = Len(kept)
    <2>1. DOMAIN v = 1 .. Len(kept) /\ v = [i \in 1 .. Len(kept) |-> v[i]]
      BY <1>4 DEF Places
    <2>2. Len(kept) \in Nat /\ \A i \in 1 .. Len(kept) : v[i] \in Edges(Nat)
      BY <1>3, <1>4, <1>5, <1>6 DEF Places
    <2> QED BY <2>1, <2>2, IsSequence
  <1>8. Places(v) = Places(kept) /\ \A i \in Places(v) : v[i] = At(kept[i])
    BY <1>4, <1>7 DEF Places
  <1>9. ASSUME NEW k \in T PROVE \E i \in Places(v) : v[i] = At(k)
    <2>1. PICK i \in Places(v) : kept[i] = k
      BY <1>2, <1>5, <1>8
    <2>2. v[i] = At(k)
      BY <1>8, <2>1
    <2> QED BY <2>2
  <1>10. \A i \in Places(v) : \E k \in T : v[i] = At(k)
    BY <1>6, <1>8
  <1> QED BY <1>7, <1>9, <1>10 DEF T, v, At

LEMMA MergeEdgesIs ==
    ASSUME NEW acc, NEW store
    PROVE  MergeEdges(acc, store) =
              [acc EXCEPT !.m.edges = @ \o MovedEdges(acc, store), !.anchors = @ \cup AnchorsOf(store)]
  BY DEF MergeEdges, MovedEdges, AnchorsOf, Fresh, Moved, Rejoined

-----------------------------------------------------------------------------
(* One more store. *)

Blank == FromGraph([nodes |-> <<>>, edges |-> <<>>])

\* What is merged of stores with nodes among NS, files among FS and anchors among AS.
Accs(NS, FS, AS) ==
    [m : [nodes : Seq(NS), edges : Seq(Edges(Nat)), keyIndex : Maps(KeysOf(NS), Nat),
          names : {Blank.names}, summaries : {Blank.summaries},
          categories : {Blank.categories}, prints : {Blank.prints},
          fileNodes : SUBSET FS, params : {Blank.params}],
     map : Seq(Nat), maps : Seq(Seq(Nat)), from : Maps(KeysOf(NS), Nat), anchors : SUBSET AS]

\* x says of merged nodes what e says of those they were merged from.
Carries(x, map, e) ==
    x.from = map[e.from] /\ x.to = map[e.to] /\ x.tag = e.tag /\ x.column = e.column

EdgesMerged(acc, store, b) ==
    /\ \A x \in Places(b.m.edges) :
          \/ \E y \in Places(acc.m.edges) : SameEdge(b.m.edges[x], acc.m.edges[y])
          \/ \E k \in Fresh(store, acc.anchors) : Carries(b.m.edges[x], b.map, store.edges[k])
    /\ \A y \in Places(acc.m.edges) : \E x \in Places(b.m.edges) :
          /\ SameEdge(b.m.edges[x], acc.m.edges[y])
          /\ acc.m.edges[y].modes \subseteq b.m.edges[x].modes
    /\ \A k \in Fresh(store, acc.anchors) : \E x \in Places(b.m.edges) :
          /\ Carries(b.m.edges[x], b.map, store.edges[k])
          /\ store.edges[k].modes \subseteq b.m.edges[x].modes

StoreMerged(acc, store, j, b) ==
    /\ b.maps = Append(acc.maps, b.map)
    /\ b.anchors = acc.anchors \cup AnchorsOf(store)
    /\ b.m.fileNodes = acc.m.fileNodes \cup store.fileNodes
    /\ \E reverse : /\ Reversed(acc.m.keyIndex, reverse)
                    /\ Grown(acc, reverse, store.nodes, j, b, Len(store.nodes))
    /\ AllPlain(b.m.edges)
    /\ EdgesMerged(acc, store, b)

LEMMA MovedCarries ==
    ASSUME NEW N, NEW e, NEW map, e \in Edges(N)
    PROVE  Carries(Moved(e, map), map, e) /\ Moved(e, map).modes = e.modes
  <1>1. Alike(Moved(e, map), e) /\ Moved(e, map).from = map[e.from] /\ Moved(e, map).to = map[e.to]
    BY RejoinedAlike, RejoinedEdgeFrom, RejoinedEdgeTo DEF Moved
  <1> QED BY <1>1 DEF Carries, Alike

LEMMA GrownSame ==
    ASSUME NEW acc, NEW reverse, NEW new, NEW j, NEW b, NEW c, NEW i,
           Grown(acc, reverse, new, j, b, i), c.m.nodes = b.m.nodes, c.m.keyIndex = b.m.keyIndex,
           c.map = b.map, c.from = b.from
    PROVE  Grown(acc, reverse, new, j, c, i)
  BY DEF Grown

LEMMA MergeStoreIs ==
    ASSUME NEW acc, NEW NS, NEW FS, NEW AS, NEW store, NEW j, NEW prefer,
           acc \in Accs(NS, FS, AS), j \in Nat, IsGraph(store), store.nodes \in Seq(NS),
           store.fileNodes \subseteq FS, AnchorsOf(store) \subseteq AS,
           Indexed(acc.m.nodes, acc.m.keyIndex), DOMAIN acc.from = DOMAIN acc.m.keyIndex,
           AllPlain(acc.m.edges)
    PROVE  /\ MergeStore(acc, store, j, prefer) \in Accs(NS, FS, AS)
           /\ StoreMerged(acc, store, j, MergeStore(acc, store, j, prefer))
  <1> DEFINE reverse == RelaxedReverse(acc.m.keyIndex, prefer)
             noded == MergeNodes(acc, store, j, reverse)
             edged == MergeEdges(noded, store)
             v == MovedEdges(noded, store)
             all == noded.m.edges \o v
             u == MergeAccesses(all)
             anchors == noded.anchors \cup AnchorsOf(store)
             fileNodes == noded.m.fileNodes \cup store.fileNodes
             maps == Append(noded.maps, noded.map)
             b == MergeStore(acc, store, j, prefer)
  <1>1. acc \in Mergers(acc, NS)
    <2>1. acc = [m |-> acc.m, map |-> acc.map, maps |-> acc.maps, from |-> acc.from,
                 anchors |-> acc.anchors]
          /\ acc.map \in Seq(Nat) /\ acc.from \in Maps(KeysOf(NS), Nat)
      BY DEF Accs
    <2>2. HasFields(acc.m) /\ acc.m.nodes \in Seq(NS) /\ acc.m.keyIndex \in Maps(KeysOf(NS), Nat)
      BY DEF Accs, HasFields
    <2>3. acc.m \in [nodes : Seq(NS), edges : {acc.m.edges}, keyIndex : Maps(KeysOf(NS), Nat),
                     names : {acc.m.names}, summaries : {acc.m.summaries},
                     categories : {acc.m.categories}, prints : {acc.m.prints},
                     fileNodes : {acc.m.fileNodes}, params : {acc.m.params}]
      BY <2>2 DEF HasFields
    <2> QED BY <2>1, <2>3 DEF Mergers
  <1>2. /\ reverse \in Maps({Relaxed(k) : k \in KeysOf(NS)}, Nat)
        /\ Reversed(acc.m.keyIndex, reverse)
    <2>1. acc.m.keyIndex \in Maps(KeysOf(NS), Nat)
      BY DEF Accs
    <2> QED BY <2>1, ReverseTyped
  <1> HIDE DEF reverse
  <1>3. /\ noded \in Mergers(acc, NS)
        /\ Grown(acc, reverse, store.nodes, j, noded, Len(store.nodes))
    BY <1>1, <1>2, MergeNodesGrow
  <1> HIDE DEF noded
  <1>4. /\ noded = [m |-> noded.m, map |-> noded.map, maps |-> noded.maps, from |-> noded.from,
                    anchors |-> noded.anchors]
        /\ HasFields(noded.m)
        /\ noded.m.nodes \in Seq(NS) /\ noded.m.keyIndex \in Maps(KeysOf(NS), Nat)
        /\ noded.map \in Seq(Nat) /\ noded.from \in Maps(KeysOf(NS), Nat)
        /\ noded.maps = acc.maps /\ noded.anchors = acc.anchors
    BY <1>3 DEF Mergers, HasFields
  <1>5. /\ noded.m.edges = acc.m.edges /\ noded.m.names = acc.m.names
        /\ noded.m.summaries = acc.m.summaries /\ noded.m.categories = acc.m.categories
        /\ noded.m.prints = acc.m.prints /\ noded.m.fileNodes = acc.m.fileNodes
        /\ noded.m.params = acc.m.params
    BY <1>3 DEF Mergers
  <1>6. /\ acc.m.edges \in Seq(Edges(Nat)) /\ acc.m.names = Blank.names
        /\ acc.m.summaries = Blank.summaries /\ acc.m.categories = Blank.categories
        /\ acc.m.prints = Blank.prints /\ acc.m.fileNodes \in SUBSET FS
        /\ acc.m.params = Blank.params
        /\ acc.maps \in Seq(Seq(Nat)) /\ acc.anchors \in SUBSET AS
    BY DEF Accs
  <1>7. /\ v \in Seq(Edges(Nat))
        /\ \A i \in Places(v) : \E k \in Fresh(store, acc.anchors) :
              v[i] = Moved(store.edges[k], noded.map)
        /\ \A k \in Fresh(store, acc.anchors) : \E i \in Places(v) :
              v[i] = Moved(store.edges[k], noded.map)
    <2>1. \A p \in Places(store.nodes) : noded.map[p] \in Nat
      <3>1. Places(store.nodes) = 1 .. Len(noded.map)
        BY <1>3 DEF Grown, Places
      <3>2. noded.map \in Seq(Nat)
        BY <1>4
      <3>3. \A p \in 1 .. Len(noded.map) : noded.map[p] \in Nat
        BY <3>2
      <3> QED BY <3>1, <3>3, Zenon
    <2>2. /\ v \in Seq(Edges(Nat))
          /\ \A i \in Places(v) : \E k \in Fresh(store, noded.anchors) :
                v[i] = Moved(store.edges[k], noded.map)
          /\ \A k \in Fresh(store, noded.anchors) : \E i \in Places(v) :
                v[i] = Moved(store.edges[k], noded.map)
      BY <2>1, MovedEdgesAre
    <2>3. noded.anchors = acc.anchors
      BY <1>4
    <2> HIDE DEF v
    <2> QED BY <2>2, <2>3
  <1>8. all \in Seq(Edges(Nat)) /\ Concatenated(all, acc.m.edges, v)
    BY <1>5, <1>6, <1>7, ConcatIs
  <1>9. ASSUME NEW k \in Places(store.edges)
        PROVE  /\ Carries(Moved(store.edges[k], noded.map), noded.map, store.edges[k])
               /\ Moved(store.edges[k], noded.map).modes = store.edges[k].modes
               /\ Plain(store.edges[k].tag, store.edges[k])
    <2>1. store.edges \in Seq(Edges(Places(store.nodes)))
      BY DEF IsGraph
    <2>2. store.edges[k] \in Edges(Places(store.nodes)) /\ store.edges[k] \in Range(store.edges)
      BY <2>1, EdgesAre, RangeIs
    <2> QED BY <2>2, MovedCarries DEF IsGraph
  <1> HIDE DEF v, all, u
  <1>10. AllPlain(all)
    <2>1. ASSUME NEW x \in Places(all), NEW l \in Places(acc.m.edges), all[x] = acc.m.edges[l]
          PROVE  Plain(all[x].tag, all[x])
      BY <2>1 DEF AllPlain
    <2>2. ASSUME NEW x \in Places(all), NEW l \in Places(v), all[x] = v[l]
          PROVE  Plain(all[x].tag, all[x])
      <3>1. PICK k \in Fresh(store, acc.anchors) : v[l] = Moved(store.edges[k], noded.map)
        BY <1>7
      <3>2. k \in Places(store.edges)
        BY DEF Fresh
      <3> QED BY <1>9, <2>2, <3>1, <3>2 DEF Carries, Plain
    <2> QED BY <1>8, <2>1, <2>2 DEF Concatenated, AllPlain
  <1>11. u \in Seq(Edges(Nat)) /\ AllPlain(u) /\ Gathered(all, u)
    BY <1>8, <1>10, AccessesMerged DEF u
  <1>12. edged = [noded EXCEPT !.m.edges = all, !.anchors = anchors]
    BY MergeEdgesIs DEF all, v
  <1>13. b = [edged EXCEPT !.m.edges = MergeAccesses(@), !.m.fileNodes = @ \cup store.fileNodes,
                           !.maps = Append(@, edged.map)]
    BY DEF MergeStore, noded, reverse
  <1> DEFINE m0 == [nodes |-> noded.m.nodes, edges |-> all, keyIndex |-> noded.m.keyIndex,
                    names |-> noded.m.names, summaries |-> noded.m.summaries,
                    categories |-> noded.m.categories, prints |-> noded.m.prints,
                    fileNodes |-> noded.m.fileNodes, params |-> noded.m.params]
             m == [nodes |-> noded.m.nodes, edges |-> u, keyIndex |-> noded.m.keyIndex,
                   names |-> noded.m.names, summaries |-> noded.m.summaries,
                   categories |-> noded.m.categories, prints |-> noded.m.prints,
                   fileNodes |-> fileNodes, params |-> noded.m.params]
  <1> HIDE DEF edged, b, anchors, fileNodes, maps
  <1>14. edged = [m |-> m0, map |-> noded.map, maps |-> noded.maps, from |-> noded.from,
                  anchors |-> anchors]
    <2> DEFINE r == [noded.m EXCEPT !.edges = all]
    <2>1. edged = [m |-> r, map |-> noded.map, maps |-> noded.maps, from |-> noded.from,
                   anchors |-> anchors]
      BY <1>4, <1>12
    <2>2. r = m0
      BY <1>4 DEF HasFields
    <2> HIDE DEF r, m0
    <2> QED BY <2>1, <2>2
  <1>15. edged.m = m0 /\ m0.edges = all /\ m0.fileNodes = noded.m.fileNodes
         /\ edged.map = noded.map /\ edged.maps = noded.maps
    BY <1>14
  <1>16. b = [m |-> m, map |-> noded.map, maps |-> maps, from |-> noded.from, anchors |-> anchors]
    <2> DEFINE r == [m0 EXCEPT !.edges = u]
               t == [r EXCEPT !.fileNodes = fileNodes]
    <2>1. b = [edged EXCEPT !.m.edges = u, !.m.fileNodes = fileNodes, !.maps = maps]
      <3>1. u = MergeAccesses(edged.m.edges) /\ maps = Append(edged.maps, edged.map)
            /\ fileNodes = edged.m.fileNodes \cup store.fileNodes
        BY <1>15 DEF u, maps, fileNodes
      <3> HIDE DEF m0
      <3> QED BY <1>13, <3>1
    <2>2. r = [m0 EXCEPT !.edges = u] /\ t = [r EXCEPT !.fileNodes = fileNodes]
      OBVIOUS
    <2>3. b = [m |-> t, map |-> noded.map, maps |-> maps, from |-> noded.from, anchors |-> anchors]
      <3> HIDE DEF m0
      <3> QED BY <1>14, <2>1
    <2> HIDE DEF r, t
    <2>4. r = [nodes |-> noded.m.nodes, edges |-> u, keyIndex |-> noded.m.keyIndex,
               names |-> noded.m.names, summaries |-> noded.m.summaries,
               categories |-> noded.m.categories, prints |-> noded.m.prints,
               fileNodes |-> noded.m.fileNodes, params |-> noded.m.params]
      BY <2>2
    <2>5. t = m
      BY <2>2, <2>4
    <2> HIDE DEF m
    <2> QED BY <2>3, <2>5
  <1>17. b.m = m /\ b.map = noded.map /\ b.maps = maps /\ b.from = noded.from /\ b.anchors = anchors
    BY <1>16
  <1>18. /\ b.m.nodes = noded.m.nodes /\ b.m.edges = u /\ b.m.keyIndex = noded.m.keyIndex
         /\ b.m.fileNodes = fileNodes
    BY <1>17
  <1>19. b \in Accs(NS, FS, AS)
    <2>1. maps \in Seq(Seq(Nat)) /\ anchors \in SUBSET AS /\ fileNodes \in SUBSET FS
      BY <1>4, <1>5, <1>6, AppendTyped DEF maps, anchors, fileNodes
    <2>2. m \in [nodes : Seq(NS), edges : Seq(Edges(Nat)), keyIndex : Maps(KeysOf(NS), Nat),
                 names : {Blank.names}, summaries : {Blank.summaries},
                 categories : {Blank.categories}, prints : {Blank.prints},
                 fileNodes : SUBSET FS, params : {Blank.params}]
      BY <1>4, <1>5, <1>6, <1>11, <2>1
    <2> HIDE DEF m
    <2> QED BY <1>4, <1>16, <2>1, <2>2 DEF Accs
  <1>20. Grown(acc, reverse, store.nodes, j, b, Len(store.nodes))
    BY <1>3, <1>17, <1>18, GrownSame
  <1>21. EdgesMerged(acc, store, b)
    <2>1. ASSUME NEW x \in Places(u)
          PROVE  \/ \E y \in Places(acc.m.edges) : SameEdge(u[x], acc.m.edges[y])
                 \/ \E k \in Fresh(store, acc.anchors) : Carries(u[x], noded.map, store.edges[k])
      <3>1. PICK z \in Places(all) : SameEdge(u[x], all[z])
        BY <1>11 DEF Gathered
      <3>2. ASSUME NEW y \in Places(acc.m.edges), all[z] = acc.m.edges[y]
            PROVE  SameEdge(u[x], acc.m.edges[y])
        BY <3>1, <3>2
      <3>3. ASSUME NEW l \in Places(v), all[z] = v[l]
            PROVE  \E k \in Fresh(store, acc.anchors) : Carries(u[x], noded.map, store.edges[k])
        <4>1. PICK k \in Fresh(store, acc.anchors) : v[l] = Moved(store.edges[k], noded.map)
          BY <1>7
        <4>2. Carries(all[z], noded.map, store.edges[k])
          BY <1>9, <3>3, <4>1 DEF Fresh
        <4>3. Carries(u[x], noded.map, store.edges[k])
          BY <3>1, <4>2 DEF SameEdge, Carries
        <4> QED BY <4>3
      <3> QED BY <1>8, <3>2, <3>3 DEF Concatenated
    <2>2. ASSUME NEW y \in Places(acc.m.edges)
          PROVE  \E x \in Places(u) : /\ SameEdge(u[x], acc.m.edges[y])
                                      /\ acc.m.edges[y].modes \subseteq u[x].modes
      <3>1. PICK z \in Places(all) : all[z] = acc.m.edges[y]
        BY <1>8 DEF Concatenated
      <3>2. \E x \in Places(u) : SameEdge(u[x], all[z]) /\ all[z].modes \subseteq u[x].modes
        BY <1>11 DEF Gathered
      <3> QED BY <3>1, <3>2
    <2>3. ASSUME NEW k \in Fresh(store, acc.anchors)
          PROVE  \E x \in Places(u) : /\ Carries(u[x], noded.map, store.edges[k])
                                      /\ store.edges[k].modes \subseteq u[x].modes
      <3>1. PICK l \in Places(v) : v[l] = Moved(store.edges[k], noded.map)
        BY <1>7
      <3>2. PICK z \in Places(all) : all[z] = v[l]
        BY <1>8 DEF Concatenated
      <3>3. PICK x \in Places(u) : SameEdge(u[x], all[z]) /\ all[z].modes \subseteq u[x].modes
        BY <1>11 DEF Gathered
      <3>4. /\ Carries(all[z], noded.map, store.edges[k])
            /\ all[z].modes = store.edges[k].modes
        BY <1>9, <3>1, <3>2 DEF Fresh
      <3>5. Carries(u[x], noded.map, store.edges[k])
        BY <3>3, <3>4 DEF SameEdge, Carries
      <3> QED BY <3>3, <3>4, <3>5
    <2> QED BY <1>17, <1>18, <2>1, <2>2, <2>3 DEF EdgesMerged
  <1>22. StoreMerged(acc, store, j, b)
    <2>1. b.maps = Append(acc.maps, b.map) /\ b.anchors = acc.anchors \cup AnchorsOf(store)
      BY <1>4, <1>17 DEF maps, anchors
    <2>2. b.m.fileNodes = acc.m.fileNodes \cup store.fileNodes
      BY <1>5, <1>18 DEF fileNodes
    <2> QED BY <1>2, <1>11, <1>18, <1>20, <1>21, <2>1, <2>2 DEF StoreMerged
  <1> QED BY <1>19, <1>22 DEF b

-----------------------------------------------------------------------------
(* All stores of a merge. *)

Mergeable(stores, NS, FS, AS) ==
    /\ Len(stores) \in Nat
    /\ \A j \in Places(stores) :
          /\ IsGraph(stores[j]) /\ stores[j].nodes \in Seq(NS)
          /\ stores[j].fileNodes \subseteq FS /\ AnchorsOf(stores[j]) \subseteq AS

GoodAccs(NS, FS, AS) ==
    {a \in Accs(NS, FS, AS) : /\ Indexed(a.m.nodes, a.m.keyIndex)
                              /\ DOMAIN a.from = DOMAIN a.m.keyIndex
                              /\ AllPlain(a.m.edges)}

Nothing == [m |-> Blank, map |-> <<>>, maps |-> <<>>, from |-> <<>>, anchors |-> {}]

LEMMA BlankIs ==
    /\ Blank.nodes = <<>> /\ Blank.edges = <<>> /\ Blank.fileNodes = {}
    /\ DOMAIN Blank.keyIndex = {} /\ \A K, V : Blank.keyIndex \in Maps(K, V)
    /\ HasFields(Blank)
  <1> DEFINE g == [nodes |-> <<>>, edges |-> <<>>]
  <1>1. /\ Blank.nodes = <<>> /\ Blank.edges = <<>> /\ Blank.keyIndex = KeyIndex(g)
        /\ Blank.fileNodes = FileNodes(g) /\ HasFields(Blank)
    BY DEF Blank, FromGraph, HasFields
  <1>2. Places(g.nodes) = {} /\ Places(g.edges) = {}
    BY DEF Places
  <1> HIDE DEF g
  <1>3. FileNodes(g) = {} /\ Keys(g) = {}
    BY <1>2 DEF FileNodes, Keys
  <1>4. DOMAIN KeyIndex(g) = {} /\ KeyIndex(g) = [k \in {} |-> KeyIndex(g)[k]]
    BY <1>3 DEF KeyIndex
  <1>5. \A K, V : KeyIndex(g) \in Maps(K, V)
    BY <1>4, MapsAre
  <1> QED BY <1>1, <1>3, <1>4, <1>5 DEF g

LEMMA NothingIsGood ==
    ASSUME NEW NS, NEW FS, NEW AS
    PROVE  Nothing \in GoodAccs(NS, FS, AS)
  <1>1. /\ Blank.nodes = <<>> /\ Blank.edges = <<>> /\ Blank.fileNodes = {}
        /\ DOMAIN Blank.keyIndex = {} /\ Blank.keyIndex \in Maps(KeysOf(NS), Nat)
        /\ HasFields(Blank)
    BY BlankIs
  <1>2. <<>> \in Seq(NS) /\ <<>> \in Seq(Edges(Nat)) /\ <<>> \in Seq(Nat) /\ <<>> \in Seq(Seq(Nat))
    OBVIOUS
  <1>3. <<>> \in Maps(KeysOf(NS), Nat) /\ DOMAIN <<>> = {}
    BY EmptyMap
  <1>4. Blank \in [nodes : Seq(NS), edges : Seq(Edges(Nat)), keyIndex : Maps(KeysOf(NS), Nat),
                   names : {Blank.names}, summaries : {Blank.summaries},
                   categories : {Blank.categories}, prints : {Blank.prints},
                   fileNodes : SUBSET FS, params : {Blank.params}]
    BY <1>1, <1>2 DEF HasFields
  <1>5. Nothing \in Accs(NS, FS, AS)
    BY <1>2, <1>3, <1>4 DEF Nothing, Accs
  <1>6. /\ Nothing.m.nodes = <<>> /\ Nothing.m.edges = <<>> /\ DOMAIN Nothing.m.keyIndex = {}
        /\ DOMAIN Nothing.from = {}
    BY <1>1, <1>3 DEF Nothing
  <1>7. Places(<<>>) = {}
    BY DEF Places
  <1>8. Indexed(Nothing.m.nodes, Nothing.m.keyIndex) /\ AllPlain(Nothing.m.edges)
    BY <1>6, <1>7 DEF Indexed, AllPlain
  <1> QED BY <1>5, <1>6, <1>8 DEF GoodAccs

LEMMA MergeStoreGood ==
    ASSUME NEW acc, NEW NS, NEW FS, NEW AS, NEW stores, NEW j, NEW prefer,
           acc \in GoodAccs(NS, FS, AS), Mergeable(stores, NS, FS, AS), j \in Places(stores)
    PROVE  /\ MergeStore(acc, stores[j], j, prefer) \in GoodAccs(NS, FS, AS)
           /\ StoreMerged(acc, stores[j], j, MergeStore(acc, stores[j], j, prefer))
  <1> DEFINE b == MergeStore(acc, stores[j], j, prefer)
  <1>1. /\ acc \in Accs(NS, FS, AS) /\ Indexed(acc.m.nodes, acc.m.keyIndex)
        /\ DOMAIN acc.from = DOMAIN acc.m.keyIndex /\ AllPlain(acc.m.edges)
    BY DEF GoodAccs
  <1>2. /\ j \in Nat /\ IsGraph(stores[j]) /\ stores[j].nodes \in Seq(NS)
        /\ stores[j].fileNodes \subseteq FS /\ AnchorsOf(stores[j]) \subseteq AS
    BY DEF Mergeable, Places
  <1>3. b \in Accs(NS, FS, AS) /\ StoreMerged(acc, stores[j], j, b)
    BY <1>1, <1>2, MergeStoreIs
  <1> HIDE DEF b
  <1>4. /\ Indexed(b.m.nodes, b.m.keyIndex) /\ DOMAIN b.from = DOMAIN b.m.keyIndex
        /\ AllPlain(b.m.edges)
    BY <1>3 DEF StoreMerged, Grown
  <1>5. b \in GoodAccs(NS, FS, AS)
    BY <1>3, <1>4 DEF GoodAccs
  <1> QED BY <1>3, <1>5 DEF b

\* What Merge folds.
StoreMergings(stores, prefer, F) ==
    F = [s \in SUBSET DOMAIN Ascending(stores) |->
            IF s = {} THEN Nothing
            ELSE MergeStore(F[s \ {Max(s)}], stores[Ascending(stores)[Max(s)]],
                            Ascending(stores)[Max(s)], prefer)]

StoreWalk(stores, NS, FS, AS, prefer, H) ==
    /\ H \in [0 .. Len(stores) -> GoodAccs(NS, FS, AS)]
    /\ H[0] = Nothing
    /\ \A m \in 1 .. Len(stores) : H[m] = MergeStore(H[m - 1], stores[m], m, prefer)

\* What a merge makes of the stores merged.
Finished(stores, a) == RebuildSecondary([a.m EXCEPT !.params = ParamsOf(stores, a.from)])

LEMMA MergeStoresWalk ==
    ASSUME NEW stores, NEW NS, NEW FS, NEW AS, NEW prefer, Mergeable(stores, NS, FS, AS)
    PROVE  \E H : /\ StoreWalk(stores, NS, FS, AS, prefer, H)
                  /\ Merge(stores, prefer).store = Finished(stores, H[Len(stores)])
                  /\ Merge(stores, prefer).maps = H[Len(stores)].maps
  <1> DEFINE n == Len(stores)
             A == GoodAccs(NS, FS, AS)
             At(m) == Ascending(stores)[m]
             D == DOMAIN Ascending(stores)
             Step(m, h) == MergeStore(h, stores[At(m)], At(m), prefer)
             w == [m \in 1 .. n |-> [h \in A |-> Step(m, h)]]
  <1>1. n \in Nat
    BY DEF Mergeable
  <1>2. D = 1 .. n /\ \A m \in 1 .. n : At(m) = m /\ At(m) \in Places(stores)
    BY <1>1 DEF Ascending, Places
  <1>3. Nothing \in A
    BY NothingIsGood
  <1> HIDE DEF At, D, A
  <1>4. ASSUME NEW m \in 1 .. n, NEW h \in A PROVE w[m][h] = Step(m, h) /\ w[m][h] \in A
    <2>1. At(m) \in Places(stores)
      BY <1>2
    <2>2. MergeStore(h, stores[At(m)], At(m), prefer) \in A
      BY <2>1, MergeStoreGood DEF A
    <2> QED BY <2>2
  <1> HIDE DEF n, w
  <1>5. Foldable(n, A, Nothing, w)
    BY <1>1, <1>3, <1>4 DEF Foldable
  <1>6. PICK F : /\ FoldsOn(w, Nothing, SUBSET (1 .. n), F)
                 /\ \A s \in SUBSET (1 .. n) : F[s] \in A
    BY <1>5, FoldedBy
  <1>7. ASSUME NEW s \in SUBSET (1 .. n), s # {}
        PROVE  Max(s) \in 1 .. n /\ Max(s) \in s
    BY <1>1, <1>7, PlacesFinite
  <1>8. StoreMergings(stores, prefer, F)
    <2>1. F = [s \in SUBSET (1 .. n) |-> Folding(w, Nothing, F, s)]
      BY <1>6 DEF FoldsOn
    <2>2. \A s \in SUBSET (1 .. n) :
              Folding(w, Nothing, F, s) =
                  IF s = {} THEN Nothing ELSE Step(Max(s), F[s \ {Max(s)}])
      BY <1>4, <1>6, <1>7 DEF Folding
    <2> QED BY <1>2, <2>1, <2>2 DEF StoreMergings, At, D
  <1>9. PICK G : /\ StoreMergings(stores, prefer, G)
                 /\ Merge(stores, prefer) = [store |-> Finished(stores, G[D]), maps |-> G[D].maps]
    <2>1. Merge(stores, prefer) =
              [store |-> Finished(stores, (CHOOSE G : StoreMergings(stores, prefer, G))[D]),
               maps  |-> (CHOOSE G : StoreMergings(stores, prefer, G))[D].maps]
      BY DEF Merge, FoldLeft, MapThenFoldSet, StoreMergings, Finished, Nothing, Blank, D
    <2> QED BY <1>8, <2>1
  <1>10. /\ G[{}] = Nothing
         /\ \A s \in SUBSET (1 .. n) : s # {} => G[s] = Step(Max(s), G[s \ {Max(s)}])
    <2>1. G = [s \in SUBSET D |-> IF s = {} THEN Nothing ELSE Step(Max(s), G[s \ {Max(s)}])]
      BY <1>9 DEF StoreMergings, At, D
    <2>2. {} \in SUBSET D
      OBVIOUS
    <2> HIDE DEF Step
    <2> QED BY <1>2, <2>1, <2>2
  <1>11. Folded(n, A, Nothing, w, G)
    <2>1. \A s \in SUBSET (1 .. n) :
             s # {} /\ G[s \ {Max(s)}] \in A => G[s] = w[Max(s)][G[s \ {Max(s)}]]
      BY <1>4, <1>7, <1>10
    <2> QED BY <1>10, <2>1 DEF Folded
  <1>12. PICK H : Unfolds(n, A, Nothing, w, H) /\ H[n] = G[1 .. n]
    BY <1>5, <1>11, FoldWalk
  <1>13. H \in [0 .. n -> A] /\ H[0] = Nothing /\ \A m \in 1 .. n : H[m] = w[m][H[m - 1]]
    BY <1>12 DEF Unfolds
  <1>14. ASSUME NEW m \in 1 .. n PROVE H[m] = MergeStore(H[m - 1], stores[m], m, prefer)
    <2>1. H[m - 1] \in A
      BY <1>1, <1>13
    <2>2. H[m] = Step(m, H[m - 1])
      BY <1>4, <1>13, <2>1
    <2> QED BY <1>2, <2>2
  <1>15. StoreWalk(stores, NS, FS, AS, prefer, H)
    BY <1>13, <1>14 DEF StoreWalk, n, A
  <1>16. /\ Merge(stores, prefer).store = Finished(stores, H[n])
         /\ Merge(stores, prefer).maps = H[n].maps
    BY <1>2, <1>9, <1>12
  <1> QED BY <1>15, <1>16 DEF n

\* The first edge of its sort is merged.
LEMMA FreshTriple ==
    ASSUME NEW store, NEW anchors, NEW k, Len(store.edges) \in Nat, k \in Places(store.edges),
           store.edges[k].tag # "anchor"
    PROVE  \E l \in Fresh(store, anchors) :
              Triple(store, store.edges[l]) = Triple(store, store.edges[k])
  <1> DEFINE T == {l \in Places(store.edges) :
                      Triple(store, store.edges[l]) = Triple(store, store.edges[k])}
  <1>1. T \in SUBSET Nat /\ k \in T
    BY DEF Places
  <1>2. \A l \in T : /\ l \in Places(store.edges)
                     /\ Triple(store, store.edges[l]) = Triple(store, store.edges[k])
    OBVIOUS
  <1>3. \A l \in Places(store.edges) :
            Triple(store, store.edges[l]) = Triple(store, store.edges[k]) => l \in T
    OBVIOUS
  <1> HIDE DEF T
  <1>4. Min(T) \in T /\ \A x \in T : Min(T) <= x
    BY <1>1, LeastOfNats
  <1>5. PICK l \in T : \A x \in T : l <= x
    BY <1>4
  <1>6. store.edges[l].tag = store.edges[k].tag
    BY <1>2 DEF Triple
  <1>7. ~Repeated(store, l, anchors)
    <2>1. ASSUME NEW x \in 1 .. l - 1,
                 Triple(store, store.edges[x]) = Triple(store, store.edges[l])
          PROVE  FALSE
      <3>1. x \in Places(store.edges) /\ ~(l <= x)
        BY <1>2 DEF Places
      <3>2. x \in T
        BY <1>2, <1>3, <2>1, <3>1
      <3> QED BY <1>5, <3>1, <3>2
    <2> QED BY <1>6, <2>1 DEF Repeated
  <1> QED BY <1>2, <1>7 DEF Fresh

\* So is the first anchor, unless an earlier store has it.
LEMMA FreshAnchor ==
    ASSUME NEW store, NEW anchors, NEW k, Len(store.edges) \in Nat, k \in Places(store.edges),
           store.edges[k].tag = "anchor", AnchorKey(store, store.edges[k]) \notin anchors
    PROVE  \E l \in Fresh(store, anchors) :
              /\ store.edges[l].tag = "anchor"
              /\ AnchorKey(store, store.edges[l]) = AnchorKey(store, store.edges[k])
  <1> DEFINE T == {l \in Places(store.edges) :
                      /\ store.edges[l].tag = "anchor"
                      /\ AnchorKey(store, store.edges[l]) = AnchorKey(store, store.edges[k])}
  <1>1. T \in SUBSET Nat /\ k \in T
    BY DEF Places
  <1>2. \A l \in T : /\ l \in Places(store.edges) /\ store.edges[l].tag = "anchor"
                     /\ AnchorKey(store, store.edges[l]) = AnchorKey(store, store.edges[k])
    OBVIOUS
  <1>3. \A l \in Places(store.edges) :
            /\ store.edges[l].tag = "anchor"
            /\ AnchorKey(store, store.edges[l]) = AnchorKey(store, store.edges[k])
            => l \in T
    OBVIOUS
  <1> HIDE DEF T
  <1>4. Min(T) \in T /\ \A x \in T : Min(T) <= x
    BY <1>1, LeastOfNats
  <1>5. PICK l \in T : \A x \in T : l <= x
    BY <1>4
  <1>6. ~Repeated(store, l, anchors)
    <2>1. ASSUME NEW x \in 1 .. l - 1, store.edges[x].tag = "anchor",
                 AnchorKey(store, store.edges[x]) = AnchorKey(store, store.edges[l])
          PROVE  FALSE
      <3>1. x \in Places(store.edges) /\ ~(l <= x)
        BY <1>2 DEF Places
      <3>2. x \in T
        BY <1>2, <1>3, <2>1, <3>1
      <3> QED BY <1>5, <3>1, <3>2
    <2>2. store.edges[l].tag = "anchor" /\ AnchorKey(store, store.edges[l]) \notin anchors
      BY <1>2
    <2> QED BY <2>1, <2>2 DEF Repeated
  <1> QED BY <1>2, <1>6 DEF Fresh

\* The nodes of the first j stores in what is merged of them.
NodesUpTo(stores, a, j) ==
    /\ \A k \in DOMAIN a.m.keyIndex :
          /\ a.from[k] \in 1 .. j
          /\ a.m.nodes[a.m.keyIndex[k]] \in Range(stores[a.from[k]].nodes)
    /\ Len(a.maps) = j
    /\ \A h \in 1 .. j : \A l \in Places(stores[h].nodes) :
          /\ a.maps[h][l] \in Places(a.m.nodes)
          /\ Settled(a.m.keyIndex, KeyOf(stores[h], l), a.maps[h][l])
    /\ \A h \in 1 .. j : \A i, l \in Places(stores[h].nodes) :
          KeyOf(stores[h], i) = KeyOf(stores[h], l) => a.maps[h][i] = a.maps[h][l]
    /\ \A h \in 1 .. j : stores[h].fileNodes \subseteq a.m.fileNodes

MapsAppended(a, b, j) ==
    Len(b.maps) = j /\ b.maps[j] = b.map /\ \A h \in 1 .. j - 1 : b.maps[h] = a.maps[h]

LEMMA MapsGrow ==
    ASSUME NEW NS, NEW FS, NEW AS, NEW stores, NEW a, NEW b, NEW j,
           a \in GoodAccs(NS, FS, AS), j \in Nat, j >= 1, Len(a.maps) = j - 1,
           StoreMerged(a, stores[j], j, b)
    PROVE  MapsAppended(a, b, j)
  <1>1. b.maps = Append(a.maps, b.map) /\ a.maps \in Seq(Seq(Nat))
    BY DEF StoreMerged, GoodAccs, Accs
  <1>2. Len(b.maps) = j /\ b.maps[j] = b.map /\ \A h \in 1 .. j - 1 : b.maps[h] = a.maps[h]
    BY <1>1
  <1> QED BY <1>2 DEF MapsAppended

LEMMA NodesStep ==
    ASSUME NEW NS, NEW FS, NEW AS, NEW stores, NEW a, NEW b, NEW j,
           a \in GoodAccs(NS, FS, AS), b \in GoodAccs(NS, FS, AS), j \in Nat, j >= 1,
           NodesUpTo(stores, a, j - 1), StoreMerged(a, stores[j], j, b)
    PROVE  NodesUpTo(stores, b, j)
  <1> DEFINE new == stores[j].nodes
             old == a.m.keyIndex
             index == b.m.keyIndex
  <1>1. Len(b.maps) = j /\ b.maps[j] = b.map /\ \A h \in 1 .. j - 1 : b.maps[h] = a.maps[h]
    <2>1. Len(a.maps) = j - 1
      BY DEF NodesUpTo
    <2>2. MapsAppended(a, b, j)
      BY <2>1, MapsGrow
    <2> QED BY <2>2 DEF MapsAppended
  <1>2. PICK reverse : Reversed(old, reverse) /\ Grown(a, reverse, new, j, b, Len(new))
    BY DEF StoreMerged
  <1>3. Indexed(a.m.nodes, old) /\ DOMAIN a.from = DOMAIN old
    BY DEF GoodAccs
  <1>4. /\ Extends(old, index, reverse)
        /\ Len(a.m.nodes) <= Len(b.m.nodes)
        /\ \A p \in Places(a.m.nodes) : b.m.nodes[p] = a.m.nodes[p]
        /\ \A k \in DOMAIN old : b.from[k] = a.from[k]
    BY <1>2 DEF Grown
  <1>5. \A k \in DOMAIN index \ DOMAIN old : b.from[k] = j /\ b.m.nodes[index[k]] \in Range(new)
    BY <1>2 DEF Grown
  <1>6. \A l \in Places(new) : /\ b.map[l] \in Places(b.m.nodes)
                               /\ Placed(index, reverse, KeyOf(stores[j], l), b.map[l])
    BY <1>2 DEF Grown, Places, KeyOf
  <1>7. \A p \in Places(a.m.nodes) : p \in Places(b.m.nodes)
    <2>1. Len(a.m.nodes) \in Nat /\ Len(b.m.nodes) \in Nat
      BY DEF GoodAccs, Accs
    <2> QED BY <1>4, <2>1 DEF Places
  <1>8. \A h \in 1 .. j : h = j \/ h \in 1 .. j - 1
    OBVIOUS
  <1>9. ASSUME NEW k \in DOMAIN index
        PROVE  b.from[k] \in 1 .. j /\ b.m.nodes[index[k]] \in Range(stores[b.from[k]].nodes)
    <2>1. CASE k \in DOMAIN old
      <3>1. index[k] = old[k] /\ old[k] \in Places(a.m.nodes)
        BY <1>3, <1>4, <2>1, IndexedPlaces DEF Extends
      <3>2. a.from[k] \in 1 .. j - 1 /\ a.m.nodes[old[k]] \in Range(stores[a.from[k]].nodes)
        BY <2>1 DEF NodesUpTo
      <3>3. b.from[k] = a.from[k] /\ b.m.nodes[index[k]] = a.m.nodes[old[k]]
        BY <1>4, <2>1, <3>1
      <3>4. a.from[k] \in 1 .. j
        BY <3>2
      <3> QED BY <3>2, <3>3, <3>4
    <2>2. CASE k \notin DOMAIN old
      <3>1. b.from[k] = j /\ b.m.nodes[index[k]] \in Range(new) /\ j \in 1 .. j
        BY <1>5, <2>2
      <3> QED BY <3>1
    <2> QED BY <2>1, <2>2
  <1>10. ASSUME NEW h \in 1 .. j, NEW l \in Places(stores[h].nodes)
         PROVE  /\ b.maps[h][l] \in Places(b.m.nodes)
                /\ Settled(index, KeyOf(stores[h], l), b.maps[h][l])
    <2>1. CASE h = j
      <3>1. /\ b.map[l] \in Places(b.m.nodes)
            /\ Placed(index, reverse, KeyOf(stores[j], l), b.map[l])
        BY <1>6, <2>1
      <3>2. Settled(index, KeyOf(stores[j], l), b.map[l])
        BY <1>2, <1>4, <3>1, SettledHere
      <3> QED BY <1>1, <2>1, <3>1, <3>2
    <2>2. CASE h \in 1 .. j - 1
      <3>1. /\ a.maps[h][l] \in Places(a.m.nodes)
            /\ Settled(old, KeyOf(stores[h], l), a.maps[h][l])
        BY <2>2 DEF NodesUpTo
      <3>2. Settled(index, KeyOf(stores[h], l), a.maps[h][l])
        BY <1>2, <1>4, <3>1, SettledStays
      <3> QED BY <1>1, <1>7, <2>2, <3>1, <3>2
    <2> QED BY <1>8, <2>1, <2>2
  <1>11. ASSUME NEW h \in 1 .. j, NEW i \in Places(stores[h].nodes), NEW l \in Places(stores[h].nodes),
                KeyOf(stores[h], i) = KeyOf(stores[h], l)
         PROVE  b.maps[h][i] = b.maps[h][l]
    <2>1. CASE h = j
      <3>1. b.map[i] = b.map[l]
        BY <1>6, <1>11, <2>1, PlacedOnce
      <3> QED BY <1>1, <2>1, <3>1
    <2>2. CASE h \in 1 .. j - 1
      BY <1>1, <1>11, <2>2 DEF NodesUpTo
    <2> QED BY <1>8, <2>1, <2>2
  <1>12. ASSUME NEW h \in 1 .. j PROVE stores[h].fileNodes \subseteq b.m.fileNodes
    <2>1. b.m.fileNodes = a.m.fileNodes \cup stores[j].fileNodes
      BY DEF StoreMerged
    <2>2. CASE h = j
      BY <2>1, <2>2
    <2>3. CASE h \in 1 .. j - 1
      BY <2>1, <2>3 DEF NodesUpTo
    <2> QED BY <1>8, <2>2, <2>3
  <1> QED BY <1>1, <1>9, <1>10, <1>11, <1>12 DEF NodesUpTo

\* Some edge among edges says of merged nodes what e says.
Arrived(edges, map, e) == \E x \in Places(edges) : Carries(edges[x], map, e)

\* ... and has its modes.
CarriedWhole(edges, map, e) ==
    \E x \in Places(edges) : Carries(edges[x], map, e) /\ e.modes \subseteq edges[x].modes

\* The edge k of store h; an anchor may be that of an earlier store.
AnchorCarried(stores, a, h, k) ==
    \E g \in 1 .. h : \E f \in Places(stores[g].edges) :
        /\ stores[g].edges[f].tag = "anchor"
        /\ AnchorKey(stores[g], stores[g].edges[f]) = AnchorKey(stores[h], stores[h].edges[k])
        /\ Arrived(a.m.edges, a.maps[g], stores[g].edges[f])

\* The edges of the first j stores in what is merged of them.
EdgesUpTo(stores, a, j) ==
    /\ \A x \in Places(a.m.edges) : \E h \in 1 .. j : \E k \in Places(stores[h].edges) :
          Carries(a.m.edges[x], a.maps[h], stores[h].edges[k])
    /\ \A h \in 1 .. j : \A k \in Places(stores[h].edges) :
          /\ stores[h].edges[k].tag # "anchor" =>
                Arrived(a.m.edges, a.maps[h], stores[h].edges[k])
          /\ stores[h].edges[k].tag = "access" /\ SingleAccess(stores[h]) =>
                CarriedWhole(a.m.edges, a.maps[h], stores[h].edges[k])
          /\ stores[h].edges[k].tag = "anchor" => AnchorCarried(stores, a, h, k)
    /\ \A key \in a.anchors : \E h \in 1 .. j : \E k \in Places(stores[h].edges) :
          /\ stores[h].edges[k].tag = "anchor"
          /\ AnchorKey(stores[h], stores[h].edges[k]) = key

LEMMA CarriedStays ==
    ASSUME NEW a, NEW store, NEW b, NEW map, NEW e, EdgesMerged(a, store, b),
           Arrived(a.m.edges, map, e)
    PROVE  Arrived(b.m.edges, map, e)
  <1>1. PICK y \in Places(a.m.edges) : Carries(a.m.edges[y], map, e)
    BY DEF Arrived
  <1>2. PICK x \in Places(b.m.edges) : SameEdge(b.m.edges[x], a.m.edges[y])
    BY DEF EdgesMerged
  <1>3. Carries(b.m.edges[x], map, e)
    BY <1>1, <1>2 DEF Carries, SameEdge
  <1> QED BY <1>3 DEF Arrived

LEMMA CarriedWholeStays ==
    ASSUME NEW a, NEW store, NEW b, NEW map, NEW e, EdgesMerged(a, store, b),
           CarriedWhole(a.m.edges, map, e)
    PROVE  CarriedWhole(b.m.edges, map, e)
  <1>1. PICK y \in Places(a.m.edges) :
            Carries(a.m.edges[y], map, e) /\ e.modes \subseteq a.m.edges[y].modes
    BY DEF CarriedWhole
  <1>2. PICK x \in Places(b.m.edges) : /\ SameEdge(b.m.edges[x], a.m.edges[y])
                                       /\ a.m.edges[y].modes \subseteq b.m.edges[x].modes
    BY DEF EdgesMerged
  <1>3. Carries(b.m.edges[x], map, e) /\ e.modes \subseteq b.m.edges[x].modes
    BY <1>1, <1>2 DEF Carries, SameEdge
  <1> QED BY <1>3 DEF CarriedWhole

\* Of edges between the same keys one says what the other says.
LEMMA CarriedToo ==
    ASSUME NEW store, NEW edges, NEW map, NEW k, NEW l, IsGraph(store),
           k \in Places(store.edges), l \in Places(store.edges),
           Triple(store, store.edges[l]) = Triple(store, store.edges[k]),
           store.edges[k].tag # "anchor",
           \A p, q \in Places(store.nodes) : KeyOf(store, p) = KeyOf(store, q) => map[p] = map[q],
           Arrived(edges, map, store.edges[l])
    PROVE  Arrived(edges, map, store.edges[k])
  <1>1. PICK x \in Places(edges) : Carries(edges[x], map, store.edges[l])
    BY DEF Arrived
  <1>2. store.edges \in Seq(Edges(Places(store.nodes)))
    BY DEF IsGraph
  <1>3. /\ store.edges[k].from \in Places(store.nodes) /\ store.edges[k].to \in Places(store.nodes)
        /\ store.edges[l].from \in Places(store.nodes) /\ store.edges[l].to \in Places(store.nodes)
    BY <1>2, EdgesAre
  <1>4. /\ KeyOf(store, store.edges[l].from) = KeyOf(store, store.edges[k].from)
        /\ KeyOf(store, store.edges[l].to) = KeyOf(store, store.edges[k].to)
        /\ store.edges[l].tag = store.edges[k].tag
    BY DEF Triple
  <1>5. store.edges[k].column = NoColumn /\ store.edges[l].column = NoColumn
    <2>1. store.edges[k] \in Range(store.edges) /\ store.edges[l] \in Range(store.edges)
      BY <1>2, RangeIs
    <2> QED BY <1>4, <2>1 DEF IsGraph, Plain
  <1>6. map[store.edges[l].from] = map[store.edges[k].from]
        /\ map[store.edges[l].to] = map[store.edges[k].to]
    BY <1>3, <1>4
  <1>7. Carries(edges[x], map, store.edges[k])
    BY <1>1, <1>4, <1>5, <1>6 DEF Carries
  <1> QED BY <1>7 DEF Arrived

\* The anchors of the stores before.
LEMMA AnchorCarriedStays ==
    ASSUME NEW stores, NEW a, NEW b, NEW j, NEW h, NEW k, j \in Nat, h \in 1 .. j - 1,
           MapsAppended(a, b, j), EdgesMerged(a, stores[j], b), AnchorCarried(stores, a, h, k)
    PROVE  AnchorCarried(stores, b, h, k)
  <1>0. PICK g \in 1 .. h : \E f \in Places(stores[g].edges) :
            /\ stores[g].edges[f].tag = "anchor"
            /\ AnchorKey(stores[g], stores[g].edges[f]) = AnchorKey(stores[h], stores[h].edges[k])
            /\ Arrived(a.m.edges, a.maps[g], stores[g].edges[f])
    BY DEF AnchorCarried
  <1>1. PICK f \in Places(stores[g].edges) :
            /\ stores[g].edges[f].tag = "anchor"
            /\ AnchorKey(stores[g], stores[g].edges[f]) = AnchorKey(stores[h], stores[h].edges[k])
            /\ Arrived(a.m.edges, a.maps[g], stores[g].edges[f])
    BY <1>0
  <1>2. g \in 1 .. j - 1
    OBVIOUS
  <1>3. Arrived(b.m.edges, b.maps[g], stores[g].edges[f])
    <2>1. Arrived(b.m.edges, a.maps[g], stores[g].edges[f])
      BY <1>1, CarriedStays
    <2> QED BY <1>2, <2>1 DEF MapsAppended
  <1> QED BY <1>1, <1>3 DEF AnchorCarried

LEMMA EdgesStep ==
    ASSUME NEW stores, NEW a, NEW b, NEW j, j \in Nat, j >= 1, IsGraph(stores[j]),
           MapsAppended(a, b, j), b.anchors = a.anchors \cup AnchorsOf(stores[j]),
           EdgesMerged(a, stores[j], b), EdgesUpTo(stores, a, j - 1),
           \A p, q \in Places(stores[j].nodes) :
              KeyOf(stores[j], p) = KeyOf(stores[j], q) => b.map[p] = b.map[q]
    PROVE  EdgesUpTo(stores, b, j)
  <1> DEFINE store == stores[j]
  <1>1. b.maps[j] = b.map /\ \A h \in 1 .. j - 1 : b.maps[h] = a.maps[h]
    BY DEF MapsAppended
  <1>2. (\A h \in 1 .. j : h = j \/ h \in 1 .. j - 1) /\ j \in 1 .. j
    OBVIOUS
  <1>3. /\ store.edges \in Seq(Edges(Places(store.nodes))) /\ Len(store.edges) \in Nat
        /\ \A k \in Places(store.edges) : store.edges[k] \in Range(store.edges)
        /\ \A e \in Range(store.edges) : \E k \in Places(store.edges) : store.edges[k] = e
    <2>1. store.edges \in Seq(Edges(Places(store.nodes)))
      BY DEF IsGraph
    <2> QED BY <2>1, RangeIs
  <1>4. ASSUME NEW k \in Fresh(store, a.anchors)
        PROVE  /\ k \in Places(store.edges)
               /\ Arrived(b.m.edges, b.map, store.edges[k])
               /\ CarriedWhole(b.m.edges, b.map, store.edges[k])
    BY DEF EdgesMerged, Arrived, CarriedWhole, Fresh
  <1>5. ASSUME NEW x \in Places(b.m.edges)
        PROVE  \E h \in 1 .. j : \E k \in Places(stores[h].edges) :
                  Carries(b.m.edges[x], b.maps[h], stores[h].edges[k])
    <2>1. ASSUME NEW y \in Places(a.m.edges), SameEdge(b.m.edges[x], a.m.edges[y])
          PROVE  \E h \in 1 .. j : \E k \in Places(stores[h].edges) :
                    Carries(b.m.edges[x], b.maps[h], stores[h].edges[k])
      <3>0. PICK h \in 1 .. j - 1 : \E k \in Places(stores[h].edges) :
                Carries(a.m.edges[y], a.maps[h], stores[h].edges[k])
        BY DEF EdgesUpTo
      <3>1. PICK k \in Places(stores[h].edges) :
                Carries(a.m.edges[y], a.maps[h], stores[h].edges[k])
        BY <3>0
      <3>2. Carries(b.m.edges[x], b.maps[h], stores[h].edges[k])
        BY <1>1, <2>1, <3>1 DEF Carries, SameEdge
      <3>3. h \in 1 .. j
        OBVIOUS
      <3> QED BY <3>2, <3>3
    <2>2. ASSUME NEW k \in Fresh(store, a.anchors), Carries(b.m.edges[x], b.map, store.edges[k])
          PROVE  \E h \in 1 .. j : \E i \in Places(stores[h].edges) :
                    Carries(b.m.edges[x], b.maps[h], stores[h].edges[i])
      BY <1>1, <1>2, <1>4, <2>2
    <2> QED BY <2>1, <2>2 DEF EdgesMerged
  <1>6. ASSUME NEW h \in 1 .. j - 1, NEW k \in Places(stores[h].edges)
        PROVE  /\ stores[h].edges[k].tag # "anchor" =>
                     Arrived(b.m.edges, b.maps[h], stores[h].edges[k])
               /\ stores[h].edges[k].tag = "access" /\ SingleAccess(stores[h]) =>
                     CarriedWhole(b.m.edges, b.maps[h], stores[h].edges[k])
               /\ stores[h].edges[k].tag = "anchor" => AnchorCarried(stores, b, h, k)
    <2>1. /\ stores[h].edges[k].tag # "anchor" =>
                Arrived(a.m.edges, a.maps[h], stores[h].edges[k])
          /\ stores[h].edges[k].tag = "access" /\ SingleAccess(stores[h]) =>
                CarriedWhole(a.m.edges, a.maps[h], stores[h].edges[k])
          /\ stores[h].edges[k].tag = "anchor" => AnchorCarried(stores, a, h, k)
      BY DEF EdgesUpTo
    <2>2. stores[h].edges[k].tag # "anchor" =>
              Arrived(b.m.edges, a.maps[h], stores[h].edges[k])
      BY <2>1, CarriedStays
    <2>3. stores[h].edges[k].tag = "access" /\ SingleAccess(stores[h]) =>
              CarriedWhole(b.m.edges, a.maps[h], stores[h].edges[k])
      BY <2>1, CarriedWholeStays
    <2>4. stores[h].edges[k].tag = "anchor" => AnchorCarried(stores, b, h, k)
      BY <2>1, AnchorCarriedStays
    <2> QED BY <1>1, <2>2, <2>3, <2>4
  <1>7. ASSUME NEW k \in Places(store.edges), store.edges[k].tag # "anchor"
        PROVE  Arrived(b.m.edges, b.map, store.edges[k])
    <2>1. PICK l \in Fresh(store, a.anchors) :
              Triple(store, store.edges[l]) = Triple(store, store.edges[k])
      BY ZenonT(30), <1>3, <1>7, FreshTriple
    <2>2. Arrived(b.m.edges, b.map, store.edges[l]) /\ l \in Places(store.edges)
      BY <1>4
    <2> QED BY <1>7, <2>1, <2>2, CarriedToo
  <1>8. ASSUME NEW k \in Places(store.edges), store.edges[k].tag = "access", SingleAccess(store)
        PROVE  CarriedWhole(b.m.edges, b.map, store.edges[k])
    <2>0. store.edges[k].tag # "anchor"
      BY <1>8
    <2>1. PICK l \in Fresh(store, a.anchors) :
              Triple(store, store.edges[l]) = Triple(store, store.edges[k])
      BY ZenonT(30), <1>3, <2>0, FreshTriple
    <2>2. l \in Places(store.edges) /\ store.edges[l].tag = "access"
      BY <1>4, <1>8, <2>1 DEF Triple
    <2>3. l = k
      BY <1>8, <2>1, <2>2 DEF SingleAccess
    <2> QED BY <1>4, <2>3
  <1>9. ASSUME NEW k \in Places(store.edges), store.edges[k].tag = "anchor"
        PROVE  AnchorCarried(stores, b, j, k)
    <2>1. CASE AnchorKey(store, store.edges[k]) \in a.anchors
      <3>0. PICK h \in 1 .. j - 1 : \E i \in Places(stores[h].edges) :
                /\ stores[h].edges[i].tag = "anchor"
                /\ AnchorKey(stores[h], stores[h].edges[i]) = AnchorKey(store, store.edges[k])
        BY <2>1 DEF EdgesUpTo
      <3>1. PICK i \in Places(stores[h].edges) :
                /\ stores[h].edges[i].tag = "anchor"
                /\ AnchorKey(stores[h], stores[h].edges[i]) = AnchorKey(store, store.edges[k])
        BY <3>0
      <3>2. AnchorCarried(stores, b, h, i)
        BY <1>6, <3>1
      <3>3. PICK g \in 1 .. h : \E f \in Places(stores[g].edges) :
                /\ stores[g].edges[f].tag = "anchor"
                /\ AnchorKey(stores[g], stores[g].edges[f]) =
                       AnchorKey(stores[h], stores[h].edges[i])
                /\ Arrived(b.m.edges, b.maps[g], stores[g].edges[f])
        BY <3>2 DEF AnchorCarried
      <3>4. g \in 1 .. j
        OBVIOUS
      <3> QED BY <3>1, <3>3, <3>4 DEF AnchorCarried
    <2>2. CASE AnchorKey(store, store.edges[k]) \notin a.anchors
      <3>1. PICK l \in Fresh(store, a.anchors) :
                /\ store.edges[l].tag = "anchor"
                /\ AnchorKey(store, store.edges[l]) = AnchorKey(store, store.edges[k])
        BY ZenonT(30), <1>3, <1>9, <2>2, FreshAnchor
      <3>2. Arrived(b.m.edges, b.maps[j], store.edges[l]) /\ l \in Places(store.edges)
        BY <1>1, <1>4
      <3> QED BY <1>2, <3>1, <3>2 DEF AnchorCarried
    <2> QED BY <2>1, <2>2
  <1>10. ASSUME NEW key \in b.anchors
         PROVE  \E h \in 1 .. j : \E k \in Places(stores[h].edges) :
                   /\ stores[h].edges[k].tag = "anchor"
                   /\ AnchorKey(stores[h], stores[h].edges[k]) = key
    <2>1. CASE key \in a.anchors
      <3>1. PICK h \in 1 .. j - 1 : \E k \in Places(stores[h].edges) :
                /\ stores[h].edges[k].tag = "anchor"
                /\ AnchorKey(stores[h], stores[h].edges[k]) = key
        BY <2>1 DEF EdgesUpTo
      <3>2. h \in 1 .. j
        OBVIOUS
      <3> QED BY <3>1, <3>2
    <2>2. CASE key \in AnchorsOf(store)
      <3>1. PICK e \in Range(store.edges) : e.tag = "anchor" /\ AnchorKey(store, e) = key
        BY <2>2 DEF AnchorsOf
      <3>2. PICK k \in Places(store.edges) : store.edges[k] = e
        BY <1>3
      <3> QED BY <1>2, <3>1, <3>2
    <2> QED BY <2>1, <2>2
  <1>11. ASSUME NEW h \in 1 .. j, NEW k \in Places(stores[h].edges)
         PROVE  /\ stores[h].edges[k].tag # "anchor" =>
                      Arrived(b.m.edges, b.maps[h], stores[h].edges[k])
                /\ stores[h].edges[k].tag = "access" /\ SingleAccess(stores[h]) =>
                      CarriedWhole(b.m.edges, b.maps[h], stores[h].edges[k])
                /\ stores[h].edges[k].tag = "anchor" => AnchorCarried(stores, b, h, k)
    <2>1. CASE h = j
      BY <1>1, <1>7, <1>8, <1>9, <2>1
    <2>2. CASE h \in 1 .. j - 1
      BY <1>6, <2>2
    <2> QED BY <1>2, <2>1, <2>2
  <1> QED BY <1>5, <1>10, <1>11 DEF EdgesUpTo

-----------------------------------------------------------------------------
(* What a merge leaves. *)

\* What is merged of all stores, before its indexes are rebuilt.
Unfinished(stores, NS, FS, AS, a) ==
    /\ a \in GoodAccs(NS, FS, AS)
    /\ NodesUpTo(stores, a, Len(stores)) /\ EdgesUpTo(stores, a, Len(stores))

LEMMA NothingUpTo ==
    ASSUME NEW stores PROVE NodesUpTo(stores, Nothing, 0) /\ EdgesUpTo(stores, Nothing, 0)
  <1>1. /\ DOMAIN Nothing.m.keyIndex = {} /\ Nothing.maps = <<>> /\ Nothing.m.edges = <<>>
        /\ Nothing.anchors = {}
    BY BlankIs DEF Nothing
  <1>2. 1 .. 0 = {} /\ Len(<<>>) = 0 /\ Places(<<>>) = {}
    BY DEF Places
  <1> QED BY <1>1, <1>2 DEF NodesUpTo, EdgesUpTo

LEMMA MergedIs ==
    ASSUME NEW stores, NEW NS, NEW FS, NEW AS, NEW prefer, Mergeable(stores, NS, FS, AS)
    PROVE  \E a : /\ Unfinished(stores, NS, FS, AS, a)
                  /\ Merge(stores, prefer).store = Finished(stores, a)
                  /\ Merge(stores, prefer).maps = a.maps
  <1> DEFINE n == Len(stores)
  <1>1. n \in Nat /\ Places(stores) = 1 .. n
    BY DEF Mergeable, Places
  <1>2. PICK H : /\ StoreWalk(stores, NS, FS, AS, prefer, H)
                 /\ Merge(stores, prefer).store = Finished(stores, H[n])
                 /\ Merge(stores, prefer).maps = H[n].maps
    BY MergeStoresWalk
  <1>3. /\ H \in [0 .. n -> GoodAccs(NS, FS, AS)]
        /\ H[0] = Nothing
        /\ \A m \in 1 .. n : H[m] = MergeStore(H[m - 1], stores[m], m, prefer)
    BY <1>2 DEF StoreWalk
  <1> DEFINE Q == {m \in 0 .. n : NodesUpTo(stores, H[m], m) /\ EdgesUpTo(stores, H[m], m)}
  <1>4. 0 \in Q
    BY <1>1, <1>3, NothingUpTo
  <1>5. ASSUME NEW m \in 1 .. n, m - 1 \in Q PROVE m \in Q
    <2>1. /\ m \in 0 .. n /\ m \in Nat /\ m >= 1 /\ m \in Places(stores)
          /\ H[m - 1] \in GoodAccs(NS, FS, AS) /\ H[m] \in GoodAccs(NS, FS, AS)
      BY <1>1, <1>3, <1>5
    <2>2. NodesUpTo(stores, H[m - 1], m - 1) /\ EdgesUpTo(stores, H[m - 1], m - 1)
      BY <1>5
    <2>3. StoreMerged(H[m - 1], stores[m], m, H[m])
      <3>1. StoreMerged(H[m - 1], stores[m], m, MergeStore(H[m - 1], stores[m], m, prefer))
        BY <2>1, MergeStoreGood
      <3> QED BY <1>3, <3>1
    <2>4. NodesUpTo(stores, H[m], m)
      BY <2>1, <2>2, <2>3, NodesStep
    <2>5. EdgesUpTo(stores, H[m], m)
      <3>1. MapsAppended(H[m - 1], H[m], m)
        <4>1. Len(H[m - 1].maps) = m - 1
          BY <2>2 DEF NodesUpTo
        <4> QED BY <2>1, <2>3, <4>1, MapsGrow
      <3>2. \A p, q \in Places(stores[m].nodes) :
                KeyOf(stores[m], p) = KeyOf(stores[m], q) => H[m].map[p] = H[m].map[q]
        <4>1. H[m].maps[m] = H[m].map /\ m \in 1 .. m
          BY <2>1, <3>1 DEF MapsAppended
        <4> QED BY <2>4, <4>1 DEF NodesUpTo
      <3>3. /\ EdgesMerged(H[m - 1], stores[m], H[m])
            /\ H[m].anchors = H[m - 1].anchors \cup AnchorsOf(stores[m])
        BY <2>3 DEF StoreMerged
      <3>4. IsGraph(stores[m])
        BY <2>1 DEF Mergeable
      <3> QED BY <2>1, <2>2, <3>1, <3>2, <3>3, <3>4, EdgesStep
    <2> QED BY <2>1, <2>4, <2>5
  <1>6. n \in Q
    <2> HIDE DEF Q, n
    <2>1. \A m \in 0 .. n : m \in Q
      BY <1>1, <1>4, <1>5, WalkInduction
    <2> QED BY <1>1, <2>1
  <1>7. H[n] \in GoodAccs(NS, FS, AS)
    BY <1>1, <1>3
  <1> QED BY <1>2, <1>6, <1>7 DEF Unfinished

NodesOfAll(stores) == UNION {Range(stores[j].nodes) : j \in Places(stores)}

FilesOfAll(stores) == UNION {stores[j].fileNodes : j \in Places(stores)}

AnchorsOfAll(stores) == UNION {AnchorsOf(stores[j]) : j \in Places(stores)}

LEMMA WellMergeable ==
    ASSUME NEW stores, Len(stores) \in Nat, \A j \in Places(stores) : Well(stores[j])
    PROVE  Mergeable(stores, NodesOfAll(stores), FilesOfAll(stores), AnchorsOfAll(stores))
  <1> SUFFICES ASSUME NEW j \in Places(stores)
               PROVE  /\ IsGraph(stores[j]) /\ stores[j].nodes \in Seq(NodesOfAll(stores))
                      /\ stores[j].fileNodes \subseteq FilesOfAll(stores)
                      /\ AnchorsOf(stores[j]) \subseteq AnchorsOfAll(stores)
    BY DEF Mergeable
  <1>1. IsGraph(stores[j])
    BY DEF Well
  <1>2. stores[j].nodes \in Seq(Range(stores[j].nodes))
    BY <1>1 DEF IsGraph
  <1>3. Range(stores[j].nodes) \subseteq NodesOfAll(stores)
    BY DEF NodesOfAll
  <1>4. stores[j].nodes \in Seq(NodesOfAll(stores))
    BY <1>2, <1>3
  <1> QED BY <1>1, <1>4 DEF FilesOfAll, AnchorsOfAll

\* The graph a merge leaves, of stores which are well.
MergedFrom(stores, a, d) ==
    /\ d.nodes = a.m.nodes /\ d.edges = a.m.edges /\ d.keyIndex = a.m.keyIndex
    /\ d.fileNodes = a.m.fileNodes /\ d.params = ParamsOf(stores, a.from)
    /\ Rebuilt(d, a.m.nodes, a.m.edges, a.m.keyIndex, a.m.fileNodes, ParamsOf(stores, a.from))

LEMMA FinishedIs ==
    ASSUME NEW stores, NEW NS, NEW FS, NEW AS, NEW a, a \in GoodAccs(NS, FS, AS)
    PROVE  MergedFrom(stores, a, Finished(stores, a))
  <1> DEFINE params == ParamsOf(stores, a.from)
             s == [a.m EXCEPT !.params = params]
             d == Finished(stores, a)
  <1>1. HasFields(a.m)
    BY DEF GoodAccs, Accs, HasFields
  <1>2. d = RebuildSecondary(s)
    BY DEF Finished
  <1>3. s = [a.m EXCEPT !.params = params]
    OBVIOUS
  <1> HIDE DEF params, s, d
  <1>4. s = [nodes |-> a.m.nodes, edges |-> a.m.edges, keyIndex |-> a.m.keyIndex,
             names |-> a.m.names, summaries |-> a.m.summaries, categories |-> a.m.categories,
             prints |-> a.m.prints, fileNodes |-> a.m.fileNodes, params |-> params]
    BY <1>1, <1>3 DEF HasFields
  <1>5. HasFields(s)
    BY <1>4 DEF HasFields
  <1>6. Rebuilt(d, s.nodes, s.edges, s.keyIndex, s.fileNodes, s.params)
    BY <1>2, <1>5, RebuiltIs
  <1>7. Rebuilt(d, a.m.nodes, a.m.edges, a.m.keyIndex, a.m.fileNodes, params)
    BY <1>4, <1>6
  <1>8. /\ d.nodes = a.m.nodes /\ d.edges = a.m.edges /\ d.keyIndex = a.m.keyIndex
        /\ d.fileNodes = a.m.fileNodes /\ d.params = params
    BY <1>7 DEF Rebuilt
  <1> QED BY <1>7, <1>8 DEF MergedFrom, params, d

\* Where the ends of the edges are.
LEMMA UnfinishedEnds ==
    ASSUME NEW stores, NEW NS, NEW FS, NEW AS, NEW a, Unfinished(stores, NS, FS, AS, a),
           Mergeable(stores, NS, FS, AS)
    PROVE  \A x \in Places(a.m.edges) : /\ a.m.edges[x].from \in Places(a.m.nodes)
                                        /\ a.m.edges[x].to \in Places(a.m.nodes)
  <1> DEFINE n == Len(stores)
  <1>1. Places(stores) = 1 .. n
    BY DEF Places
  <1> SUFFICES ASSUME NEW x \in Places(a.m.edges)
               PROVE  /\ a.m.edges[x].from \in Places(a.m.nodes)
                      /\ a.m.edges[x].to \in Places(a.m.nodes)
    OBVIOUS
  <1>2. PICK h \in 1 .. n : \E k \in Places(stores[h].edges) :
            Carries(a.m.edges[x], a.maps[h], stores[h].edges[k])
    BY DEF Unfinished, EdgesUpTo
  <1>3. PICK k \in Places(stores[h].edges) : Carries(a.m.edges[x], a.maps[h], stores[h].edges[k])
    BY <1>2
  <1>4. stores[h].edges \in Seq(Edges(Places(stores[h].nodes)))
    BY <1>1 DEF Mergeable, IsGraph
  <1>5. /\ stores[h].edges[k].from \in Places(stores[h].nodes)
        /\ stores[h].edges[k].to \in Places(stores[h].nodes)
    BY <1>4, EdgesAre
  <1>6. \A l \in Places(stores[h].nodes) : a.maps[h][l] \in Places(a.m.nodes)
    BY DEF Unfinished, NodesUpTo
  <1> QED BY <1>3, <1>5, <1>6 DEF Carries

LEMMA NarrowEdges ==
    ASSUME NEW N, NEW t, t \in Seq(Edges(Nat)), \A x \in Places(t) : t[x].from \in N /\ t[x].to \in N
    PROVE  t \in Seq(Edges(N))
  <1>1. Len(t) \in Nat /\ Places(t) = 1 .. Len(t) /\ DOMAIN t = 1 .. Len(t)
    BY DEF Places
  <1>2. ASSUME NEW x \in 1 .. Len(t) PROVE t[x] \in Edges(N)
    <2>1. t[x] \in Edges(Nat)
      OBVIOUS
    <2>2. t[x].from \in N /\ t[x].to \in N
      BY <1>1
    <2> QED BY <2>1, <2>2 DEF Edges
  <1>3. t = [x \in 1 .. Len(t) |-> t[x]]
    OBVIOUS
  <1> QED BY <1>1, <1>2, <1>3, IsSequence

\* A merge of stores which are well is well.
LEMMA UnfinishedWell ==
    ASSUME NEW stores, NEW NS, NEW FS, NEW AS, NEW a, NEW d,
           Mergeable(stores, NS, FS, AS), \A j \in Places(stores) : Well(stores[j]),
           Unfinished(stores, NS, FS, AS, a), MergedFrom(stores, a, d)
    PROVE  Well(d)
  <1> DEFINE n == Len(stores)
  <1>1. Places(stores) = 1 .. n
    BY DEF Places
  <1>2. /\ d.nodes = a.m.nodes /\ d.edges = a.m.edges /\ d.keyIndex = a.m.keyIndex
        /\ d.fileNodes = a.m.fileNodes /\ d.params = ParamsOf(stores, a.from)
    BY DEF MergedFrom
  <1>3. /\ Indexed(a.m.nodes, a.m.keyIndex) /\ DOMAIN a.from = DOMAIN a.m.keyIndex
        /\ AllPlain(a.m.edges) /\ a.m.nodes \in Seq(NS) /\ a.m.edges \in Seq(Edges(Nat))
    BY DEF Unfinished, GoodAccs, Accs
  <1>4. IsGraph(d)
    <2>1. d.nodes \in Seq(Range(d.nodes))
      BY <1>2, <1>3, RangeIs
    <2>2. a.m.edges \in Seq(Edges(Places(a.m.nodes)))
      BY <1>3, UnfinishedEnds, NarrowEdges
    <2>3. \A e \in Range(a.m.edges) : Plain(e.tag, e)
      BY <1>3, RangeIs DEF AllPlain
    <2> QED BY <1>2, <2>1, <2>2, <2>3 DEF IsGraph
  <1>5. DOMAIN d.keyIndex = Keys(d) /\ \A i \in Places(d.nodes) : d.keyIndex[KeyOf(d, i)] = i
    BY <1>2, <1>3 DEF Indexed, Keys, KeyOf
  <1>6. KeysAreIndexed(d)
    BY <1>5 DEF KeysAreIndexed, Keys
  <1>7. ASSUME NEW i \in Places(d.nodes)
        PROVE  LET h == a.from[KeyOf(d, i)]
               IN  /\ h \in Places(stores)
                   /\ \E p \in Places(stores[h].nodes) : stores[h].nodes[p] = d.nodes[i]
    <2> DEFINE k == KeyOf(d, i)
               h == a.from[k]
    <2>1. k \in DOMAIN a.m.keyIndex /\ a.m.keyIndex[k] = i
      BY <1>2, <1>5 DEF Keys
    <2>2. h \in Places(stores) /\ a.m.nodes[i] \in Range(stores[h].nodes)
      BY <1>1, <2>1 DEF Unfinished, NodesUpTo
    <2>3. IsGraph(stores[h])
      BY <2>2 DEF Mergeable
    <2>4. \E p \in Places(stores[h].nodes) : stores[h].nodes[p] = a.m.nodes[i]
      BY ZenonT(30), <2>2, <2>3, GraphPlaces
    <2> QED BY <1>2, <2>2, <2>4
  <1>8. FileNodes(d) \subseteq d.fileNodes
    <2> SUFFICES ASSUME NEW i \in Places(d.nodes), d.nodes[i].file # NoFile
                 PROVE  <<d.nodes[i].file, KeyOf(d, i)>> \in d.fileNodes
      BY DEF FileNodes
    <2> DEFINE h == a.from[KeyOf(d, i)]
    <2>1. h \in Places(stores) /\ \E p \in Places(stores[h].nodes) : stores[h].nodes[p] = d.nodes[i]
      BY <1>7
    <2> HIDE DEF h
    <2>2. PICK p \in Places(stores[h].nodes) : stores[h].nodes[p] = d.nodes[i]
      BY <2>1
    <2>3. KeyOf(stores[h], p) = KeyOf(d, i)
      BY <2>2 DEF KeyOf
    <2>4. <<d.nodes[i].file, KeyOf(d, i)>> \in FileNodes(stores[h])
      BY <2>2, <2>3 DEF FileNodes
    <2>5. FileNodes(stores[h]) \subseteq stores[h].fileNodes
      BY <2>1 DEF Well
    <2>6. stores[h].fileNodes \subseteq d.fileNodes
      BY <1>1, <1>2, <2>1 DEF Unfinished, NodesUpTo
    <2> QED BY <2>4, <2>5, <2>6
  <1>9. ParamsHold(d)
    <2> SUFFICES ASSUME NEW k \in DOMAIN d.params
                 PROVE  /\ k \in Keys(d)
                        /\ \A i \in Places(d.nodes) :
                              KeyOf(d, i) = k => d.nodes[i].file = d.params[k]
      BY DEF ParamsHold
    <2> DEFINE h == a.from[k]
    <2>1. k \in DOMAIN a.from /\ k \in DOMAIN stores[h].params /\ d.params[k] = stores[h].params[k]
      BY <1>2 DEF ParamsOf
    <2>2. k \in Keys(d)
      BY <1>2, <1>3, <1>5, <2>1
    <2>3. ASSUME NEW i \in Places(d.nodes), KeyOf(d, i) = k PROVE d.nodes[i].file = d.params[k]
      <3>1. h \in Places(stores)
            /\ \E p \in Places(stores[h].nodes) : stores[h].nodes[p] = d.nodes[i]
        BY <1>7, <2>3
      <3> HIDE DEF h
      <3>2. PICK p \in Places(stores[h].nodes) : stores[h].nodes[p] = d.nodes[i]
        BY <3>1
      <3>3. KeyOf(stores[h], p) = k
        BY <2>3, <3>2 DEF KeyOf
      <3>4. ParamsHold(stores[h])
        BY <3>1 DEF Well
      <3>5. stores[h].nodes[p].file = stores[h].params[k]
        BY <2>1, <3>3, <3>4 DEF ParamsHold
      <3> QED BY <2>1, <3>2, <3>5
    <2> QED BY <2>2, <2>3
  <1> QED BY <1>4, <1>6, <1>8, <1>9, RebuiltWell DEF MergedFrom

\* What MergeKeepsGraphs promises of stores and what they were merged into.
Became(d, maps, j, i) == KeyOf(d, maps[j][i])

NodesKept(stores, maps, d) ==
    /\ \A j \in Places(stores) : \A i \in Places(stores[j].nodes) :
          LET key == KeyOf(stores[j], i)
          IN  /\ \/ Became(d, maps, j, i) = key
                 \/ Relaxable(key) /\ Became(d, maps, j, i) = Relaxed(key)
                 \/ Relaxable(Became(d, maps, j, i)) /\ key = Relaxed(Became(d, maps, j, i))
              /\ \A h \in Places(stores) : \A l \in Places(stores[h].nodes) :
                    KeyOf(stores[h], l) = key =>
                        \/ maps[h][l] = maps[j][i]
                        \/ /\ h # j /\ Relaxable(Became(d, maps, j, i))
                           /\ Relaxable(Became(d, maps, h, l)) /\ key.schema = NoSchema
    /\ Cardinality(Keys(d)) = Len(d.nodes)

Imaged(d, maps, j, e) ==
    <<Became(d, maps, j, e.from), Became(d, maps, j, e.to), e.tag, e.column>>

EdgesKept(stores, maps, d) ==
    /\ Relations(d) \subseteq
          UNION {{Imaged(d, maps, j, e) : e \in Range(stores[j].edges)} : j \in Places(stores)}
    /\ \A j \in Places(stores) : \A e \in Range(stores[j].edges) :
          IF e.tag # "anchor" THEN Imaged(d, maps, j, e) \in Relations(d)
          ELSE \E h \in 1 .. j : \E f \in Range(stores[h].edges) :
                  /\ f.tag = "anchor" /\ AnchorKey(stores[h], f) = AnchorKey(stores[j], e)
                  /\ Imaged(d, maps, h, f) \in Relations(d)
    /\ \A j \in Places(stores) :
          SingleAccess(stores[j]) =>
              \A e \in Range(stores[j].edges) :
                  e.modes \subseteq Modes(d, Became(d, maps, j, e.from), Became(d, maps, j, e.to))

\* What a settled node is represented by, with key k.
LEMMA SettledKey ==
    ASSUME NEW nodes, NEW index, NEW key, NEW p, Indexed(nodes, index), Settled(index, key, p)
    PROVE  \/ Key(nodes[p]) = key
           \/ Relaxable(key) /\ Key(nodes[p]) = Relaxed(key)
           \/ Relaxable(Key(nodes[p])) /\ key = Relaxed(Key(nodes[p]))
  <1>1. \A k \in DOMAIN index : Key(nodes[index[k]]) = k
    BY IndexedPlaces
  <1>2. CASE key \in DOMAIN index /\ p = index[key]
    BY <1>1, <1>2
  <1>3. CASE Relaxable(key) /\ Relaxed(key) \in DOMAIN index /\ p = index[Relaxed(key)]
    BY <1>1, <1>3
  <1>4. CASE \E x \in DOMAIN index : Relaxable(x) /\ Relaxed(x) = key /\ p = index[x]
    BY <1>1, <1>4
  <1> QED BY <1>2, <1>3, <1>4 DEF Settled

\* Two places of one key are one, unless it has no schema and they have.
LEMMA SettledTwice ==
    ASSUME NEW NS, NEW nodes, NEW index, NEW key, NEW p, NEW q, Indexed(nodes, index),
           nodes \in Seq(NS), Settled(index, key, p), Settled(index, key, q)
    PROVE  \/ p = q
           \/ Relaxable(Key(nodes[p])) /\ Relaxable(Key(nodes[q])) /\ key.schema = NoSchema
  <1>1. \A k \in DOMAIN index : Key(nodes[index[k]]) = k /\ index[k] \in Places(nodes)
    BY IndexedPlaces
  <1>2. \A k \in DOMAIN index : k \in KeysOf(NS)
    <2>1. \A i \in Places(nodes) : nodes[i] \in NS
      BY DEF Places
    <2> QED BY <1>1, <2>1 DEF KeysOf
  <1>3. CASE key \in DOMAIN index
    BY <1>3 DEF Settled
  <1>4. ASSUME NEW x \in DOMAIN index, Relaxable(x), Relaxed(x) = key
        PROVE  key.schema = NoSchema /\ ~Relaxable(key)
    BY <1>2, <1>4, RelaxedKey
  <1>5. CASE key \notin DOMAIN index /\ Relaxable(key)
    BY <1>4, <1>5 DEF Settled
  <1>6. CASE key \notin DOMAIN index /\ ~Relaxable(key)
    <2>1. PICK x \in DOMAIN index : Relaxable(x) /\ Relaxed(x) = key /\ p = index[x]
      BY <1>6 DEF Settled
    <2>2. PICK y \in DOMAIN index : Relaxable(y) /\ Relaxed(y) = key /\ q = index[y]
      BY <1>6 DEF Settled
    <2> QED BY <1>1, <1>4, <2>1, <2>2
  <1> QED BY <1>3, <1>5, <1>6

LEMMA MergedNodes ==
    ASSUME NEW stores, NEW NS, NEW FS, NEW AS, NEW a, NEW d, IsGraph(d),
           Unfinished(stores, NS, FS, AS, a), MergedFrom(stores, a, d)
    PROVE  NodesKept(stores, a.maps, d)
  <1>1. Places(stores) = 1 .. Len(stores)
    BY DEF Places
  <1>2. d.nodes = a.m.nodes /\ d.keyIndex = a.m.keyIndex
    BY DEF MergedFrom
  <1>3. Indexed(d.nodes, d.keyIndex) /\ d.nodes \in Seq(NS)
    BY <1>2 DEF Unfinished, GoodAccs, Accs
  <1>4. ASSUME NEW j \in Places(stores), NEW i \in Places(stores[j].nodes)
        PROVE  Settled(d.keyIndex, KeyOf(stores[j], i), a.maps[j][i])
    BY <1>1, <1>2 DEF Unfinished, NodesUpTo
  <1>5. ASSUME NEW j \in Places(stores), NEW i \in Places(stores[j].nodes)
        PROVE  LET key == KeyOf(stores[j], i)
               IN  \/ Became(d, a.maps, j, i) = key
                   \/ Relaxable(key) /\ Became(d, a.maps, j, i) = Relaxed(key)
                   \/ Relaxable(Became(d, a.maps, j, i)) /\ key = Relaxed(Became(d, a.maps, j, i))
    BY <1>3, <1>4, SettledKey DEF Became, KeyOf
  <1>6. ASSUME NEW j \in Places(stores), NEW i \in Places(stores[j].nodes),
               NEW h \in Places(stores), NEW l \in Places(stores[h].nodes),
               KeyOf(stores[h], l) = KeyOf(stores[j], i)
        PROVE  \/ a.maps[h][l] = a.maps[j][i]
               \/ /\ h # j /\ Relaxable(Became(d, a.maps, j, i))
                  /\ Relaxable(Became(d, a.maps, h, l)) /\ KeyOf(stores[j], i).schema = NoSchema
    <2>1. CASE h = j
      BY <1>1, <1>6, <2>1 DEF Unfinished, NodesUpTo
    <2>2. CASE h # j
      <3>1. /\ Settled(d.keyIndex, KeyOf(stores[j], i), a.maps[j][i])
            /\ Settled(d.keyIndex, KeyOf(stores[j], i), a.maps[h][l])
        BY <1>4, <1>6
      <3>2. \/ a.maps[j][i] = a.maps[h][l]
            \/ /\ Relaxable(Key(d.nodes[a.maps[j][i]])) /\ Relaxable(Key(d.nodes[a.maps[h][l]]))
               /\ KeyOf(stores[j], i).schema = NoSchema
        BY <1>3, <3>1, SettledTwice
      <3> QED BY <2>2, <3>2 DEF Became, KeyOf
    <2> QED BY <2>1, <2>2
  <1>7. Cardinality(Keys(d)) = Len(d.nodes)
    <2>1. \A j, k \in Places(d.nodes) : KeyOf(d, j) = KeyOf(d, k) => j = k
      BY <1>3 DEF Indexed, KeyOf
    <2> QED BY <2>1, KeyCount
  <1> QED BY <1>5, <1>6, <1>7 DEF NodesKept

LEMMA MergedEdges ==
    ASSUME NEW stores, NEW NS, NEW FS, NEW AS, NEW a, NEW d, IsGraph(d),
           Mergeable(stores, NS, FS, AS), Unfinished(stores, NS, FS, AS, a),
           MergedFrom(stores, a, d)
    PROVE  EdgesKept(stores, a.maps, d)
  <1> DEFINE maps == a.maps
  <1>1. Places(stores) = 1 .. Len(stores)
    BY DEF Places
  <1>2. d.edges = a.m.edges
    BY DEF MergedFrom
  <1>3. EdgesUpTo(stores, a, Len(stores))
    BY DEF Unfinished
  <1>4. /\ \A x \in Places(d.edges) : d.edges[x] \in Range(d.edges)
        /\ \A e \in Range(d.edges) : \E x \in Places(d.edges) : d.edges[x] = e
    BY GraphPlaces
  <1>5. ASSUME NEW j \in Places(stores)
        PROVE  /\ IsGraph(stores[j])
               /\ \A k \in Places(stores[j].edges) : stores[j].edges[k] \in Range(stores[j].edges)
               /\ \A e \in Range(stores[j].edges) :
                     \E k \in Places(stores[j].edges) : stores[j].edges[k] = e
    <2>1. IsGraph(stores[j])
      BY DEF Mergeable
    <2> QED BY <2>1, GraphPlaces
  <1>6. ASSUME NEW j, NEW e, NEW x, Carries(d.edges[x], maps[j], e)
        PROVE  Relation(d, d.edges[x]) = Imaged(d, maps, j, e)
    BY <1>6 DEF Relation, Imaged, Became, Carries
  <1>7. ASSUME NEW j, NEW e, Arrived(d.edges, maps[j], e)
        PROVE  Imaged(d, maps, j, e) \in Relations(d)
    <2>1. PICK x \in Places(d.edges) : Carries(d.edges[x], maps[j], e)
      BY <1>7 DEF Arrived
    <2> QED BY <1>4, <1>6, <2>1 DEF Relations
  <1>8. ASSUME NEW r \in Relations(d)
        PROVE  \E j \in Places(stores) : \E e \in Range(stores[j].edges) : r = Imaged(d, maps, j, e)
    <2>1. PICK x \in Places(d.edges) : r = Relation(d, d.edges[x])
      BY <1>4 DEF Relations
    <2>2. PICK j \in Places(stores) : \E k \in Places(stores[j].edges) :
              Carries(d.edges[x], maps[j], stores[j].edges[k])
      BY <1>1, <1>2, <1>3 DEF EdgesUpTo
    <2>3. PICK k \in Places(stores[j].edges) : Carries(d.edges[x], maps[j], stores[j].edges[k])
      BY <2>2
    <2>4. r = Imaged(d, maps, j, stores[j].edges[k])
      BY <1>6, <2>1, <2>3
    <2>5. stores[j].edges[k] \in Range(stores[j].edges)
      BY <1>5
    <2> HIDE DEF maps
    <2> QED BY <2>4, <2>5
  <1>9. ASSUME NEW j \in Places(stores), NEW e \in Range(stores[j].edges), e.tag # "anchor"
        PROVE  Imaged(d, maps, j, e) \in Relations(d)
    <2>1. PICK k \in Places(stores[j].edges) : stores[j].edges[k] = e
      BY <1>5
    <2>2. Arrived(d.edges, maps[j], e)
      BY <1>1, <1>2, <1>3, <1>9, <2>1 DEF EdgesUpTo
    <2> QED BY <1>7, <2>2
  <1>10. ASSUME NEW j \in Places(stores), NEW e \in Range(stores[j].edges), e.tag = "anchor"
         PROVE  \E h \in 1 .. j : \E f \in Range(stores[h].edges) :
                   /\ f.tag = "anchor" /\ AnchorKey(stores[h], f) = AnchorKey(stores[j], e)
                   /\ Imaged(d, maps, h, f) \in Relations(d)
    <2>1. PICK k \in Places(stores[j].edges) : stores[j].edges[k] = e
      BY <1>5
    <2>2. AnchorCarried(stores, a, j, k)
      BY <1>1, <1>3, <1>10, <2>1 DEF EdgesUpTo
    <2>3. PICK h \in 1 .. j : \E f \in Places(stores[h].edges) :
              /\ stores[h].edges[f].tag = "anchor"
              /\ AnchorKey(stores[h], stores[h].edges[f]) = AnchorKey(stores[j], e)
              /\ Arrived(d.edges, maps[h], stores[h].edges[f])
      BY <1>2, <2>1, <2>2 DEF AnchorCarried
    <2>4. PICK f \in Places(stores[h].edges) :
              /\ stores[h].edges[f].tag = "anchor"
              /\ AnchorKey(stores[h], stores[h].edges[f]) = AnchorKey(stores[j], e)
              /\ Arrived(d.edges, maps[h], stores[h].edges[f])
      BY <2>3
    <2>5. h \in Places(stores)
      <3>1. j \in Nat /\ j <= Len(stores) /\ Len(stores) \in Nat
        BY <1>1 DEF Mergeable
      <3> QED BY <1>1, <3>1
    <2> QED BY <1>5, <1>7, <2>4, <2>5
  <1>11. ASSUME NEW j \in Places(stores), SingleAccess(stores[j]), NEW e \in Range(stores[j].edges)
         PROVE  e.modes \subseteq Modes(d, Became(d, maps, j, e.from), Became(d, maps, j, e.to))
    <2>1. CASE e.tag = "access"
      <3>1. PICK k \in Places(stores[j].edges) : stores[j].edges[k] = e
        BY <1>5
      <3>2. CarriedWhole(d.edges, maps[j], e)
        BY <1>1, <1>2, <1>3, <1>11, <2>1, <3>1 DEF EdgesUpTo
      <3>3. PICK x \in Places(d.edges) :
                Carries(d.edges[x], maps[j], e) /\ e.modes \subseteq d.edges[x].modes
        BY <3>2 DEF CarriedWhole
      <3>4. /\ KeyOf(d, d.edges[x].from) = Became(d, maps, j, e.from)
            /\ KeyOf(d, d.edges[x].to) = Became(d, maps, j, e.to)
        BY <3>3 DEF Carries, Became
      <3> QED BY <1>4, <3>3, <3>4 DEF Modes
    <2>2. CASE e.tag # "access"
      <3>1. e.modes = {}
        BY <1>5, <2>2 DEF IsGraph, Plain
      <3> QED BY <3>1
    <2> QED BY <2>1, <2>2
  <1> QED BY <1>8, <1>9, <1>10, <1>11 DEF EdgesKept

\* A merge of any stores which are well is well, and keeps what they said.
LEMMA MergeWell ==
    ASSUME NEW stores, NEW prefer, Len(stores) \in Nat, \A j \in Places(stores) : Well(stores[j])
    PROVE  /\ Well(Merge(stores, prefer).store)
           /\ NodesKept(stores, Merge(stores, prefer).maps, Merge(stores, prefer).store)
           /\ EdgesKept(stores, Merge(stores, prefer).maps, Merge(stores, prefer).store)
  <1> DEFINE NS == NodesOfAll(stores)
             FS == FilesOfAll(stores)
             AS == AnchorsOfAll(stores)
             d == Merge(stores, prefer).store
  <1>1. Mergeable(stores, NS, FS, AS)
    BY WellMergeable
  <1> HIDE DEF NS, FS, AS, d
  <1>2. PICK a : /\ Unfinished(stores, NS, FS, AS, a)
                 /\ Merge(stores, prefer).store = Finished(stores, a)
                 /\ Merge(stores, prefer).maps = a.maps
    BY <1>1, MergedIs
  <1>3. MergedFrom(stores, a, d)
    <2>1. a \in GoodAccs(NS, FS, AS)
      BY <1>2 DEF Unfinished
    <2>2. MergedFrom(stores, a, Finished(stores, a))
      BY <2>1, FinishedIs
    <2> QED BY <1>2, <2>2 DEF d
  <1>4. Well(d)
    BY <1>1, <1>2, <1>3, UnfinishedWell
  <1>5. IsGraph(d)
    BY <1>4 DEF Well
  <1>6. NodesKept(stores, a.maps, d)
    BY <1>2, <1>3, <1>5, MergedNodes
  <1>7. EdgesKept(stores, a.maps, d)
    BY <1>1, <1>2, <1>3, <1>5, MergedEdges
  <1> QED BY <1>2, <1>4, <1>6, <1>7 DEF d

-----------------------------------------------------------------------------
(* The commands. *)

\* The parameters an analysis takes down are those of all nodes with the key.
Parameters(g) ==
    LET defined == {i \in Places(g.nodes) : Defines(g.nodes[i])}
    IN  [k \in {KeyOf(g, i) : i \in defined} |->
            g.nodes[CHOOSE i \in defined : KeyOf(g, i) = k].file]

LEMMA AnalyzedParams ==
    ASSUME NEW g, g \in Analyzed
    PROVE  \A k \in DOMAIN Parameters(g) :
              /\ k \in Keys(g)
              /\ \A i \in Places(g.nodes) : KeyOf(g, i) = k => g.nodes[i].file = Parameters(g)[k]
  <1> DEFINE params == Parameters(g)
             defined == {x \in Places(g.nodes) : Defines(g.nodes[x])}
             At(k) == CHOOSE i \in defined : KeyOf(g, i) = k
  <1>1. /\ DOMAIN params = {KeyOf(g, i) : i \in defined}
        /\ \A k \in DOMAIN params : params[k] = g.nodes[At(k)].file
    BY DEF Parameters
  <1> HIDE DEF params
  <1>2. ASSUME NEW k \in DOMAIN params PROVE At(k) \in defined /\ KeyOf(g, At(k)) = k
    <2>1. \E i \in defined : KeyOf(g, i) = k
      BY <1>1
    <2> HIDE DEF defined
    <2> QED BY <2>1
  <1>3. \A i, j \in Places(g.nodes) :
            Defines(g.nodes[i]) /\ Key(g.nodes[i]) = Key(g.nodes[j]) => i = j
    BY StoreAssumption
  <1>4. ASSUME NEW k \in DOMAIN params, NEW i \in Places(g.nodes), KeyOf(g, i) = k
        PROVE  g.nodes[i].file = params[k]
    <2>1. At(k) \in Places(g.nodes) /\ Defines(g.nodes[At(k)]) /\ KeyOf(g, At(k)) = k
      BY <1>2
    <2> HIDE DEF At
    <2>2. At(k) = i
      BY <1>3, <1>4, <2>1 DEF KeyOf
    <2> QED BY <1>1, <2>2
  <1>5. \A k \in DOMAIN params : k \in Keys(g)
    BY <1>1 DEF Keys
  <1> QED BY <1>4, <1>5 DEF params

LEMMA AnalyzeWell == ASSUME Shelved, NEW n \in Store, Analyze(n), StoresWell PROVE StoresWell'
  <1>1. PICK g \in Analyzed : shelf' = [shelf EXCEPT ![n] =
            [FromGraph(g) EXCEPT !.params = Parameters(g),
                                 !.prints = @ \cup Variants(g, KeyIndex(g))]]
    BY DEF Analyze, Parameters
  <1> DEFINE s == [FromGraph(g) EXCEPT !.params = Parameters(g),
                                       !.prints = @ \cup Variants(g, KeyIndex(g))]
  <1>2. Well(s)
    <2>1. IsGraph(g)
      BY StoreAssumption
    <2>2. \A k \in DOMAIN Parameters(g) :
             /\ k \in Keys(g)
             /\ \A i \in Places(g.nodes) : KeyOf(g, i) = k => g.nodes[i].file = Parameters(g)[k]
      BY AnalyzedParams
    <2> QED BY <2>1, <2>2, AnalyzedWell
  <1>3. shelf' = [shelf EXCEPT ![n] = s]
    BY <1>1
  <1> HIDE DEF s
  <1> QED BY <1>2, <1>3 DEF StoresWell, Shelved

LEMMA ImportWell == ASSUME Shelved, NEW n \in Store, Import(n), StoresWell PROVE StoresWell'
  <1>1. PICK doc \in Document, force \in BOOLEAN :
            shelf' = IF Accepted(doc, force)
                     THEN [shelf EXCEPT ![n] = FromGraph(GraphOf(doc))] ELSE shelf
    BY DEF Import
  <1>2. CASE Accepted(doc, force)
    <2>1. IsDocument(doc)
      BY StoreAssumption DEF IsDocument
    <2>2. IsGraph(GraphOf(doc))
      BY <2>1, ImportedIs
    <2>3. Well(FromGraph(GraphOf(doc)))
      BY <2>2, FromGraphWell
    <2> QED BY <1>1, <1>2, <2>3 DEF StoresWell, Shelved
  <1>3. CASE ~Accepted(doc, force)
    BY <1>1, <1>3 DEF StoresWell
  <1> QED BY <1>2, <1>3

\* What a merge command does.
Merges(n, stores, prefer) ==
    /\ Len(stores) \in Nat /\ \A j \in Places(stores) : Well(stores[j])
    /\ shelf' = [shelf EXCEPT ![n] = Merge(stores, prefer).store]
    /\ last' = [op |-> "merge", from |-> stores, maps |-> Merge(stores, prefer).maps, to |-> n]

LEMMA MergeIntoIs ==
    ASSUME NEW n \in Store, MergeInto(n), StoresWell
    PROVE  \E stores : \E prefer : Merges(n, stores, prefer)
  <1>1. PICK count \in 0 .. MaxMerged, prefer \in Schema :
            \E names \in [1 .. count -> {s \in Store : ~Free(s)}] :
                LET stores == [j \in 1 .. count |-> shelf[names[j]]]
                    merged == Merge(stores, prefer)
                IN  /\ shelf' = [shelf EXCEPT ![n] = merged.store]
                    /\ last' = [op |-> "merge", from |-> stores, maps |-> merged.maps, to |-> n]
    BY DEF MergeInto
  <1>2. PICK names \in [1 .. count -> {s \in Store : ~Free(s)}] :
            LET stores == [j \in 1 .. count |-> shelf[names[j]]]
                merged == Merge(stores, prefer)
            IN  /\ shelf' = [shelf EXCEPT ![n] = merged.store]
                /\ last' = [op |-> "merge", from |-> stores, maps |-> merged.maps, to |-> n]
    BY <1>1
  <1> DEFINE stores == [j \in 1 .. count |-> shelf[names[j]]]
  <1>3. /\ shelf' = [shelf EXCEPT ![n] = Merge(stores, prefer).store]
        /\ last' = [op |-> "merge", from |-> stores, maps |-> Merge(stores, prefer).maps, to |-> n]
    BY <1>2
  <1>4. count \in Nat
    OBVIOUS
  <1>5. \A j \in 1 .. count : Well(stores[j])
    <2>1. \A j \in 1 .. count : names[j] \in Store /\ shelf[names[j]] # NoStore
      BY DEF Free
    <2> QED BY <2>1 DEF StoresWell
  <1>6. Len(stores) = count
    BY <1>4
  <1> HIDE DEF stores
  <1>7. Merges(n, stores, prefer)
    BY <1>3, <1>4, <1>5, <1>6 DEF Merges, Places
  <1> QED BY <1>7

LEMMA MergeIntoWell == ASSUME Shelved, NEW n \in Store, MergeInto(n), StoresWell PROVE StoresWell'
  <1>1. PICK stores, prefer : Merges(n, stores, prefer)
    BY MergeIntoIs
  <1>2. Well(Merge(stores, prefer).store)
    BY <1>1, MergeWell DEF Merges
  <1>3. shelf' = [shelf EXCEPT ![n] = Merge(stores, prefer).store]
    BY <1>1 DEF Merges
  <1> QED BY <1>2, <1>3 DEF StoresWell, Shelved

LEMMA DedupStoreIs ==
    ASSUME Shelved, NEW n \in Store, DedupStore(n), StoresWell
    PROVE  /\ Well(shelf[n]) /\ shelf' = [shelf EXCEPT ![n] = Dedup(shelf[n])]
           /\ shelf'[n] = Dedup(shelf[n])
           /\ last' = [op |-> "dedup", from |-> <<shelf[n]>>, to |-> n]
  BY DEF DedupStore, Free, StoresWell, Shelved

LEMMA DedupStoreWell == ASSUME Shelved, NEW n \in Store, DedupStore(n), StoresWell PROVE StoresWell'
  <1>1. Well(shelf[n]) /\ shelf' = [shelf EXCEPT ![n] = Dedup(shelf[n])]
    BY DedupStoreIs
  <1>2. Well(Dedup(shelf[n]))
    BY <1>1, DedupWell
  <1> QED BY <1>1, <1>2 DEF StoresWell, Shelved

LEMMA StoresWellStep == Shelved /\ StoresWell /\ [Next]_files => StoresWell'
  <1> SUFFICES ASSUME Shelved, StoresWell, [Next]_files PROVE StoresWell'
    OBVIOUS
  <1>1. CASE UNCHANGED files
    BY <1>1 DEF files, StoresWell
  <1>2. ASSUME NEW n \in Store, Analyze(n) PROVE StoresWell'
    BY <1>2, AnalyzeWell
  <1>3. ASSUME NEW n \in Store, Import(n) PROVE StoresWell'
    BY <1>3, ImportWell
  <1>4. ASSUME NEW n \in Store, MergeInto(n) PROVE StoresWell'
    BY <1>4, MergeIntoWell
  <1>5. ASSUME NEW n \in Store, DedupStore(n) PROVE StoresWell'
    BY <1>5, DedupStoreWell
  <1> QED BY <1>1, <1>2, <1>3, <1>4, <1>5 DEF Next

LEMMA StoresWellInit == Init => Shelved /\ StoresWell
  BY DEF Init, Shelved, StoresWell

LEMMA StoresInvariant == Spec => [](Shelved /\ StoresWell)
  <1>1. (Shelved /\ StoresWell) /\ [Next]_files => (Shelved /\ StoresWell)'
    BY ShelvedStep, StoresWellStep
  <1> QED BY <1>1, StoresWellInit, PTL DEF Spec

\* Whatever is analyzed, imported, merged and deduplicated, in whatever order and of however
\* many stores, the indexes say what the graphs say, and a routine has the parameters of the
\* definition its node is (rebuild_secondary_indexes, rebuild_all_indexes, cmd_merge).
THEOREM StoresIndexed == Spec => []IndexesAgree
  <1>1. Shelved /\ StoresWell => IndexesAgree
    BY WellAgrees
  <1> QED BY <1>1, StoresInvariant, PTL

LEMMA OtherOps ==
    ASSUME NEW n
    PROVE  /\ Analyze(n) => last' = [op |-> "build"]
           /\ Import(n) => \E x, y : last' = [op |-> "import", doc |-> x, force |-> y, to |-> n]
           /\ DedupStore(n) => last' = [op |-> "dedup", from |-> <<shelf[n]>>, to |-> n]
           /\ MergeInto(n) => \E x, y : last' = [op |-> "merge", from |-> x, maps |-> y, to |-> n]
  <1>1. MergeInto(n) => \E x, y : last' = [op |-> "merge", from |-> x, maps |-> y, to |-> n]
    BY ZenonT(30) DEF MergeInto
  <1> QED BY <1>1 DEF Analyze, Import, DedupStore

LEMMA NamesOfOps ==
    ASSUME NEW n
    PROVE  /\ Analyze(n) => last'.op = "build"
           /\ Import(n) => last'.op = "import"
           /\ DedupStore(n) => last'.op = "dedup"
           /\ MergeInto(n) => last'.op = "merge"
  BY OtherOps

LEMMA DedupStep ==
    ASSUME Shelved, StoresWell, DedupKeepsGraph, [Next]_files PROVE DedupKeepsGraph'
  <1>1. CASE UNCHANGED files
    <2>1. last' = last /\ shelf' = shelf
      BY <1>1 DEF files
    <2>2. last.op = "dedup" => DuplicatesGone /\ RelationsKept
      BY DEF DedupKeepsGraph
    <2>3. last'.op = "dedup" => DuplicatesGone' /\ RelationsKept'
      BY <2>1, <2>2 DEF DuplicatesGone, RelationsKept, Made
    <2> QED BY <2>3 DEF DedupKeepsGraph
  <1>2. ASSUME NEW n \in Store, Analyze(n) \/ Import(n) \/ MergeInto(n) PROVE DedupKeepsGraph'
    BY <1>2, NamesOfOps DEF DedupKeepsGraph
  <1>3. ASSUME NEW n \in Store, DedupStore(n) PROVE DedupKeepsGraph'
    <2> DEFINE s == shelf[n]
               d == Dedup(s)
    <2>1. Well(s) /\ shelf'[n] = d /\ last' = [op |-> "dedup", from |-> <<s>>, to |-> n]
      BY <1>3, DedupStoreIs
    <2> HIDE DEF s, d
    <2>2. last'.from[1] = s /\ last'.to = n
      BY <2>1
    <2>3. NoDuplicates(s, d) /\ SameRelations(s, d)
      <3>1. IsGraph(s) /\ \E pi : Deduplicated(s, d, pi)
        BY <2>1, DedupWell DEF Well, d
      <3> QED BY <3>1, DedupKeeps
    <2>4. Made' = d
      BY <2>1, <2>2 DEF Made
    <2>5. NoDuplicates(last'.from[1], Made') /\ SameRelations(last'.from[1], Made')
      BY <2>2, <2>3, <2>4
    <2>6. DuplicatesGone' /\ RelationsKept'
      BY <2>5 DEF NoDuplicates, SameRelations, DuplicatesGone, RelationsKept
    <2> QED BY <2>6 DEF DedupKeepsGraph
  <1> QED BY <1>1, <1>2, <1>3 DEF Next

\* Deduplication leaves of any graph one node for each key, a rich one if there was one, and
\* every relation between different keys with its modes, through chains of nodes which
\* gave way to each other and whatever numbers the removals moved (GraphStore::dedup).
THEOREM DedupsKeepGraphs == Spec => []DedupKeepsGraph
  <1>1. Init => DedupKeepsGraph
    BY DEF Init, DedupKeepsGraph
  <1>2. (Shelved /\ StoresWell) /\ DedupKeepsGraph /\ [Next]_files => DedupKeepsGraph'
    BY DedupStep
  <1> QED BY <1>1, <1>2, StoresInvariant, PTL DEF Spec

LEMMA MergeStep ==
    ASSUME Shelved, StoresWell, MergeKeepsGraphs, [Next]_files PROVE MergeKeepsGraphs'
  <1>1. CASE UNCHANGED files
    <2>1. last' = last /\ shelf' = shelf
      BY <1>1 DEF files
    <2>2. last.op = "merge" => NodesMerged /\ RelationsMerged
      BY DEF MergeKeepsGraphs
    <2>3. last'.from = last.from /\ last'.maps = last.maps /\ Made' = Made
      BY <2>1 DEF Made
    <2>4. NodesMerged => NodesMerged'
      BY <2>1 DEF NodesMerged, Made, Is
    <2>5. RelationsMerged => RelationsMerged'
      <3>1. RelationsMerged => EdgesKept(last.from, last.maps, Made)
        BY DEF EdgesKept, RelationsMerged, Imaged, Image, Became, Is
      <3>2. EdgesKept(last.from, last.maps, Made) => EdgesKept(last'.from, last'.maps, Made')
        BY <2>3
      <3>3. EdgesKept(last'.from, last'.maps, Made') => RelationsMerged'
        BY DEF EdgesKept, RelationsMerged, Imaged, Image, Became, Is
      <3> QED BY <3>1, <3>2, <3>3
    <2> QED BY <2>1, <2>2, <2>4, <2>5 DEF MergeKeepsGraphs
  <1>2. ASSUME NEW n \in Store, Analyze(n) \/ Import(n) \/ DedupStore(n) PROVE MergeKeepsGraphs'
    BY <1>2, NamesOfOps DEF MergeKeepsGraphs
  <1>3. ASSUME NEW n \in Store, MergeInto(n) PROVE MergeKeepsGraphs'
    <2>1. PICK stores, prefer : Merges(n, stores, prefer)
      BY <1>3, MergeIntoIs
    <2> DEFINE d == Merge(stores, prefer).store
               maps == Merge(stores, prefer).maps
    <2>2. shelf' = [shelf EXCEPT ![n] = d]
          /\ last' = [op |-> "merge", from |-> stores, maps |-> maps, to |-> n]
      BY <2>1 DEF Merges
    <2>3. NodesKept(stores, maps, d) /\ EdgesKept(stores, maps, d)
      BY <2>1, MergeWell DEF Merges
    <2> HIDE DEF d, maps
    <2>4. last'.from = stores /\ last'.maps = maps /\ last'.to = n
      BY <2>2
    <2>5. Made' = d
      BY <2>2, <2>4 DEF Made, Shelved
    <2>6. NodesKept(last'.from, last'.maps, Made') /\ EdgesKept(last'.from, last'.maps, Made')
      BY <2>3, <2>4, <2>5
    <2>7. NodesMerged'
      BY <2>6 DEF NodesKept, NodesMerged, Became, Is
    <2>8. RelationsMerged'
      BY <2>6 DEF EdgesKept, RelationsMerged, Imaged, Image, Became, Is
    <2> QED BY <2>7, <2>8 DEF MergeKeepsGraphs
  <1> QED BY <1>1, <1>2, <1>3 DEF Next

\* A merge of any number of stores, merged ones and one store twice among them, represents
\* every node by one with its key, but for the schema of a routine, and has every relation
\* of its stores, an anchor for one at least of the stores with its key, and no other
\* relation (GraphStore::merge).
THEOREM MergesKeepGraphs == Spec => []MergeKeepsGraphs
  <1>1. Init => MergeKeepsGraphs
    BY DEF Init, MergeKeepsGraphs
  <1>2. (Shelved /\ StoresWell) /\ MergeKeepsGraphs /\ [Next]_files => MergeKeepsGraphs'
    BY MergeStep
  <1> QED BY <1>1, <1>2, StoresInvariant, PTL DEF Spec

=============================================================================
