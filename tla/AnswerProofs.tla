---------------------------- MODULE AnswerProofs ----------------------------
(***************************************************************************)
(* The answer of module QuerySpec has what the walks from all its starts   *)
(* find, for every request, and each of these walks is as right as one     *)
(* which is done alone.                                                    *)
(***************************************************************************)
EXTENDS QuerySpec, TraversalProofs, Sums

-----------------------------------------------------------------------------
(* The queries of a request. *)

BuilderType ==
    [dir : {"outgoing", "incoming"}, cats : (SUBSET Category) \cup {AnyCat}, depth : Limit,
     until : SUBSET Node, pass : SUBSET Node]

LEMMA ApplyTyped ==
    ASSUME NEW b \in BuilderType, NEW step \in StepType
    PROVE  Apply(b, step) \in BuilderType
  <1>1. CASE step \in [action : {"outgoing", "incoming"},
                       cats : (SUBSET Category) \cup {AnyCat}, depth : Limit]
    BY <1>1 DEF Apply, BuilderType
  <1>2. CASE step \in [action : {"until", "filter"}, nodes : SUBSET Node]
    <2>1. Apply(b, step) = [b EXCEPT ![IF step.action = "until" THEN "until" ELSE "pass"]
                                = step.nodes]
      BY <1>2 DEF Apply
    <2>2. CASE step.action = "until"
      <3>1. Apply(b, step) = [b EXCEPT !.until = step.nodes]
        BY <2>1, <2>2
      <3> QED BY <1>2, <3>1 DEF BuilderType
    <2>3. CASE step.action # "until"
      <3>1. Apply(b, step) = [b EXCEPT !.pass = step.nodes]
        BY <2>1, <2>3
      <3> QED BY <1>2, <3>1 DEF BuilderType
    <2> QED BY <2>2, <2>3
  <1> QED BY <1>1, <1>2 DEF StepType

LEMMA GreatestPlace ==
    ASSUME NEW n \in Nat, NEW s \in SUBSET (1 .. n), s # {}
    PROVE  Max(s) \in s /\ \A i \in s : i <= Max(s)
  <1>1. IsFiniteSet(1 .. n)
    BY PlacesFinite
  <1>2. IsFiniteSet(s)
    BY <1>1, FS_Subset
  <1>3. \A i \in s : i \in Int
    OBVIOUS
  <1>4. s \in SUBSET Int
    BY <1>3
  <1> QED BY <1>2, <1>4, GreatestOfInts

\* Of places of which m is the last, t being the others, m says what is said there.
LastSays(steps, s, t, m) ==
    \A given, field, default :
        Latest(steps, s \cap given, field, default)
        = IF m \in given THEN steps[m][field] ELSE Latest(steps, t \cap given, field, default)

\* The last of the places at which a field is given, when one comes after all the others.
LEMMA LatestNow ==
    ASSUME NEW steps \in Seq(StepType), NEW s \in SUBSET DOMAIN steps, s # {}, NEW m, m = Max(s),
           NEW t, t = s \ {m}
    PROVE  LastSays(steps, s, t, m)
  <1> SUFFICES ASSUME NEW given, NEW field, NEW default
               PROVE  Latest(steps, s \cap given, field, default)
                      = IF m \in given THEN steps[m][field]
                        ELSE Latest(steps, t \cap given, field, default)
    BY DEF LastSays
  <1>n. PICK n \in Nat : n = Len(steps) /\ s \in SUBSET (1 .. n)
    OBVIOUS
  <1>1. CASE m \in given
    <2>1. Max(s \cap given) = m
      <3>1. PICK u \in SUBSET (1 .. n) : u = s \cap given
        BY <1>n
      <3>2. m \in u /\ \A i \in u : i <= m
        BY <1>1, <1>n, <3>1, GreatestPlace
      <3>3. Max(u) \in u /\ m <= Max(u)
        BY <3>2, GreatestPlace
      <3>4. Max(u) <= m /\ Max(u) \in 1 .. n /\ m \in 1 .. n
        BY <3>2, <3>3
      <3>5. \A i, j \in 1 .. n : i <= j /\ j <= i => i = j
        OBVIOUS
      <3> QED BY <3>1, <3>3, <3>4, <3>5
    <2>2. m \in s \cap given
      BY <1>1, <1>n, GreatestPlace
    <2> QED BY <1>1, <2>1, <2>2 DEF Latest
  <1>2. CASE m \notin given
    <2>1. s \cap given = t \cap given
      BY <1>2
    <2> QED BY <1>2, <2>1
  <1> QED BY <1>1, <1>2

\* The places of the steps which give each setting.
Walking(steps) == {i \in DOMAIN steps : steps[i].action \in {"outgoing", "incoming"}}
Choosing(steps) == {i \in Walking(steps) : steps[i].cats # AnyCat}
Limiting(steps) == {i \in Walking(steps) : steps[i].depth # NoLimit}
Stopping(steps) == {i \in DOMAIN steps : steps[i].action = "until"}
Passing(steps) == {i \in DOMAIN steps : steps[i].action = "filter"}

LEMMA MeantBySorts ==
    ASSUME NEW steps, NEW s \in SUBSET DOMAIN steps
    PROVE  MeantAt(steps, s) =
             [dir   |-> Latest(steps, s \cap Walking(steps), "action", "outgoing"),
              cats  |-> Latest(steps, s \cap Choosing(steps), "cats", AnyCat),
              depth |-> Latest(steps, s \cap Limiting(steps), "depth", NoLimit),
              until |-> Latest(steps, s \cap Stopping(steps), "nodes", {}),
              pass  |-> Latest(steps, s \cap Passing(steps), "nodes", Node)]
  <1>1. {i \in s : steps[i].action \in {"outgoing", "incoming"}} = s \cap Walking(steps)
    BY DEF Walking
  <1>2. {i \in s \cap Walking(steps) : steps[i].cats # AnyCat} = s \cap Choosing(steps)
    BY DEF Choosing
  <1>3. {i \in s \cap Walking(steps) : steps[i].depth # NoLimit} = s \cap Limiting(steps)
    BY DEF Limiting
  <1>4. {i \in s : steps[i].action \in {"until"}} = s \cap Stopping(steps)
    BY DEF Stopping
  <1>5. {i \in s : steps[i].action \in {"filter"}} = s \cap Passing(steps)
    BY DEF Passing
  <1> QED BY <1>1, <1>2, <1>3, <1>4, <1>5 DEF MeantAt

\* One more step has the last word on what it gives, and no say in the rest.
LEMMA MeantNow ==
    ASSUME NEW steps \in Seq(StepType), NEW s \in SUBSET DOMAIN steps, s # {}, NEW m, m = Max(s),
           NEW t, t = s \ {m}
    PROVE  MeantAt(steps, s) = Apply(MeantAt(steps, t), steps[m])
  <1>1. DOMAIN steps = 1 .. Len(steps) /\ Len(steps) \in Nat /\ steps[m] \in StepType /\ m \in DOMAIN steps
    <2>1. PICK n \in Nat : n = Len(steps) /\ DOMAIN steps = 1 .. n
      OBVIOUS
    <2>2. m \in s
      BY <2>1, GreatestPlace
    <2> QED BY <2>1, <2>2
  <1>2. PICK b : b = MeantAt(steps, t)
    OBVIOUS
  <1>3. t \in SUBSET DOMAIN steps
    OBVIOUS
  <1>4. b = [dir   |-> Latest(steps, t \cap Walking(steps), "action", "outgoing"),
             cats  |-> Latest(steps, t \cap Choosing(steps), "cats", AnyCat),
             depth |-> Latest(steps, t \cap Limiting(steps), "depth", NoLimit),
             until |-> Latest(steps, t \cap Stopping(steps), "nodes", {}),
             pass  |-> Latest(steps, t \cap Passing(steps), "nodes", Node)]
    BY <1>2, <1>3, MeantBySorts
  <1>b. PICK dir, cats, depth, until, pass :
            b = [dir |-> dir, cats |-> cats, depth |-> depth, until |-> until, pass |-> pass]
    BY <1>4
  <1>5. MeantAt(steps, s) =
          [dir   |-> IF m \in Walking(steps) THEN steps[m].action ELSE b.dir,
           cats  |-> IF m \in Choosing(steps) THEN steps[m].cats ELSE b.cats,
           depth |-> IF m \in Limiting(steps) THEN steps[m].depth ELSE b.depth,
           until |-> IF m \in Stopping(steps) THEN steps[m].nodes ELSE b.until,
           pass  |-> IF m \in Passing(steps) THEN steps[m].nodes ELSE b.pass]
    <2>1. \A given, field, default :
              Latest(steps, s \cap given, field, default)
              = IF m \in given THEN steps[m][field] ELSE Latest(steps, t \cap given, field, default)
      <3>1. LastSays(steps, s, t, m)
        BY LatestNow
      <3> QED BY <3>1 DEF LastSays
    <2>2. Latest(steps, s \cap Walking(steps), "action", "outgoing")
          = IF m \in Walking(steps) THEN steps[m].action ELSE b.dir
      BY <1>4, <2>1
    <2>3. Latest(steps, s \cap Choosing(steps), "cats", AnyCat)
          = IF m \in Choosing(steps) THEN steps[m].cats ELSE b.cats
      BY <1>4, <2>1
    <2>4. Latest(steps, s \cap Limiting(steps), "depth", NoLimit)
          = IF m \in Limiting(steps) THEN steps[m].depth ELSE b.depth
      BY <1>4, <2>1
    <2>5. Latest(steps, s \cap Stopping(steps), "nodes", {})
          = IF m \in Stopping(steps) THEN steps[m].nodes ELSE b.until
      BY <1>4, <2>1
    <2>6. Latest(steps, s \cap Passing(steps), "nodes", Node)
          = IF m \in Passing(steps) THEN steps[m].nodes ELSE b.pass
      BY <1>4, <2>1
    <2> QED BY <2>2, <2>3, <2>4, <2>5, <2>6, MeantBySorts
  <1>6. CASE steps[m] \in [action : {"outgoing", "incoming"},
                           cats : (SUBSET Category) \cup {AnyCat}, depth : Limit]
    <2>1. /\ m \in Walking(steps) /\ m \notin Stopping(steps) /\ m \notin Passing(steps)
          /\ m \in Choosing(steps) <=> steps[m].cats # AnyCat
          /\ m \in Limiting(steps) <=> steps[m].depth # NoLimit
      BY <1>1, <1>6 DEF Walking, Choosing, Limiting, Stopping, Passing
    <2>2. Apply(b, steps[m]) =
            [b EXCEPT !.dir = steps[m].action,
                      !.cats = IF steps[m].cats = AnyCat THEN b.cats ELSE steps[m].cats,
                      !.depth = IF steps[m].depth = NoLimit THEN b.depth ELSE steps[m].depth]
      BY <1>4, <1>6 DEF Apply
    <2>3. Apply(b, steps[m]) =
            [dir   |-> steps[m].action,
             cats  |-> IF steps[m].cats = AnyCat THEN b.cats ELSE steps[m].cats,
             depth |-> IF steps[m].depth = NoLimit THEN b.depth ELSE steps[m].depth,
             until |-> b.until, pass |-> b.pass]
      BY <1>b, <2>2
    <2> QED BY <1>2, <1>5, <2>1, <2>3
  <1>7. CASE steps[m] \in [action : {"until", "filter"}, nodes : SUBSET Node]
    <2>1. /\ m \notin Walking(steps) /\ m \notin Choosing(steps) /\ m \notin Limiting(steps)
          /\ m \in Stopping(steps) <=> steps[m].action = "until"
          /\ m \in Passing(steps) <=> steps[m].action # "until"
      BY <1>1, <1>7 DEF Walking, Choosing, Limiting, Stopping, Passing
    <2>2. Apply(b, steps[m])
          = [b EXCEPT ![IF steps[m].action = "until" THEN "until" ELSE "pass"] = steps[m].nodes]
      BY <1>7 DEF Apply
    <2>3. CASE steps[m].action = "until"
      <3>1. Apply(b, steps[m]) = [b EXCEPT !.until = steps[m].nodes]
        BY <2>2, <2>3
      <3>2. Apply(b, steps[m]) = [dir |-> b.dir, cats |-> b.cats, depth |-> b.depth,
                                  until |-> steps[m].nodes, pass |-> b.pass]
        BY <1>b, <3>1
      <3> QED BY <1>2, <1>5, <2>1, <2>3, <3>2
    <2>4. CASE steps[m].action # "until"
      <3>1. Apply(b, steps[m]) = [b EXCEPT !.pass = steps[m].nodes]
        BY <2>2, <2>4
      <3>2. Apply(b, steps[m]) = [dir |-> b.dir, cats |-> b.cats, depth |-> b.depth,
                                  until |-> b.until, pass |-> steps[m].nodes]
        BY <1>b, <3>1
      <3> QED BY <1>2, <1>5, <2>1, <2>4, <3>2
    <2> QED BY <2>3, <2>4
  <1> QED BY <1>1, <1>6, <1>7 DEF StepType

Configured(steps, F) ==
    F = [s \in SUBSET DOMAIN steps |->
            IF s = {} THEN Builder ELSE Apply(F[s \ {Max(s)}], steps[Max(s)])]

\* The settings the steps leave are those read off the last steps to give them.
LEMMA ConfigureMeans ==
    ASSUME NEW steps \in Seq(StepType)
    PROVE  Configure(steps) \in BuilderType /\ Configure(steps) = Meant(steps)
  <1> DEFINE n == Len(steps)
             g == [i \in 1 .. n |-> [b \in BuilderType |-> Apply(b, steps[i])]]
  <1>1. n \in Nat /\ DOMAIN steps = 1 .. n /\ \A i \in 1 .. n : steps[i] \in StepType
    OBVIOUS
  <1>2. Builder \in BuilderType
    BY DEF Builder, BuilderType, Limit
  <1>3. \A i \in 1 .. n, b \in BuilderType :
            g[i][b] = Apply(b, steps[i]) /\ g[i][b] \in BuilderType
    BY <1>1, ApplyTyped
  <1> HIDE DEF g
  <1>4. PICK F : /\ FoldsOn(g, Builder, SUBSET (1 .. n), F)
                 /\ \A s \in SUBSET (1 .. n) : F[s] \in BuilderType
    BY <1>1, <1>2, <1>3, FoldExists
  <1>5. ASSUME NEW s \in SUBSET (1 .. n), s # {}
        PROVE  Max(s) \in 1 .. n /\ Max(s) \in s
    BY <1>1, <1>5, PlacesFinite
  <1>6. Configured(steps, F)
    <2>1. F = [s \in SUBSET (1 .. n) |-> Folding(g, Builder, F, s)]
      BY <1>4 DEF FoldsOn
    <2>2. \A s \in SUBSET (1 .. n) :
              Folding(g, Builder, F, s)
              = IF s = {} THEN Builder ELSE Apply(F[s \ {Max(s)}], steps[Max(s)])
      BY <1>3, <1>4, <1>5 DEF Folding
    <2> QED BY <1>1, <2>1, <2>2 DEF Configured
  <1>7. PICK G : /\ Configured(steps, G) /\ Configure(steps) = G[DOMAIN steps]
    <2>1. Configure(steps) = (CHOOSE G : Configured(steps, G))[DOMAIN steps]
      BY DEF Configure, FoldLeft, MapThenFoldSet, Configured
    <2> QED BY <1>6, <2>1
  <1>8. G = [s \in SUBSET (1 .. n) |->
                IF s = {} THEN Builder ELSE Apply(G[s \ {Max(s)}], steps[Max(s)])]
    BY <1>1, <1>7 DEF Configured
  <1> DEFINE Q == {s \in SUBSET (1 .. n) : G[s] \in BuilderType /\ G[s] = MeantAt(steps, s)}
  <1>9. {} \in Q
    <2>1. MeantAt(steps, {}) = Builder
      <3>1. \A given : {} \cap given = {}
        OBVIOUS
      <3>2. \A given, field, default : Latest(steps, {} \cap given, field, default) = default
        BY <3>1 DEF Latest
      <3>3. {} \in SUBSET DOMAIN steps
        OBVIOUS
      <3>4. MeantAt(steps, {}) =
              [dir   |-> Latest(steps, {} \cap Walking(steps), "action", "outgoing"),
               cats  |-> Latest(steps, {} \cap Choosing(steps), "cats", AnyCat),
               depth |-> Latest(steps, {} \cap Limiting(steps), "depth", NoLimit),
               until |-> Latest(steps, {} \cap Stopping(steps), "nodes", {}),
               pass  |-> Latest(steps, {} \cap Passing(steps), "nodes", Node)]
        BY <3>3, MeantBySorts
      <3> QED BY <3>2, <3>4 DEF Builder
    <2> QED BY <1>2, <1>8, <2>1
  <1>10. ASSUME NEW s \in SUBSET (1 .. n), s # {}, \A x \in s : s \ {x} \in Q PROVE s \in Q
    <2>1. Max(s) \in 1 .. n /\ Max(s) \in s 
      BY <1>5, <1>10
    <2>2. G[s] = Apply(G[s \ {Max(s)}], steps[Max(s)])
      BY <1>8, <1>10
    <2>3. G[s \ {Max(s)}] \in BuilderType /\ G[s \ {Max(s)}] = MeantAt(steps, s \ {Max(s)})
      BY <1>10, <2>1
    <2>4. G[s] \in BuilderType
      BY <1>1, <2>1, <2>2, <2>3, ApplyTyped
    <2>5. G[s] = MeantAt(steps, s)
      <3>1. PICK t, m : t = s \ {m} /\ m = Max(s)
        OBVIOUS
      <3>2. s \in SUBSET DOMAIN steps /\ s # {}
        BY <1>1, <1>10
      <3>3. MeantAt(steps, s) = Apply(MeantAt(steps, t), steps[m])
        BY <3>1, <3>2, MeantNow
      <3> QED BY <2>2, <2>3, <3>1, <3>3
    <2> QED BY <1>10, <2>4, <2>5
  <1>11. 1 .. n \in Q
    <2> DEFINE S == 1 .. n
    <2>1. IsFiniteSet(S)
      BY <1>1, PlacesFinite
    <2> HIDE DEF Q, S
    <2>2. {} \in Q /\ \A s \in SUBSET S : s # {} /\ (\A x \in s : s \ {x} \in Q) => s \in Q
      BY <1>9, <1>10 DEF S
    <2>3. S \in Q
      BY <2>1, <2>2, SetInduction
    <2> QED BY <2>3 DEF S
  <1> QED BY <1>1, <1>7, <1>11 DEF Meant

Founds(edges, dir, n, F) ==
    F = [s \in SUBSET DOMAIN edges |->
            IF s = {} THEN <<>> ELSE Added(F[s \ {Max(s)}], Hop(edges[Max(s)], dir), n)]

EdgeType == [from : Node, to : Node, cat : Category]

LEMMA HopTyped ==
    ASSUME NEW e \in EdgeType, NEW dir
    PROVE  Hop(e, dir) \in Node \X Node
  BY DEF Hop, EdgeType

LEMMA AddedTyped ==
    ASSUME NEW found \in Seq(Node), NEW hop \in Node \X Node, NEW n
    PROVE  Added(found, hop, n) \in Seq(Node)
  <1>1. hop[2] \in Node
    OBVIOUS
  <1>2. <<hop[2]>> \o found \in Seq(Node)
    BY <1>1
  <1> QED BY <1>2 DEF Added

LEMMA NeighboursTyped ==
    ASSUME NEW edges \in Seq(EdgeType), NEW dir
    PROVE  Neighbours(edges, dir) \in [Node -> Seq(Node)]
  <1> SUFFICES ASSUME NEW v \in Node PROVE Neighbours(edges, dir)[v] \in Seq(Node)
    BY DEF Neighbours
  <1> DEFINE n == Len(edges)
             g == [i \in 1 .. n |-> [a \in Seq(Node) |-> Added(a, Hop(edges[i], dir), v)]]
  <1>1. n \in Nat /\ DOMAIN edges = 1 .. n /\ \A i \in 1 .. n : edges[i] \in EdgeType
    OBVIOUS
  <1>2. <<>> \in Seq(Node)
    OBVIOUS
  <1>a. \A i \in 1 .. n : Hop(edges[i], dir) \in Node \X Node
    BY <1>1, HopTyped
  <1>3. \A i \in 1 .. n, a \in Seq(Node) :
            g[i][a] = Added(a, Hop(edges[i], dir), v) /\ g[i][a] \in Seq(Node)
    BY <1>a, AddedTyped
  <1> HIDE DEF g
  <1>4. PICK F : /\ FoldsOn(g, <<>>, SUBSET (1 .. n), F)
                 /\ \A s \in SUBSET (1 .. n) : F[s] \in Seq(Node)
    BY <1>1, <1>2, <1>3, FoldExists
  <1>5. ASSUME NEW s \in SUBSET (1 .. n), s # {}
        PROVE  Max(s) \in 1 .. n /\ Max(s) \in s
    BY <1>1, <1>5, PlacesFinite
  <1>6. Founds(edges, dir, v, F)
    <2>1. F = [s \in SUBSET (1 .. n) |-> Folding(g, <<>>, F, s)]
      BY <1>4 DEF FoldsOn
    <2>2. \A s \in SUBSET (1 .. n) :
              Folding(g, <<>>, F, s)
              = IF s = {} THEN <<>> ELSE Added(F[s \ {Max(s)}], Hop(edges[Max(s)], dir), v)
      BY <1>3, <1>4, <1>5 DEF Folding
    <2> QED BY <1>1, <2>1, <2>2 DEF Founds
  <1>7. PICK G : /\ Founds(edges, dir, v, G) /\ Neighbours(edges, dir)[v] = G[DOMAIN edges]
    <2>1. Neighbours(edges, dir)[v] = (CHOOSE G : Founds(edges, dir, v, G))[DOMAIN edges]
      BY DEF Neighbours, FoldLeft, MapThenFoldSet, Founds
    <2> QED BY <1>6, <2>1
  <1>8. G = [s \in SUBSET (1 .. n) |->
                IF s = {} THEN <<>> ELSE Added(G[s \ {Max(s)}], Hop(edges[Max(s)], dir), v)]
    BY <1>1, <1>7 DEF Founds
  <1> DEFINE Q == {s \in SUBSET (1 .. n) : G[s] \in Seq(Node)}
  <1>9. {} \in Q
    BY <1>2, <1>8
  <1>10. ASSUME NEW s \in SUBSET (1 .. n), s # {}, \A x \in s : s \ {x} \in Q PROVE s \in Q
    <2>1. Max(s) \in 1 .. n /\ Max(s) \in s
      BY <1>5, <1>10
    <2>2. G[s] = Added(G[s \ {Max(s)}], Hop(edges[Max(s)], dir), v)
      BY <1>8, <1>10
    <2>3. G[s \ {Max(s)}] \in Seq(Node)
      BY <1>10, <2>1
    <2> QED BY <1>a, <2>1, <2>2, <2>3, AddedTyped
  <1>11. 1 .. n \in Q
    <2> DEFINE S == 1 .. n
    <2>1. IsFiniteSet(S)
      BY <1>1, PlacesFinite
    <2> HIDE DEF Q, S
    <2>2. {} \in Q /\ \A s \in SUBSET S : s # {} /\ (\A x \in s : s \ {x} \in Q) => s \in Q
      BY <1>9, <1>10 DEF S
    <2>3. S \in Q
      BY <2>1, <2>2, SetInduction
    <2> QED BY <2>3 DEF S
  <1> QED BY <1>1, <1>7, <1>11

LEMMA QueryMeant ==
    ASSUME NEW r \in Request
    PROVE  \A s : QueryFor(Meant(r.steps), r, s) = QueryOf(r, s)
  <1>1. r.steps \in Seq(StepType)
    BY RequestAssumption DEF RequestType
  <1>2. PICK steps \in Seq(StepType) : steps = r.steps
    BY <1>1
  <1>3. Configure(r.steps) = Meant(r.steps)
    BY <1>2, ConfigureMeans
  <1> QED BY <1>3 DEF QueryOf

LEMMA QueryTyped ==
    ASSUME NEW r \in Request, NEW s \in Node
    PROVE  QueryOf(r, s) \in QueryType
  <1>1. r \in RequestType
    BY RequestAssumption
  <1>2. PICK edges, steps : edges = r.edges /\ steps = r.steps
            /\ edges \in Seq(EdgeType) /\ steps \in Seq(StepType)
    BY <1>1 DEF RequestType, EdgeType
  <1>3. PICK made \in BuilderType : made = Configure(steps)
    BY <1>2, ConfigureMeans
  <1>4. Neighbours(edges, made.dir) \in [Node -> Seq(Node)]
    BY <1>2, NeighboursTyped
  <1>5. {Hop(e, made.dir) : e \in {x \in ToSet(edges) : Matches(made.cats, x)}}
        \in SUBSET (Node \X Node)
    <2>1. \A e \in ToSet(edges) : Hop(e, made.dir) \in Node \X Node
      <3>1. \A e \in ToSet(edges) : e \in EdgeType
        BY <1>2 DEF ToSet
      <3> QED BY <3>1, HopTyped
    <2> QED BY <2>1
  <1>6. /\ r.collect \in {"nodes", "paths", "target"} /\ r.target \in Node \cup {NoNode}
        /\ r.limit \in Limit
    BY <1>1 DEF RequestType
  <1>7. /\ made.until \in SUBSET Node /\ made.pass \in SUBSET Node /\ made.depth \in Limit
    BY DEF BuilderType
  <1>8. QueryOf(r, s) =
          [mode |-> r.collect, nbrs |-> Neighbours(edges, made.dir),
           match |-> {Hop(e, made.dir) : e \in {x \in ToSet(edges) : Matches(made.cats, x)}},
           until |-> made.until, pass |-> made.pass, start |-> s, target |-> r.target,
           depth |-> made.depth, limit |-> r.limit]
    BY <1>2, <1>3 DEF QueryOf, QueryFor
  <1> QED BY <1>4, <1>5, <1>6, <1>7, <1>8 DEF QueryType

-----------------------------------------------------------------------------
(* Each node once. *)

Firsts(s, F) ==
    F = [x \in SUBSET DOMAIN s |->
            IF x = {} THEN <<>> ELSE AddedOnce(F[x \ {Max(x)}], s[Max(x)])]

LEMMA AddedOnceKeeps ==
    ASSUME NEW V, NEW a \in Seq(V), NEW x \in V
    PROVE  /\ AddedOnce(a, x) \in Seq(V)
           /\ ToSet(AddedOnce(a, x)) = ToSet(a) \cup {x}
           /\ Distinct(a) => Distinct(AddedOnce(a, x))
  <1>1. CASE x \in ToSet(a)
    BY <1>1 DEF AddedOnce
  <1>2. CASE x \notin ToSet(a)
    <2>1. PICK b : b = Append(a, x) /\ AddedOnce(a, x) = b
      BY <1>2 DEF AddedOnce
    <2>2. /\ b \in Seq(V) /\ Len(b) = Len(a) + 1 /\ Len(a) \in Nat /\ b[Len(a) + 1] = x
          /\ \A i \in 1 .. Len(a) : b[i] = a[i]
      BY <2>1
    <2>3. ToSet(b) = ToSet(a) \cup {x}
      <3>1. DOMAIN b = 1 .. Len(b) /\ DOMAIN a = 1 .. Len(a)
        BY <2>2
      <3>2. \A i \in 1 .. Len(b) : i \in 1 .. Len(a) \/ i = Len(a) + 1
        BY <2>2
      <3>3. \A i \in 1 .. Len(a) : i \in 1 .. Len(b)
        BY <2>2
      <3>4. Len(a) + 1 \in 1 .. Len(b)
        BY <2>2
      <3> QED BY <2>2, <3>1, <3>2, <3>3, <3>4 DEF ToSet
    <2>4. ASSUME Distinct(a) PROVE Distinct(b)
      <3>1. \A i \in 1 .. Len(a) : a[i] # x
        BY <1>2 DEF ToSet
      <3> QED BY <2>2, <2>4, <3>1 DEF Distinct
    <2> QED BY <2>1, <2>2, <2>3, <2>4
  <1> QED BY <1>1, <1>2

LEMMA FirstsOnce ==
    ASSUME NEW V, NEW s \in Seq(V)
    PROVE  /\ FirstOfEach(s) \in Seq(V)
           /\ Distinct(FirstOfEach(s)) /\ ToSet(FirstOfEach(s)) = ToSet(s)
  <1> DEFINE n == Len(s)
             g == [i \in 1 .. n |-> [a \in Seq(V) |-> AddedOnce(a, s[i])]]
  <1>1. n \in Nat /\ DOMAIN s = 1 .. n /\ \A i \in 1 .. n : s[i] \in V
    OBVIOUS
  <1>2. <<>> \in Seq(V)
    OBVIOUS
  <1>3. \A i \in 1 .. n, a \in Seq(V) :
            g[i][a] = AddedOnce(a, s[i]) /\ g[i][a] \in Seq(V)
    BY <1>1, AddedOnceKeeps
  <1> HIDE DEF g
  <1>4. PICK F : /\ FoldsOn(g, <<>>, SUBSET (1 .. n), F)
                 /\ \A x \in SUBSET (1 .. n) : F[x] \in Seq(V)
    BY <1>1, <1>2, <1>3, FoldExists
  <1>5. ASSUME NEW x \in SUBSET (1 .. n), x # {}
        PROVE  Max(x) \in 1 .. n /\ Max(x) \in x
    BY <1>1, <1>5, PlacesFinite
  <1>6. Firsts(s, F)
    <2>1. F = [x \in SUBSET (1 .. n) |-> Folding(g, <<>>, F, x)]
      BY <1>4 DEF FoldsOn
    <2>2. \A x \in SUBSET (1 .. n) :
              Folding(g, <<>>, F, x)
              = IF x = {} THEN <<>> ELSE AddedOnce(F[x \ {Max(x)}], s[Max(x)])
      BY <1>3, <1>4, <1>5 DEF Folding
    <2> QED BY <1>1, <2>1, <2>2 DEF Firsts
  <1>7. PICK G : /\ Firsts(s, G) /\ FirstOfEach(s) = G[DOMAIN s]
    <2>1. FirstOfEach(s) = (CHOOSE G : Firsts(s, G))[DOMAIN s]
      BY DEF FirstOfEach, FoldLeft, MapThenFoldSet, Firsts
    <2> QED BY <1>6, <2>1
  <1>8. G = [x \in SUBSET (1 .. n) |->
                IF x = {} THEN <<>> ELSE AddedOnce(G[x \ {Max(x)}], s[Max(x)])]
    BY <1>1, <1>7 DEF Firsts
  <1> DEFINE Right(a, k) == /\ a \in Seq(V) /\ Distinct(a)
                            /\ ToSet(a) = {s[j] : j \in 1 .. k}
             Q == {k \in Nat : k <= n => Right(G[1 .. k], k)}
  <1>9. 0 \in Q
    <2>1. 1 .. 0 = {} /\ {} \in SUBSET (1 .. n)
      OBVIOUS
    <2>2. G[1 .. 0] = <<>>
      BY <1>8, <2>1
    <2>3. Right(<<>>, 0)
      <3>1. DOMAIN <<>> = {} /\ Len(<<>>) = 0
        OBVIOUS
      <3> QED BY <1>2, <2>1, <3>1 DEF Distinct, ToSet
    <2> HIDE DEF Right
    <2> QED BY <2>2, <2>3
  <1>10. ASSUME NEW k \in Nat, k \in Q PROVE k + 1 \in Q
    <2> SUFFICES ASSUME k + 1 <= n PROVE Right(G[1 .. (k + 1)], k + 1)
      OBVIOUS
    <2>1. PICK a : a = G[1 .. k]
      OBVIOUS
    <2>2. Right(a, k) /\ k + 1 \in 1 .. n
      BY <1>1, <1>10, <2>1
    <2>3. PICK x \in V : x = s[k + 1]
      BY <1>1, <2>2
    <2>4. Max(1 .. (k + 1)) = k + 1 /\ 1 .. (k + 1) # {} /\ (1 .. (k + 1)) \ {k + 1} = 1 .. k
      <3>1. k + 1 \in Nat \ {0} /\ k + 1 - 1 = k
        OBVIOUS
      <3> QED BY <3>1, LastPlace
    <2>5. 1 .. (k + 1) \in SUBSET (1 .. n)
      BY <1>1, <2>2
    <2>6. G[1 .. (k + 1)] = AddedOnce(a, x)
      BY <1>8, <2>1, <2>3, <2>4, <2>5
    <2>7. {s[j] : j \in 1 .. (k + 1)} = {s[j] : j \in 1 .. k} \cup {x}
      <3>1. \A j \in 1 .. (k + 1) : j \in 1 .. k \/ j = k + 1
        OBVIOUS
      <3>2. k + 1 \in 1 .. (k + 1) /\ \A j \in 1 .. k : j \in 1 .. (k + 1)
        OBVIOUS
      <3> QED BY <2>3, <3>1, <3>2
    <2>8. a \in Seq(V) /\ Distinct(a) /\ ToSet(a) = {s[j] : j \in 1 .. k}
      BY <2>2
    <2> HIDE DEF Right, Q, n
    <2>b. /\ AddedOnce(a, x) \in Seq(V)
          /\ ToSet(AddedOnce(a, x)) = ToSet(a) \cup {x}
          /\ Distinct(a) => Distinct(AddedOnce(a, x))
      BY <2>8, AddedOnceKeeps
    <2>9. PICK b : b = AddedOnce(a, x) /\ b \in Seq(V) /\ Distinct(b) /\ ToSet(b) = ToSet(a) \cup {x}
      BY <2>b, <2>8
    <2>10. Right(b, k + 1)
      BY <2>7, <2>8, <2>9 DEF Right
    <2> HIDE DEF Right
    <2> QED BY <2>6, <2>9, <2>10
  <1>11. Right(G[1 .. n], n)
    <2>1. Nat \subseteq Q
      <3> HIDE DEF Q
      <3> QED BY <1>9, <1>10, CountingInduction
    <2> HIDE DEF Right, n
    <2>2. n \in Q
      <3> HIDE DEF Q
      <3> QED BY <1>1, <2>1
    <2>3. n <= n
      BY <1>1
    <2> QED BY <2>2, <2>3
  <1>12. ToSet(s) = {s[j] : j \in 1 .. n}
    BY <1>1 DEF ToSet
  <1> QED BY <1>1, <1>7, <1>11, <1>12

LEMMA ToSetTyped ==
    ASSUME NEW V, NEW s \in Seq(V)
    PROVE  ToSet(s) = {s[i] : i \in 1 .. Len(s)}
  BY DEF ToSet

LEMMA Concatenated ==
    ASSUME NEW V, NEW s \in Seq(V), NEW t \in Seq(V)
    PROVE  s \o t \in Seq(V) /\ ToSet(s \o t) = ToSet(s) \cup ToSet(t)
  <1>c. s \o t \in Seq(V)
    OBVIOUS
  <1>1. PICK u \in Seq(V) : u = s \o t
    BY <1>c
  <1>2. PICK m \in Nat, n \in Nat : m = Len(s) /\ n = Len(t)
    OBVIOUS
  <1>3. Len(u) = m + n
    BY <1>1, <1>2
  <1>4. \A i \in 1 .. m : u[i] = s[i] /\ i \in 1 .. (m + n)
    BY <1>1, <1>2
  <1>5. \A i \in 1 .. n : u[m + i] = t[i] /\ m + i \in 1 .. (m + n)
    BY <1>1, <1>2
  <1>6. \A i \in 1 .. (m + n) : i \in 1 .. m \/ (i - m \in 1 .. n /\ i = m + (i - m))
    OBVIOUS
  <1>7. {u[i] : i \in 1 .. (m + n)} = {s[i] : i \in 1 .. m} \cup {t[i] : i \in 1 .. n}
    <2>1. ASSUME NEW i \in 1 .. (m + n)
          PROVE  u[i] \in {s[j] : j \in 1 .. m} \cup {t[j] : j \in 1 .. n}
      BY <1>4, <1>5, <1>6
    <2>2. ASSUME NEW i \in 1 .. m PROVE s[i] \in {u[j] : j \in 1 .. (m + n)}
      BY <1>4
    <2>3. ASSUME NEW i \in 1 .. n PROVE t[i] \in {u[j] : j \in 1 .. (m + n)}
      BY <1>5
    <2> QED BY <2>1, <2>2, <2>3
  <1>8. /\ ToSet(u) = {u[i] : i \in 1 .. (m + n)} /\ ToSet(s) = {s[i] : i \in 1 .. m}
        /\ ToSet(t) = {t[i] : i \in 1 .. n}
    BY <1>2, <1>3, ToSetTyped
  <1> QED BY <1>1, <1>7, <1>8

-----------------------------------------------------------------------------
(* What a walk is to find, of a query which is the one at hand. *)

LEMMA OfSought ==
    ASSUME NEW Q, q = Q, NEW p
    PROVE  Of(Q)!Sought(p) <=> Sought(p)
  <1>1. Of(Q)!Mode = Mode
    BY DEF Of!Mode, Mode
  <1>2. \A n, m : Of(Q)!Step(n, m) <=> Step(n, m)
    BY DEF Of!Step, Step
  <1>3. Of(Q)!Distinct(p) <=> Distinct(p)
    BY DEF Of!Distinct, Distinct
  <1>4. Of(Q)!Walkable(p) <=> Walkable(p)
    BY <1>1, <1>2, <1>3 DEF Of!Walkable, Walkable
  <1>5. Of(Q)!Short(p) <=> Short(p)
    BY DEF Of!Short, Short
  <1>6. Of(Q)!Ends(p) <=> Ends(p)
    BY <1>1, <1>2 DEF Of!Ends, Ends
  <1> QED BY <1>4, <1>5, <1>6 DEF Of!Sought, Sought

LEMMA OfThis ==
    ASSUME NEW Q, q = Q
    PROVE  /\ Of(Q)!Answer = Answer
           /\ Of(Q)!Reachable = Reachable
           /\ Of(Q)!Shown = Shown
  <1>1. Of(Q)!Shown = Shown
    BY DEF Of!Shown, Shown
  <1>2. Of(Q)!Answer = Answer
    <2>1. Of(Q)!Cardinality(Node) = Cardinality(Node)
      BY DEF Of!Cardinality, Cardinality
    <2>2. \A p : Of(Q)!Sought(p) <=> Sought(p)
      BY OfSought
    <2> QED BY <2>1, <2>2 DEF Of!Answer, Answer
  <1>3. \A n, m : Of(Q)!Step(n, m) <=> Step(n, m)
    BY DEF Of!Step, Step
  <1>4. \A n : Of(Q)!Passable(n) <=> Passable(n)
    BY DEF Of!Passable, Passable
  <1>5. \A set : Of(Q)!Closed(set) <=> Closed(set)
    BY <1>3, <1>4 DEF Of!Closed, Closed
  <1>6. Of(Q)!Reachable = Reachable
    BY <1>5 DEF Of!Reachable, Reachable
  <1> QED BY <1>1, <1>2, <1>6

-----------------------------------------------------------------------------
(* The walk from one start, whatever the walks before it left. *)

WalkInv == CompleteInv /\ OnceInv /\ LimitInv

LEMMA BegunWalks == Begun => WalkInv
  BY CompleteInit, OnceInit, LimitInit DEF WalkInv

LEMMA WalkOn == WalkInv /\ [Next]_walk => WalkInv'
  BY CompleteNext, OnceNext, LimitNext DEF WalkInv

LEMMA BegunWalksNext == Begun' => WalkInv'
  BY BegunWalks, PTL

LEMMA OnlyWhileCalls == WalkInv /\ Next => stack # <<>>
  BY BelowKept DEF WalkInv, CompleteInv, SoundInv

RowType(r) == IF r.collect = "nodes" THEN Node ELSE Seq(Node)

\* What the walk from one start adds to the answer.
ToFind(r, s) ==
    IF r.collect # "nodes" THEN Of(QueryOf(r, s))!Answer
    ELSE Of(QueryOf(r, s))!Reachable \cap Of(QueryOf(r, s))!Shown

\* Nothing cuts the walks.
Entire(r, s) ==
    r.limit = NoLimit /\ (r.collect # "nodes" \/ QueryOf(r, s).depth = NoLimit)

LEMMA WalkFinds ==
    ASSUME WalkInv, NEW r \in Request, NEW s \in Node, q = QueryOf(r, s)
    PROVE  /\ out \in Seq(RowType(r))
           /\ ToSet(out) = Results
           /\ Done /\ Entire(r, s) => ToSet(out) = ToFind(r, s)
  <1>1. PICK Q : Q = QueryOf(r, s)
    OBVIOUS
  <1>2. /\ Q.mode = r.collect /\ Q.target = r.target /\ Q.limit = r.limit
        /\ r.collect \in {"nodes", "paths", "target"}
    BY <1>1, RequestAssumption DEF QueryOf, QueryFor, RequestType
  <1>3. (Mode = "nodes") <=> (r.collect = "nodes")
    BY <1>1, <1>2 DEF Mode
  <1>4. out \in Seq(RowType(r))
    <2>1. out \in Seq(IF Mode = "nodes" THEN Node ELSE Seq(Node))
      BY DEF WalkInv, CompleteInv, SoundInv, TypeOK
    <2> QED BY <1>3, <2>1 DEF RowType
  <1>5. ToSet(out) = Results
    BY <1>4, ToSetTyped DEF Results
  <1>6. /\ Of(Q)!Answer = Answer /\ Of(Q)!Reachable = Reachable /\ Of(Q)!Shown = Shown
    BY <1>1, OfThis
  <1>7. ASSUME Done, Entire(r, s), r.collect = "nodes" PROVE Results = Reachable \cap Shown
    <2>1. Mode = "nodes" /\ q.depth = NoLimit /\ q.limit = NoLimit
      BY <1>1, <1>2, <1>3, <1>7 DEF Entire
    <2> QED BY <1>7, <2>1, DoneIsComplete DEF WalkInv, NodesComplete
  <1>8. ASSUME Done, Entire(r, s), r.collect # "nodes" PROVE Results = Answer
    <2>1. Mode # "nodes" /\ q.limit = NoLimit
      BY <1>1, <1>2, <1>3, <1>8 DEF Entire
    <2> QED BY <1>8, <2>1, DoneFound DEF WalkInv, OnceInv
  <1>9. ToFind(r, s) = IF r.collect # "nodes" THEN Answer ELSE Reachable \cap Shown
    BY <1>1, <1>6 DEF ToFind
  <1> QED BY <1>4, <1>5, <1>7, <1>8, <1>9

-----------------------------------------------------------------------------
(* The starts one after the other. *)

\* What the first k starts add to the answer.
FoundFrom(r, k) == UNION {ToFind(r, r.starts[j]) : j \in 1 .. k}

\* The walk at hand is that from the k-th start.
AtStart(k) ==
    /\ k \in 1 .. Len(req.starts)
    /\ q = QueryOf(req, req.starts[k])
    /\ todo \in Seq(Node) /\ Len(todo) = Len(req.starts) - k
    /\ \A i \in 1 .. Len(todo) : todo[i] = req.starts[k + i]
    /\ ~answered =>
          /\ rows \in Seq(RowType(req))
          /\ Entire(req, req.starts[k]) => ToSet(rows) = FoundFrom(req, k - 1)

ExecInv ==
    /\ req \in Request
    /\ WalkInv
    /\ \E k \in Nat : AtStart(k)
    /\ answered => Done /\ todo = <<>> /\ AnswerIsUnion

LEMMA StartsTyped ==
    ASSUME NEW r \in Request
    PROVE  r.starts \in Seq(Node) /\ Len(r.starts) \in Nat \ {0}
  <1>1. r.starts \in Seq(Node) /\ r.starts # <<>>
    BY RequestAssumption DEF RequestType
  <1> QED BY <1>1

LEMMA SameMaking ==
    ASSUME NEW r, NEW s, NEW t
    PROVE  /\ QueryOf(r, s).depth = QueryOf(r, t).depth
           /\ Of(QueryOf(r, s))!Shown = Of(QueryOf(r, t))!Shown
           /\ Entire(r, s) <=> Entire(r, t)
  <1>1. PICK Q : Q = QueryOf(r, s)
    OBVIOUS
  <1>2. PICK P : P = QueryOf(r, t)
    OBVIOUS
  <1>3. Q.depth = P.depth /\ Q.pass = P.pass /\ Q.until = P.until
    BY <1>1, <1>2 DEF QueryOf, QueryFor
  <1>4. Of(Q)!Shown = Of(P)!Shown
    BY <1>3 DEF Of!Shown
  <1> QED BY <1>1, <1>2, <1>3, <1>4 DEF Entire

LEMMA BeginsAt ==
    ASSUME NEW r \in Request, NEW s \in Node, q = QueryOf(r, s), stack = <<Frame(q.start)>>,
           visited = IF q.mode = "nodes" THEN {} ELSE {q.start}, out = <<>>
    PROVE  Begun
  BY QueryTyped DEF Begun

LEMMA BeginsAtNext ==
    ASSUME NEW r \in Request, NEW s \in Node, q' = QueryOf(r, s), stack' = <<Frame(q'.start)>>,
           visited' = IF q'.mode = "nodes" THEN {} ELSE {q'.start}, out' = <<>>
    PROVE  Begun'
  BY QueryTyped DEF Begun, Frame

LEMMA ExecInit == ExecuteInit => ExecInv
  <1> SUFFICES ASSUME ExecuteInit PROVE ExecInv
    OBVIOUS
  <1>1. PICK r \in Request : r = req
    BY DEF ExecuteInit
  <1>2. PICK s \in Seq(Node) : s = r.starts /\ Len(s) \in Nat \ {0}
    BY <1>1, StartsTyped
  <1>3. Head(s) = s[1] /\ s[1] \in Node
    BY <1>2
  <1>4. WalkInv
    BY <1>1, <1>2, <1>3, BeginsAt, BegunWalks DEF ExecuteInit
  <1>5. todo \in Seq(Node) /\ Len(todo) = Len(s) - 1
        /\ \A i \in 1 .. Len(todo) : todo[i] = s[1 + i]
    <2>1. todo = Tail(s)
      BY <1>1, <1>2 DEF ExecuteInit
    <2> QED BY <1>2, <2>1
  <1>6. FoundFrom(r, 1 - 1) = {} /\ rows = <<>> /\ rows \in Seq(RowType(r)) /\ ToSet(rows) = {}
    <2>1. 1 .. (1 - 1) = {}
      OBVIOUS
    <2>2. rows = <<>>
      BY DEF ExecuteInit
    <2>3. DOMAIN <<>> = {}
      OBVIOUS
    <2> QED BY <2>1, <2>2, <2>3 DEF FoundFrom, ToSet
  <1>7. AtStart(1)
    <2>1. 1 \in 1 .. Len(s)
      BY <1>2
    <2>2. q = QueryOf(r, s[1])
      BY <1>1, <1>2, <1>3 DEF ExecuteInit
    <2> QED BY <1>1, <1>2, <1>5, <1>6, <2>1, <2>2 DEF AtStart
  <1> QED BY <1>4, <1>7 DEF ExecInv, ExecuteInit

\* What the next walk finds comes to what those before it found.
LEMMA NextFound ==
    ASSUME NEW r, NEW k \in Nat \ {0}
    PROVE  FoundFrom(r, k) = FoundFrom(r, k - 1) \cup ToFind(r, r.starts[k])
  <1>1. \A j \in 1 .. k : j \in 1 .. (k - 1) \/ j = k
    OBVIOUS
  <1>2. k \in 1 .. k /\ \A j \in 1 .. (k - 1) : j \in 1 .. k
    OBVIOUS
  <1> QED BY <1>1, <1>2 DEF FoundFrom

LEMMA StartIsNode ==
    ASSUME NEW r \in Request, NEW k \in 1 .. Len(r.starts)
    PROVE  r.starts[k] \in Node
  BY StartsTyped

\* The rows, with those of the walk which is done.
LEMMA RowsJoined ==
    ASSUME ExecInv, Done, ~answered, NEW k \in Nat, AtStart(k)
    PROVE  /\ rows \o out \in Seq(RowType(req))
           /\ Entire(req, req.starts[k]) => ToSet(rows \o out) = FoundFrom(req, k)
  <1>1. PICK r \in Request : r = req
    BY DEF ExecInv
  <1>2. k \in 1 .. Len(r.starts) /\ q = QueryOf(r, r.starts[k])
    BY <1>1 DEF AtStart
  <1>3. PICK s \in Node : s = r.starts[k]
    BY <1>2, StartIsNode
  <1>4. /\ out \in Seq(RowType(r))
        /\ Entire(r, s) => ToSet(out) = ToFind(r, s)
    BY <1>2, <1>3, WalkFinds DEF ExecInv
  <1>5. /\ rows \in Seq(RowType(r))
        /\ Entire(r, s) => ToSet(rows) = FoundFrom(r, k - 1)
    BY <1>1, <1>3 DEF AtStart
  <1>6. rows \o out \in Seq(RowType(r)) /\ ToSet(rows \o out) = ToSet(rows) \cup ToSet(out)
    BY <1>4, <1>5, Concatenated
  <1>7. FoundFrom(r, k) = FoundFrom(r, k - 1) \cup ToFind(r, r.starts[k])
    <2>1. k \in Nat \ {0}
      BY <1>2, StartsTyped
    <2> QED BY <2>1, NextFound
  <1> QED BY <1>1, <1>3, <1>4, <1>5, <1>6, <1>7

LEMMA WalkKeeps == ExecInv /\ Walk => ExecInv'
  <1> SUFFICES ASSUME ExecInv, Walk PROVE ExecInv'
    OBVIOUS
  <1>1. Next /\ req' = req /\ todo' = todo /\ rows' = rows /\ answered' = answered
    BY DEF Walk
  <1>2. WalkInv' /\ q' = q
    BY <1>1, WalkOn, QueryKept DEF ExecInv
  <1>3. ~answered
    BY <1>1, OnlyWhileCalls DEF ExecInv, Done
  <1>4. PICK k \in Nat : AtStart(k)
    BY DEF ExecInv
  <1>5. AtStart(k)'
    BY <1>1, <1>2, <1>4 DEF AtStart
  <1> QED BY <1>1, <1>2, <1>3, <1>5 DEF ExecInv

LEMMA NextStartKeeps == ExecInv /\ NextStart => ExecInv'
  <1> SUFFICES ASSUME ExecInv, NextStart PROVE ExecInv'
    OBVIOUS
  <1>1. /\ Done /\ todo # <<>> /\ rows' = rows \o out /\ todo' = Tail(todo)
        /\ req' = req /\ answered' = answered /\ ~answered
    BY DEF NextStart, ExecInv
  <1>2. PICK k \in Nat : AtStart(k)
    BY DEF ExecInv
  <1>3. PICK r \in Request : r = req
    BY DEF ExecInv
  <1>4. PICK s \in Seq(Node), n \in Nat \ {0} : s = r.starts /\ n = Len(s)
    BY StartsTyped
  <1>5. PICK t \in Seq(Node) : t = todo
    BY <1>2 DEF AtStart
  <1>6. /\ k \in 1 .. n /\ Len(t) = n - k /\ t # <<>>
        /\ \A i \in 1 .. Len(t) : t[i] = s[k + i]
    BY <1>1, <1>2, <1>3, <1>4, <1>5 DEF AtStart
  <1>7. k + 1 \in 1 .. n /\ Head(t) = s[k + 1] /\ s[k + 1] \in Node
    <2>1. Len(t) \in Nat \ {0}
      BY <1>5, <1>6
    <2>2. Head(t) = t[1] /\ 1 \in 1 .. Len(t)
      BY <2>1
    <2>3. k + 1 \in 1 .. n
      BY <1>6, <2>1
    <2> QED BY <1>4, <1>6, <2>2, <2>3
  <1>8. /\ q' = QueryOf(r, s[k + 1]) /\ stack' = <<Frame(q'.start)>>
        /\ visited' = (IF q'.mode = "nodes" THEN {} ELSE {q'.start})
        /\ out' = <<>>
    <2>1. q' = QueryOf(req, Head(todo))
      BY DEF NextStart
    <2>2. q' = QueryOf(r, s[k + 1])
      BY <1>3, <1>5, <1>7, <2>1
    <2> QED BY <2>2 DEF NextStart
  <1>9. WalkInv'
    <2>1. PICK v \in Node : v = s[k + 1]
      BY <1>7
    <2>2. Begun'
      BY <1>8, <2>1, BeginsAtNext
    <2> QED BY <2>2, BegunWalksNext
  <1>10. PICK u : u = Tail(t)
    OBVIOUS
  <1>11. /\ u \in Seq(Node) /\ Len(u) = n - (k + 1)
         /\ \A i \in 1 .. Len(u) : u[i] = s[(k + 1) + i]
    <2>1. /\ u \in Seq(Node) /\ Len(u) = Len(t) - 1 /\ Len(t) \in Nat \ {0}
          /\ \A i \in 1 .. Len(u) : u[i] = t[i + 1] /\ i + 1 \in 1 .. Len(t)
      BY <1>6, <1>10
    <2>2. \A i \in 1 .. Len(u) : k + (i + 1) = (k + 1) + i
      BY <2>1
    <2>3. \A i \in 1 .. Len(u) : t[i + 1] = s[k + (i + 1)]
      BY <1>6, <2>1
    <2> QED BY <1>6, <2>1, <2>2, <2>3
  <1>12. /\ rows' \in Seq(RowType(r))
         /\ Entire(r, s[k]) => ToSet(rows') = FoundFrom(r, k)
    BY <1>1, <1>2, <1>3, <1>4, RowsJoined
  <1>13. Entire(r, s[k + 1]) => Entire(r, s[k])
    BY SameMaking
  <1>14. AtStart(k + 1)'
    <2>1. k + 1 - 1 = k
      OBVIOUS
    <2>2. req' = r /\ todo' = u /\ r.starts = s /\ Len(s) = n
      BY <1>1, <1>3, <1>4, <1>5, <1>10
    <2>3. /\ k + 1 \in 1 .. Len(req'.starts)
          /\ q' = QueryOf(req', req'.starts[k + 1])
          /\ todo' \in Seq(Node) /\ Len(todo') = Len(req'.starts) - (k + 1)
          /\ \A i \in 1 .. Len(todo') : todo'[i] = req'.starts[(k + 1) + i]
      BY <1>7, <1>8, <1>11, <2>2
    <2>4. /\ rows' \in Seq(RowType(req'))
          /\ Entire(req', req'.starts[k + 1]) => ToSet(rows') = FoundFrom(r, (k + 1) - 1)
      BY <1>12, <1>13, <2>1, <2>2
    <2> QED BY <2>2, <2>3, <2>4 DEF AtStart
  <1>15. k + 1 \in Nat
    OBVIOUS
  <1> QED BY <1>1, <1>3, <1>9, <1>14, <1>15 DEF ExecInv

\* All starts are done: what they found is the answer.
LEMMA AllFound ==
    ASSUME NEW r \in Request, NEW n, n = Len(r.starts)
    PROVE  /\ r.collect # "nodes" =>
                FoundFrom(r, n) = UNION {Of(QueryOf(r, s))!Answer : s \in ToSet(r.starts)}
           /\ r.collect = "nodes" =>
                FoundFrom(r, n)
                = UNION {Of(QueryOf(r, s))!Reachable \cap Of(QueryOf(r, s))!Shown :
                         s \in ToSet(r.starts)}
  <1>1. ToSet(r.starts) = {r.starts[j] : j \in 1 .. n}
    BY StartsTyped, ToSetTyped
  <1>2. FoundFrom(r, n) = UNION {ToFind(r, s) : s \in ToSet(r.starts)}
    BY <1>1 DEF FoundFrom
  <1>3. ASSUME r.collect # "nodes"
        PROVE  \A s : ToFind(r, s) = Of(QueryOf(r, s))!Answer
    BY <1>3 DEF ToFind
  <1>4. ASSUME r.collect = "nodes"
        PROVE  \A s : ToFind(r, s) = Of(QueryOf(r, s))!Reachable \cap Of(QueryOf(r, s))!Shown
    BY <1>4 DEF ToFind
  <1>5. r.collect # "nodes" =>
          FoundFrom(r, n) = UNION {Of(QueryOf(r, s))!Answer : s \in ToSet(r.starts)}
    BY <1>2, <1>3
  <1>6. ASSUME r.collect = "nodes"
        PROVE  FoundFrom(r, n)
                = UNION {Of(QueryOf(r, s))!Reachable \cap Of(QueryOf(r, s))!Shown :
                         s \in ToSet(r.starts)}
    BY <1>2, <1>4, <1>6
  <1> QED BY <1>5, <1>6

LEMMA ReplyKeeps == ExecInv /\ Reply => ExecInv'
  <1> SUFFICES ASSUME ExecInv, Reply PROVE ExecInv'
    OBVIOUS
  <1>1. /\ Done /\ todo = <<>> /\ ~answered /\ answered'
        /\ req' = req /\ todo' = todo
    BY DEF Reply
  <1>w. q' = q /\ stack' = stack /\ visited' = visited /\ out' = out
    BY DEF Reply, walk
  <1>2. WalkInv'
    <2>1. [Next]_walk
      BY <1>w DEF walk
    <2> QED BY <2>1, WalkOn DEF ExecInv
  <1>3. PICK k \in Nat : AtStart(k)
    BY DEF ExecInv
  <1>4. PICK r \in Request : r = req
    BY DEF ExecInv
  <1>5. /\ k = Len(r.starts) /\ q = QueryOf(r, r.starts[k])
    BY <1>1, <1>3, <1>4, StartsTyped DEF AtStart
  <1>6. PICK s : s = r.starts[k]
    OBVIOUS
  <1>7. PICK all \in Seq(RowType(r)) : /\ all = rows \o out
                                       /\ Entire(r, s) => ToSet(all) = FoundFrom(r, k)
    BY <1>1, <1>3, <1>4, <1>6, RowsJoined
  <1>8. rows' = IF r.collect = "nodes" THEN FirstOfEach(all) ELSE all
    BY <1>4, <1>7 DEF Reply
  <1>9. /\ ToSet(rows') = ToSet(all)
        /\ r.collect = "nodes" => Distinct(rows')
    <2>1. ToSet(FirstOfEach(all)) = ToSet(all) /\ Distinct(FirstOfEach(all))
      BY FirstsOnce
    <2> QED BY <1>8, <2>1
  <1>10. \A x : QueryFor(Meant(r.steps), r, x) = QueryOf(r, x)
    BY QueryMeant
  <1>11. QueryOf(r, s).depth = Meant(r.steps).depth
    BY <1>10 DEF QueryFor
  <1>12. ASSUME r.limit = NoLimit, r.collect # "nodes"
         PROVE  ToSet(rows') = UNION {Of(QueryFor(Meant(r.steps), r, x))!Answer : x \in ToSet(r.starts)}
    <2>1. Entire(r, s)
      BY <1>12 DEF Entire
    <2>2. ToSet(rows') = UNION {Of(QueryOf(r, x))!Answer : x \in ToSet(r.starts)}
      BY <1>5, <1>7, <1>9, <1>12, <2>1, AllFound
    <2> QED BY <1>10, <2>2
  <1>13. ASSUME r.limit = NoLimit, r.collect = "nodes", Meant(r.steps).depth = NoLimit
         PROVE  ToSet(rows') = UNION {Of(QueryFor(Meant(r.steps), r, x))!Reachable
                                      \cap Of(QueryFor(Meant(r.steps), r, x))!Shown :
                                      x \in ToSet(r.starts)}
    <2>1. Entire(r, s)
      BY <1>11, <1>13 DEF Entire
    <2>2. FoundFrom(r, k) = UNION {Of(QueryOf(r, x))!Reachable \cap Of(QueryOf(r, x))!Shown :
                                   x \in ToSet(r.starts)}
      BY <1>5, <1>13, AllFound
    <2>3. ToSet(rows') = UNION {Of(QueryOf(r, x))!Reachable \cap Of(QueryOf(r, x))!Shown :
                                x \in ToSet(r.starts)}
      BY <1>7, <1>9, <2>1, <2>2
    <2> QED BY <1>10, <2>3
  <1>14. AnswerIsUnion'
    <2>1. Starts' = ToSet(r.starts) /\ req' = r
      BY <1>1, <1>4 DEF Starts
    <2> QED BY <1>9, <1>12, <1>13, <2>1 DEF AnswerIsUnion, MeantFrom
  <1>15. AtStart(k)'
    BY <1>1, <1>3, <1>w DEF AtStart
  <1>16. Done' /\ todo' = <<>>
    BY <1>1, <1>w DEF Done
  <1> QED BY <1>1, <1>2, <1>4, <1>14, <1>15, <1>16 DEF ExecInv

LEMMA ExecNext == ExecInv /\ [ExecuteNext]_execution => ExecInv'
  <1> SUFFICES ASSUME ExecInv, [ExecuteNext]_execution PROVE ExecInv'
    OBVIOUS
  <1>1. CASE UNCHANGED execution
    <2>1. /\ q' = q /\ stack' = stack /\ visited' = visited /\ out' = out
          /\ req' = req /\ todo' = todo /\ rows' = rows /\ answered' = answered
      BY <1>1 DEF execution, walk
    <2>2. WalkInv'
      <3>1. [Next]_walk
        BY <2>1 DEF walk
      <3> QED BY <3>1, WalkOn DEF ExecInv
    <2>3. PICK k \in Nat : AtStart(k)
      BY DEF ExecInv
    <2>4. AtStart(k)'
      BY <2>1, <2>3 DEF AtStart
    <2>5. answered => Done' /\ todo' = <<>> /\ AnswerIsUnion'
      <3>1. Starts' = Starts /\ (Done' <=> Done)
        BY <2>1 DEF Starts, Done
      <3>2. AnswerIsUnion => AnswerIsUnion'
        BY <2>1, <3>1 DEF AnswerIsUnion, MeantFrom
      <3> QED BY <2>1, <3>1, <3>2 DEF ExecInv
    <2> QED BY <2>1, <2>2, <2>4, <2>5 DEF ExecInv
  <1> QED BY <1>1, WalkKeeps, NextStartKeeps, ReplyKeeps DEF ExecuteNext

\* The answer to a query has every path from some start, or every node some start
\* reaches, once, by the settings the last steps to give them give: no walk hides from the
\* next what it visited, and the fold over the steps leaves no other setting, for every
\* request.
THEOREM AnswersAreUnions == ExecuteSpec => []AnswerIsUnion
  <1>1. ExecInv => AnswerIsUnion
    BY DEF ExecInv, AnswerIsUnion
  <1> QED BY <1>1, ExecInit, ExecNext, PTL DEF ExecuteSpec

\* In the course of a query each of its walks has found what it should, nothing else,
\* and no node twice, whatever the walks before it found.
THEOREM WalksAreRight ==
    ExecuteSpec => [](NodesSound /\ NodesComplete /\ PathsSound /\ PathsComplete)
  <1>1. ASSUME WalkInv PROVE NodesSound /\ NodesComplete /\ PathsSound /\ PathsComplete
    <2>1. CompleteInv /\ SoundInv /\ OnceInv /\ LimitInv /\ FoundInv /\ PathInv
      BY <1>1 DEF WalkInv, CompleteInv, OnceInv, FoundInv
    <2>2. NodesSound
      BY <2>1 DEF SoundInv, NodesSound
    <2>3. PathsSound
      BY <2>1 DEF PathInv
    <2>4. PathsComplete
      BY <2>1, DoneFound DEF OnceInv, LimitInv, Limited, PathsComplete
    <2> QED BY <2>1, <2>2, <2>3, <2>4, DoneIsComplete
  <1>2. ExecInv => NodesSound /\ NodesComplete /\ PathsSound /\ PathsComplete
    BY <1>1 DEF ExecInv
  <1> QED BY <1>2, ExecInit, ExecNext, PTL DEF ExecuteSpec

=============================================================================
