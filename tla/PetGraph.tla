------------------------------ MODULE PetGraph ------------------------------
(***************************************************************************)
(* petgraph's Graph as src/graph uses it: nodes and edges are numbered by  *)
(* their place, and a removal fills the gap with the last element, so that *)
(* the numbers known before are right only for what is removed in          *)
(* descending order.                                                       *)
(***************************************************************************)
EXTENDS Naturals, Sequences, FiniteSets, SequencesExt

Places(s) == 1 .. Len(s)

Ascending(s) == [i \in Places(s) |-> i]

\* What is at some of the places, in order.
Rank(places, i) == Cardinality({j \in places : j <= i})

Kept(s, places) ==
    [k \in 1 .. Cardinality(places) |-> s[CHOOSE i \in places : Rank(places, i) = k]]

SwapRemove(s, i) == [j \in 1 .. Len(s) - 1 |-> IF j = i THEN s[Len(s)] ELSE s[j]]

\* Mutant: in ascending order the gap has moved when its turn comes.
RemoveAscending(s, set) ==
    LET Left[i \in 0 .. Len(s)] ==
            IF i = 0 THEN s
            ELSE IF i \in set \cap Places(Left[i - 1]) THEN SwapRemove(Left[i - 1], i)
            ELSE Left[i - 1]
    IN  Left[Len(s)]

\* remove_edges_descending
RemoveDescending(s, set) ==
    LET Left[i \in 1 .. Len(s) + 1] ==
            IF i > Len(s) THEN s
            ELSE IF i \in set THEN SwapRemove(Left[i + 1], i) ELSE Left[i + 1]
    IN  Left[1]

\* A node takes its edges with it; the last node gets its number.
RemoveNode(g, i) ==
    LET left == Kept(g.edges, {k \in Places(g.edges) : i \notin {g.edges[k].from, g.edges[k].to}})
        At(j) == IF j = Len(g.nodes) THEN i ELSE j
    IN  [g EXCEPT !.nodes = SwapRemove(@, i),
                  !.edges = [k \in DOMAIN left |->
                               [left[k] EXCEPT !.from = At(@), !.to = At(@)]]]

\* Mutant: the nodes which go are removed as they come.
RemoveAsTheyCome(g, set) ==
    FoldLeft(LAMBDA h, i : IF i \in set /\ i <= Len(h.nodes) THEN RemoveNode(h, i) ELSE h,
             g, Ascending(g.nodes))

\* Nodes are removed in descending order.
RemoveNodes(g, set) ==
    FoldLeft(LAMBDA h, i : IF i \in set THEN RemoveNode(h, i) ELSE h,
             g, Reverse(Ascending(g.nodes)))

=============================================================================
