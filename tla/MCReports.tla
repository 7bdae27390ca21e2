----------------------------- MODULE MCReports ------------------------------
(***************************************************************************)
(* What is read off a graph once it is built, each in a process of its     *)
(* own: a query of MCQuerySpec, the explorer, on graphs of up to four      *)
(* nodes, the partition command on those of MCClusters, an answer to a     *)
(* question of MCReach, or the search for a statement.                     *)
(***************************************************************************)
EXTENDS MCQuerySpec, Explorer, SqlSearch, MCClusters, MCReach

-----------------------------------------------------------------------------
(* The explorer. *)


Item(kind, file, name, on, ranks) ==
    [kind |-> kind, file |-> file, name |-> name, on |-> on, ranks |-> ranks]

\* By name p finds the routines and t the table; by statement t finds a routine.
Ranks(p, t, statement) ==
    [name |-> [p |-> p, t |-> t], sql |-> [p |-> 0, t |-> statement]]

Routine(file, rank, statement) == Item("routine", file, "p", "", Ranks(rank, 0, statement))
Builtin == Item("builtin", NoFile, "b", "", Ranks(3, 0, 0))
Table == Item("table", "f1", "t", "", Ranks(0, 1, 0))
Index == Item("index", "f2", "i", "", Ranks(0, 3, 0))
Trigger == Item("trigger", "f2", "g", "t", Ranks(0, 2, 0))

Edge(from, to, label) == [from |-> from, to |-> to, label |-> label]
Calls(pairs) == [i \in DOMAIN pairs |-> Edge(pairs[i][1], pairs[i][2], "calls")]

ThreeOf == <<Routine("f1", 2, 0), Routine("f2", 1, 1), Builtin>>
FourOf == <<Routine("f1", 2, 0), Routine("f2", 1, 1), Routine("f2", 0, 0), Builtin>>

Pairs(n) == (1 .. n) \X (1 .. n)

\* All graphs of four calls between three nodes of which the first is the same.
FourCalls ==
    {[nodes |-> ThreeOf, edges |-> Calls(<<<<1, 2>>, second, third, last>>)] :
        second \in Pairs(3), third \in Pairs(3), last \in Pairs(3)}

Larger ==
    {[nodes |-> FourOf, edges |-> Calls(e)] :
        e \in {<<<<1, 2>>, <<1, 3>>, <<2, 4>>, <<3, 4>>, <<4, 1>>>>,
               <<<<1, 2>>, <<2, 3>>, <<3, 1>>, <<2, 4>>, <<1, 4>>>>,
               <<<<1, 2>>, <<2, 3>>, <<3, 4>>, <<1, 4>>, <<4, 3>>>>}}

Mixed ==
    [nodes |-> <<Routine("f1", 1, 1), Table, Index, Trigger>>,
     edges |-> <<Edge(1, 2, "reads"), Edge(1, 2, "anchors"), Edge(3, 2, "indexes"),
                 Edge(4, 1, "triggers"), Edge(1, 1, NoLabel)>>]

Empty == [nodes |-> <<>>, edges |-> <<>>]

\* Those the trees are checked on, and those keys are tried on.
FewGraphs == {Mixed, Empty} \cup {[nodes |-> ThreeOf, edges |-> Calls(<<<<1, 2>>, <<2, 3>>>>)]}
TracedGraphs == FourCalls \cup Larger \cup FewGraphs

Typed == {"p", "t"}

-----------------------------------------------------------------------------
(* Statements. *)

Numbers2 == {"1", "7", "'x'"}

\* Words as one writes them.
Written(words) ==
    LET Glued(x, y) == \/ y \in {",", ")", ";", "."} \/ x \in {"(", "."}
                       \/ y = "(" /\ x \in {"pay", "rate", "close"}
        Put1(text, w) == text \o (IF text = <<>> \/ Glued(Last(text), w) THEN <<w>> ELSE <<Blank, w>>)
    IN  FoldLeft(Put1, <<>>, words)

\* A statement in a routine or a file, and as it is in a log.
Logged(text, runs) == [text |-> Written(text), runs |-> Written(runs)]
AsIs(text) == Logged(text, text)

Where(column, value) == <<"where", column, "=", value>>

PickA == Logged(<<"select", "a", "into", "v", "from", "t">> \o Where("b", "p"),
                <<"select", "a", "from", "t">> \o Where("b", "p"))
PickTwo == Logged(<<"select", "a", ",", "b", "into", "v", ",", "p", "from", "t", "for", "update">>,
                  <<"select", "a", ",", "b", "from", "t", "for", "update">>)
Held == AsIs(<<"select", "a", "from", "t">> \o Where("b", "7") \o <<"for", "share">>)
Locked == AsIs(<<"select", "a", "from", "u">> \o Where("b", "'x'") \o <<"for", "update">>)
Change == AsIs(<<"update", "t", "set", "a", "=", "7">> \o Where("b", "p"))
PutIn == AsIs(<<"insert", "into", "u", "(", "a", ",", "b", ")", "values", "(", "p", ",", "7", ")">>)
Remove2 == AsIs(<<"delete", "from", "t">> \o Where("a", "$b"))
Merge2 == AsIs(<<"merge", "into", "t", "using", "u", "on", "a", "=", "b">>)
Both == AsIs(<<"select", "a", "from", "t", ",", "u">> \o Where("b", "7"))
Always == AsIs(<<"select", "a", "from", "t", "where", "1", "=", "1", "and", "b", "=", "$b", ";">>)
Wide == AsIs(<<"with", "u", "as", "(", "select", "a", "from", "t">> \o Where("b", "7")
                 \o <<")", "select", "a", "from", "u", "for", "no", "key", "update", "--c">>)
Started2 == AsIs(<<"call", "pay", "(", "p", ")">>)
Bound == AsIs(<<"call", "pay", "(", "$b", ",", "$b", ")">>)
BoundTwice == AsIs(<<"call", "pay", "(", "$b", ",", "price", "+", "$b", ")">>)
Computed == AsIs(<<"select", "rate", "(", "7", ")", "from", "t">>)
Packaged == AsIs(<<"select", "k", ".", "rate", "(", "'x'", ")">>)
Committed == AsIs(<<"commit">>)

Source(kind, name, sql) == [kind |-> kind, name |-> name, sql |-> sql, variants |-> <<>>]
Dynamic(sql, variants) == [Source("mapper", "m", sql) EXCEPT !.variants = variants]

Pay == Source("routine", "pay", <<PickA, Change, Committed>>)
Rate == Source("routine", "rate", <<PickTwo, PutIn>>)
Shut == Source("routine", "close", <<Started2, Computed, Both>>)
TableT == Source("table", "t", <<>>)
ViewU == Source("view", "u", <<>>)

\* A chain, a cycle, a diamond with parallel edges; and mappers with a statement of a routine.
Searched ==
    {[nodes |-> <<Pay, Shut, TableT>>, edges |-> <<<<2, 1>>, <<1, 3>>>>],
     [nodes |-> <<Pay, Rate, Shut, TableT>>,
      edges |-> <<<<3, 1>>, <<3, 2>>, <<3, 2>>, <<1, 4>>, <<2, 4>>, <<2, 3>>>>],
     [nodes |-> <<Source("routine", "pay", <<Change, Packaged, Remove2>>), Dynamic(<<Change>>, <<Remove2>>), ViewU>>,
      edges |-> <<<<2, 1>>, <<1, 3>>, <<1, 1>>>>],
     [nodes |-> <<Source("javasql", "j", <<Held>>), Dynamic(<<Always>>, <<Locked, PickA>>),
                  Source("routine", "rate", <<Wide, Merge2, Held>>), TableT>>,
      edges |-> <<<<1, 4>>, <<2, 4>>, <<3, 4>>>>],
     [nodes |-> <<Source("javasql", "j", <<Bound>>), Dynamic(<<BoundTwice>>, <<>>)>>, edges |-> <<>>]}

NoSearch ==
    /\ sources = [nodes |-> <<>>, edges |-> <<>>] /\ indexes = [fingerprints |-> {}, locks |-> {}]
    /\ row = NotYet /\ matched = NotYet
-----------------------------------------------------------------------------
(* One of them. *)

NoWalk ==
    /\ req = Ask(<<>>, <<a>>, <<Out(NoLimit)>>, "paths", NoNode, 0) /\ q = QueryOf(req, a)
    /\ stack = <<>> /\ visited = {} /\ out = <<>> /\ todo = <<>> /\ rows = <<>> /\ answered = TRUE

NoExplorer ==
    /\ store = Empty /\ screen = "none" /\ list = <<>> /\ selected = 1 /\ detail = NoDetail
    /\ search = [typing |-> FALSE, sort |-> "name", query |-> NoQuery]
    /\ options = [style |-> "tree", attributes |-> TRUE, low |-> FALSE, threshold |-> 0, files |-> FALSE]

NoRequest ==
    [graph |-> Empty, option |-> Opt(FALSE, NoK, 20, 0, 0, 1, 0), units |-> <<>>, coupling |-> <<>>]

NoPartition ==
    /\ request = NoRequest
    /\ aim = Aim(NoK, 20, FALSE) /\ later = <<>> /\ sweep = <<>> /\ report = <<>>
    /\ cnm = Started(<<>>, 20)

NoQuestion == question = [sort |-> "none"] /\ answer = Unanswered

ReportsInit ==
    \/ ExecuteInit /\ NoExplorer /\ NoPartition /\ NoQuestion /\ NoSearch
    \/ ExplorerInit /\ NoWalk /\ NoPartition /\ NoQuestion /\ NoSearch
    \/ PartitionInit /\ NoWalk /\ NoExplorer /\ NoQuestion /\ NoSearch
    \/ ReachInit /\ NoWalk /\ NoExplorer /\ NoPartition /\ NoSearch
    \/ SqlInit /\ NoWalk /\ NoExplorer /\ NoPartition /\ NoQuestion

ReportsNext ==
    \/ ExecuteNext /\ UNCHANGED <<vars, clusterVars, lookupVars, sqlVars>>
    \/ ExplorerNext /\ UNCHANGED <<execution, clusterVars, lookupVars, sqlVars>>
    \/ request # NoRequest /\ PartitionNext /\ UNCHANGED <<execution, vars, lookupVars, sqlVars>>
    \/ ReachNext /\ UNCHANGED <<execution, vars, clusterVars, sqlVars>>
    \/ sources.nodes # <<>> /\ SqlNext /\ UNCHANGED <<execution, vars, clusterVars, lookupVars>>

ReportsSpec ==
    /\ ReportsInit
    /\ [][ReportsNext]_<<execution, vars, clusterVars, lookupVars, sqlVars>>
    /\ WF_execution(ExecuteNext)

=============================================================================
