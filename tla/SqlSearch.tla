----------------------------- MODULE SqlSearch ------------------------------
(***************************************************************************)
(* Statements found by their texts: trace-sql and the searches of the      *)
(* servers look for the nodes a statement may come from (search_by_sql of  *)
(* src/graph/store.rs), mark says of each statement of a log on which ways *)
(* it leads to a node (src/mark.rs). Both compare texts without literals   *)
(* and layout (src/sql_match.rs).                                          *)
(*                                                                         *)
(* A text is a sequence of words, signs and blanks; a number, a string, a  *)
(* comment and a parameter of a mapper are one word each. A word is looked *)
(* for as a whole, never within a longer one.                              *)
(***************************************************************************)
EXTENDS Integers, Sequences, FiniteSets, SequencesExt, FiniteSetsExt

CONSTANTS
    SqlGraph,      \* the graphs: [nodes, edges]
    Literals,      \* numbers and strings,
    Parameters,    \* what the parser puts for the parameters of a mapper,
    Comments,      \* and comments, each taken for one word
    Variables,     \* the variables of routines
    NotYet         \* before anything is searched for

VARIABLES
    sources,       \* the graph; a node is [kind, name, sql, variants]
    indexes,       \* [fingerprints, locks]
    row,           \* the statement looked for, and the node which runs it
    matched        \* what is said of it

sqlVars == <<sources, indexes, row, matched>>

SourceNodes == DOMAIN sources.nodes
StatementsOf(n) == ToSet(sources.nodes[n].sql)

-----------------------------------------------------------------------------
(* Texts. *)

Blank == " "
Wild == "?"
Operators == {"=", "<", ">", "<=", ">=", "<>"}
Arithmetic == {"+", "-", "*"}
Signs == Operators \cup Arithmetic \cup {"(", ")", ",", ".", ";", Blank, Wild}

\* The place a part ends at in a text, after the first `from` words, or 0.
EndOf(text, from, part) ==
    LET at == {i \in from .. Len(text) - Len(part) : SubSeq(text, i + 1, i + Len(part)) = part}
    IN  IF at = {} THEN 0 ELSE Min(at) + Len(part)

IsPart(part, text) == \E i \in 0 .. Len(text) - Len(part) : SubSeq(text, i + 1, i + Len(part)) = part

\* A word with blanks around it.
Apart(w) == <<Blank, w, Blank>>

Rest(text, from) == SubSeq(text, from + 1, Len(text))

\* A text without some of its words.
Kept(text, Stays(_)) ==
    LET places == SelectSeq([i \in DOMAIN text |-> i], Stays)
    IN  [k \in DOMAIN places |-> text[places[k]]]

\* A text with one word for each of some words.
Put(text, words, w) == [i \in DOMAIN text |-> IF text[i] \in words THEN w ELSE text[i]]

\* strip_where_one_equals_one: the first of the two patterns which is there.
WithoutOneIsOne(text) ==
    LET dense == <<"where", Blank, "1", "=", "1", Blank, "and", Blank>>
        wide == <<"where", Blank, "1", Blank, "=", Blank, "1", Blank, "and", Blank>>
        Without(pattern) ==
            LET end == EndOf(text, 0, pattern)
            IN  SubSeq(text, 1, end - Len(pattern)) \o <<"where", Blank>> \o Rest(text, end)
    IN  CASE IsPart(dense, text) -> Without(dense)
          [] ~IsPart(dense, text) /\ IsPart(wide, text) -> Without(wide)
          [] OTHER -> text

\* split_whitespace and join: one blank between words, none at the ends.
SingleSpaced(text) ==
    LET Stays(i) == text[i] = Blank => i > 1 /\ text[i - 1] # Blank /\ \E j \in i .. Len(text) : text[j] # Blank
    IN  Kept(text, Stays)

\* normalize_for_matching_pre_collapse: a comment counts as a blank.
Uncollapsed(text) == SingleSpaced(Put(WithoutOneIsOne(Put(text, Comments, Blank)), Literals, Wild))

\* collapse_operator_spaces
Collapsed(text) ==
    LET At(i) == IF i \in DOMAIN text THEN text[i] ELSE Wild
        Within(i, j) == At(i) \in Arithmetic /\ At(j) = Blank
        Stays(i) == text[i] = Blank =>
                        /\ At(i - 1) \notin Operators \cup {"(", ","}
                        /\ At(i + 1) \notin Operators \cup {")", ","}
                        /\ ~Within(i - 1, i - 2) /\ ~Within(i + 1, i + 2)
    IN  Kept(text, Stays)

\* Mutant: parameters stay.
ParametersStay(text) == Collapsed(Uncollapsed(text))

\* Without the semicolons at the end.
Unended(text) ==
    LET Stays(i) == \E j \in i .. Len(text) : text[j] # ";"
    IN  Kept(text, Stays)

\* normalize_for_matching: semicolons at the end go, and parameters are wildcards too.
Normalized(text) == Collapsed(Put(Unended(Uncollapsed(text)), Parameters, Wild))

\* SqlKeyword
KeywordOf(text) ==
    IF text # <<>> /\ Head(text) \in {"select", "insert", "update", "delete", "merge", "with"}
    THEN Head(text) ELSE "other"

\* is_compatible
KeywordsAgree(k, l) == k = l \/ "other" \in {k, l} \/ {k, l} = {"select", "with"}

FirstOf(places, other) == IF places = {} THEN other ELSE Min(places)

\* The place of the text after the words which introduce its table: those of a change, or
\* else FROM, or else its end.
TablePlace(text) ==
    LET After(first, needed) ==
            {n \in {Len(first)} : IsPrefix(first, text) /\ IsPart(needed, Rest(text, n))}
        change == After(<<"update", Blank>>, Apart("set")) \cup After(<<"delete", Blank, "from", Blank>>, <<>>)
                  \cup After(<<"insert", Blank, "into", Blank>>, <<>>)
                  \cup After(<<"merge", Blank, "into", Blank>>, Apart("using"))
    IN  FirstOf(change, FirstOf({EndOf(text, 0, Apart("from"))} \ {0}, Len(text)))

\* All up to a blank, and in an INSERT without VALUES up to a parenthesis.
UpToBlank(rest, keyword) ==
    LET Ends(w) == w = Blank \/ (w = "(" /\ keyword = "insert" /\ ~IsPart(<<Blank, "values">>, rest))
        Stays(i) == \A j \in 1 .. i : ~Ends(rest[j])
    IN  Kept(rest, Stays)

\* extract_table_name: nothing if there is no table.
TableOf(text) == UpToBlank(Rest(text, TablePlace(text)), KeywordOf(text))

\* tables_compatible
TablesAgree(one, other) == one = other \/ {<<>>, <<Wild>>} \cap {one, other} # {}

\* Texts between wildcards.
Segments(text) ==
    LET SplitAt(all, w) == IF w = Wild THEN Append(all, <<>>) ELSE Append(Front(all), Append(Last(all), w))
    IN  SelectSeq(FoldLeft(SplitAt, <<<<>>>>, text), LAMBDA part : part # <<>>)

\* find_query_segments_in_sql
ComeInOrder(text, parts) ==
    LET After(end, part) == IF end < 0 \/ EndOf(text, end, part) = 0 THEN -1 ELSE EndOf(text, end, part)
    IN  parts # <<>> /\ FoldLeft(After, 0, parts) > 0

\* The length of a part. MIN_PART_LEN and SOLO_MIN_LEN.
PartSize(part) == FoldLeft(LAMBDA n, w : n + Len(w), 0, part)
MinPart == 4
SoloMin == 6

\* strip_sql_segment: what is after the last name, or dot, goes.
Trimmed(part) ==
    LET Stays(i) == \E j \in i .. Len(part) : part[j] \notin Signs \/ part[j] = "."
    IN  Kept(part, Stays)

\* One more part of a statement in a query, where it ends and what of it is there: unless it
\* is right after the one before.
WithPart(x, end, taken) ==
    IF end = 0 \/ (x.count > 0 /\ end = x.end + Len(taken)) THEN [x EXCEPT !.over = TRUE]
    ELSE [end |-> end, count |-> x.count + 1, solo |-> PartSize(taken), over |-> FALSE]

\* As it is, or else without its last signs.
NextPart(query, x, part) ==
    CASE x.over -> x
      [] ~x.over /\ EndOf(query, x.end, part) > 0 -> WithPart(x, EndOf(query, x.end, part), part)
      [] OTHER -> WithPart(x, IF PartSize(Trimmed(part)) >= MinPart THEN EndOf(query, x.end, Trimmed(part)) ELSE 0,
                           Trimmed(part))

\* Nothing but wildcards, and a blank after them.
IsSpent(tail) ==
    \A i \in DOMAIN tail : tail[i] = Blank \/ \A j \in 1 .. i : tail[j] = Wild

\* Enough parts come in order, or a long one; and the query ends there.
IsFound(x, query) ==
    /\ x.count > 1 \/ (x.count = 1 /\ x.solo >= SoloMin)
    /\ Wild \in ToSet(query) \/ x.count = 1 => IsSpent(Rest(query, x.end))

LongPartsIn(parts, query) ==
    LET Solo(part) == PartSize(part) >= SoloMin /\ IsPart(part, query)
    IN  IF Len(parts) = 1 THEN Solo(parts[1]) \/ Solo(Trimmed(parts[1]))
        ELSE IsFound(FoldLeft(LAMBDA y, part : NextPart(query, y, part),
                              [end |-> 0, count |-> 0, solo |-> 0, over |-> FALSE], parts), query)

\* find_sql_segments_in_query
PartsInQuery(parts, query) ==
    IF Len(parts) = 1 THEN IsPart(parts[1], query)
    ELSE LongPartsIn(SelectSeq(parts, LAMBDA part : PartSize(part) >= MinPart), query)

\* jaccard_similarity: the words both have, and those one has.
InBoth(one, other) == Cardinality((ToSet(one) \cap ToSet(other)) \ Signs)
InEither(one, other) == Cardinality((ToSet(one) \cup ToSet(other)) \ Signs)

\* A text to be compared: as a whole, and with all its blanks.
Prepared(text) == [whole |-> Normalized(text), plain |-> Uncollapsed(text)]

\* PreparedQuery::matches. The table of the query is taken from its text with all blanks.
IsLike(q, s) ==
    /\ KeywordsAgree(KeywordOf(q.whole), KeywordOf(s.whole))
    /\ \/ IsPart(q.whole, s.whole)
       \/ /\ TablesAgree(TableOf(q.plain), TableOf(s.whole))
          /\ \/ Wild \in ToSet(q.whole) /\ ComeInOrder(s.whole, Segments(q.whole))
             \/ Wild \in ToSet(s.whole) /\ PartsInQuery(Segments(s.whole), q.whole)
             \/ /\ Wild \in ToSet(q.whole) \cup ToSet(s.whole)
                /\ TablesAgree(TableOf(q.plain), TableOf(s.plain))
                /\ 5 * InBoth(q.whole, s.whole) >= 4 * InEither(q.whole, s.whole)

Similarity(both, either) == IF either = 0 THEN 850 ELSE (850 * both) \div either

\* compute_relevance, in thousandths.
Relevance(q, s) ==
    CASE q.whole = s.whole -> 1000
      [] q.whole # s.whole /\ IsPart(q.whole, s.whole) -> 950
      [] OTHER -> Similarity(InBoth(q.whole, s.whole), InEither(q.whole, s.whole))
                  + (IF KeywordsAgree(KeywordOf(q.whole), KeywordOf(s.whole)) THEN 100 ELSE 0)
                  + (IF TablesAgree(TableOf(q.plain), TableOf(s.whole)) THEN 50 ELSE 0)

-----------------------------------------------------------------------------
(* Indexes and search. *)

\* LockKind, in the order a query is looked through for them.
LockKinds ==
    <<<<"for", Blank, "update">>, <<"for", Blank, "share">>, <<"for", Blank, "no", Blank, "key", Blank, "update">>,
      <<"for", Blank, "key", Blank, "share">>>>

LocksIn(text) == {k \in DOMAIN LockKinds : IsPart(LockKinds[k], text)}

Fingerprints(graph, kinds) ==
    UNION {{[text |-> Normalized(t.text), node |-> n] : t \in ToSet(graph.nodes[n].sql)} :
             n \in {n \in DOMAIN graph.nodes : graph.nodes[n].kind \in kinds}}

\* detect_lock_clause_in_sql: only a query, WITH or without, has a lock clause, and one only.
LockIndex(graph) ==
    {l \in [kind : DOMAIN LockKinds, node : DOMAIN graph.nodes] :
        \E t \in ToSet(graph.nodes[l.node].sql) :
           /\ KeywordOf(Normalized(t.text)) \in {"select", "with"}
           /\ l.kind \in LocksIn(Normalized(t.text))}

\* enrich_fingerprint_index_with_variants
VariantPrints(graph) ==
    UNION {{[text |-> Normalized(t.text), node |-> n] : t \in ToSet(graph.nodes[n].variants)} :
             n \in {n \in DOMAIN graph.nodes : graph.nodes[n].kind = "mapper"}}

\* What GraphStore::from_graph makes, and the variants added by an analysis.
IndexesOf(graph) ==
    [fingerprints |-> Fingerprints(graph, {"routine", "mapper", "javasql"}) \cup VariantPrints(graph),
     locks |-> LockIndex(graph)]

\* rebuild_secondary_indexes: without the statements in routines, and without variants.
Rebuilt(graph) ==
    [fingerprints |-> Fingerprints(graph, {"mapper", "javasql"}), locks |-> LockIndex(graph)]

Hit(node, score) == [node |-> node, score |-> score]

\* The texts of each node that match a query.
LikeIn(q) ==
    [n \in SourceNodes |-> {s \in {Prepared(t.text) : t \in StatementsOf(n)} : IsLike(q, s)}]

\* The best score of the texts of each node.
Scored(q, alike) ==
    {Hit(n, Max({Relevance(q, s) : s \in alike[n]})) : n \in {n \in DOMAIN alike : alike[n] # {}}}

\* The first of some results that is not empty.
FirstHits(same, locking, alike) ==
    CASE same # {} -> same
      [] same = {} /\ locking # {} -> locking
      [] OTHER -> alike

\* search_by_sql: what is the same; or else, of a text with a lock clause
\* (classify_lock_clause_query), all with one of this kind; or else what is alike.
SearchBySql(q) ==
    LET locks == {k \in DOMAIN LockKinds : LocksIn(q.whole) # {} /\ k = Min(LocksIn(q.whole))}
    IN  FirstHits({Hit(f.node, 1000) : f \in {f \in indexes.fingerprints : f.text = q.whole}},
                  {Hit(l.node, 900) : l \in {l \in indexes.locks : l.kind \in locks}},
                  Scored(q, LikeIn(q)))

\* search_sql: with each node its degrees, and which of the statements of a routine match.
TraceAnswer(q) ==
    LET Runs(node) == {i \in DOMAIN node.sql : node.kind = "routine" /\ IsLike(q, Prepared(node.sql[i].text))}
    IN  {[node |-> h.node, score |-> h.score,
          callers |-> Cardinality({e \in DOMAIN sources.edges : sources.edges[e][2] = h.node}),
          callees |-> Cardinality({e \in DOMAIN sources.edges : sources.edges[e][1] = h.node}),
          runs |-> Runs(sources.nodes[h.node])] : h \in SearchBySql(q)}

-----------------------------------------------------------------------------
(* Marks. *)

\* Mutant: INTO stays where it is.
WithInto(text) == text

IntoEnds == {"from", "where", "group", "order", "having", "limit", "union", "join", "left", "right", "inner",
             "outer", "cross", "natural", "for", "returning", "with"}

\* strip_select_into: up to the next clause, whatever the statement; a comma before it goes.
WithoutInto(text) ==
    LET strict == <<Blank, "into", Blank, "strict", Blank>>
        into == IF IsPart(strict, text) THEN strict ELSE Apart("into")
        end == EndOf(text, 0, into)
        clauses == {i \in end + 1 .. Len(text) - 2 : \E w \in IntoEnds : SubSeq(text, i, i + 2) = Apart(w)}
        before == SubSeq(text, 1, end - Len(into))
        Stays(i) == \E j \in i .. Len(before) : before[j] # ","
    IN  IF end = 0 THEN text
        ELSE SingleSpaced(Kept(before, Stays) \o (IF clauses = {} THEN <<>> ELSE Rest(text, Min(clauses) - 1)))

\* contains_routine_call: only the first such call is looked at; a name with a prefix is
\* only met in front of a parenthesis.
CallsIn(text, name) ==
    \/ \E word \in {"call", "execute", "exec", "perform"} :
          LET end == EndOf(text, 0, <<word, Blank, name>>)
          IN  end > 0 /\ (end < Len(text) => text[end + 1] \in {"(", Blank, ";"})
    \/ /\ IsPart(<<name, "(">>, text)
       /\ IsPart(<<"select", Blank, name>>, text) \/ IsPart(<<".", name, "(">>, text)

TargetsOf(n) == {sources.edges[e][2] : e \in {e \in DOMAIN sources.edges : sources.edges[e][1] = n}}

RECURSIVE CallersFrom(_)

\* build_callers_set
CallersFrom(nodes) ==
    LET more == nodes \cup {n \in SourceNodes : TargetsOf(n) \cap nodes # {}}
    IN  IF more = nodes THEN nodes ELSE CallersFrom(more)

RECURSIVE WaysFrom(_, _, _)

\* backtrack_paths, over the parents build_callers_set has met: those of the callers. A way
\* over two edges between the same nodes is listed twice.
WaysFrom(path, target, callers) ==
    IF Last(path) = target THEN {path}
    ELSE UNION {WaysFrom(Append(path, n), target, callers) :
                  n \in (TargetsOf(Last(path)) \cap callers) \ ToSet(path)}

Told(type, by, ways) == [type |-> type, by |-> by, ways |-> ways]

\* The target of a name no node has.
Unresolved == 0

NamesTarget(text, target) ==
    LET node == sources.nodes[target]
    IN  \/ node.kind \in {"table", "view"} /\ node.name \in ToSet(text)
        \/ node.kind = "routine" /\ CallsIn(text, node.name)

\* sql_text_fingerprint_matches, of the body of a routine.
RunsIn(q, n) ==
    \E t \in StatementsOf(n) :
        \E text \in {WithoutInto(Normalized(t.text)), t.text} : IsLike(q, Prepared(text))

\* The routines that run a text, of the callers of a target.
Hits(text, q, callers) ==
    {n \in callers : /\ sources.nodes[n].kind = "routine"
                     /\ CallsIn(text, sources.nodes[n].name) \/ RunsIn(q, n)}

MarksOf(hits, target, callers) ==
    IF hits = {} THEN {Told("none", target, {})}
    ELSE {Told("indirect", n, WaysFrom(<<n>>, target, callers)) : n \in hits}

\* classify_row: the callers are in the order of a hash set, and the first one is told.
ClassifyRow(text, target) ==
    IF NamesTarget(text, target) THEN {Told("direct", target, {<<target>>})}
    ELSE UNION {MarksOf(Hits(text, Prepared(text), callers \ {target}), target, callers) :
                  callers \in {CallersFrom({target})}}

-----------------------------------------------------------------------------
(* What is asked. *)

\* How a statement is met again: with a comment; with values; with other names for its parameters; without
\* any.
Forms == {"commented", "values", "names", "unknown"}

AsMet(text, form) ==
    LET values == Literals \cup Parameters \cup Variables
    IN  CASE form = "commented" -> <<CHOOSE c \in Comments : TRUE, Blank>> \o text
          [] form = "values" -> Put(text, values \ {"1"}, CHOOSE l \in Literals : l # "1")
          [] form = "names" -> Put(text, Parameters, "other")
          [] form = "unknown" -> Put(text, values, Wild)

SqlInit ==
    /\ sources \in SqlGraph
    /\ indexes = IndexesOf(sources)
    /\ row = NotYet /\ matched = NotYet

\* What a load of a store whose indexes are out of date, or a merge, does.
RebuildIndexes ==
    /\ indexes' = Rebuilt(sources)
    /\ row' = NotYet /\ matched' = NotYet
    /\ UNCHANGED sources

\* Someone has the text of a statement, or of a variant of it.
TraceSql ==
    \E n \in SourceNodes, form \in Forms :
       \E t \in StatementsOf(n) \cup ToSet(sources.nodes[n].variants) :
          /\ row' = [node |-> n, statement |-> t, form |-> form]
          /\ matched' = TraceAnswer(Prepared(AsMet(t.text, form)))
          /\ UNCHANGED <<sources, indexes>>

\* The database has logged a statement; its INTO is not in the log. There may be no node
\* with the name it is to be marked for.
MarkRow ==
    \E n \in SourceNodes, form \in Forms, target \in SourceNodes \cup {Unresolved} :
       \E t \in StatementsOf(n) :
       \E m \in IF target = Unresolved THEN {Told("none", target, {})} ELSE ClassifyRow(AsMet(t.runs, form), target) :
          /\ row' = [node |-> n, statement |-> t, form |-> form, target |-> target]
          /\ matched' = m
          /\ UNCHANGED <<sources, indexes>>

SqlNext == RebuildIndexes \/ TraceSql \/ MarkRow

-----------------------------------------------------------------------------
(* Properties. *)

IsMark == row # NotYet /\ "target" \in DOMAIN row

IsTrace == row # NotYet /\ ~IsMark

\* The code takes the same table from the text with its blanks and without: it does not
\* from `FROM t, u` nor from `FROM t;`, and then compares nothing but whole texts.
TableIsClear(text) == TableOf(Uncollapsed(text)) = TableOf(Normalized(text))

\* WHERE 1=1 AND is left out before literals are, and stays where a log has none.
OneIsOneIsClear(text, form) == form = "unknown" => WithoutOneIsOne(text) = text

\* Whoever has a statement of the system, with a comment, values, other names or none, is told
\* the node it comes from: whether by the index of fingerprints, by that of locks or by
\* a comparison with all texts, and also when a rebuilt index has no fingerprints of
\* routines and none of variants, unless it still has the very same statement of another node
\* (search_by_sql, rebuild_secondary_indexes). A variant is only in the index.
TracesAreFound ==
    LET text == AsMet(row.statement.text, row.form)
        others == {f.node : f \in {f \in indexes.fingerprints : f.text = Normalized(text)}}
        known == row.statement \in StatementsOf(row.node)
    IN  (/\ IsTrace
         /\ OneIsOneIsClear(row.statement.text, row.form) /\ TableIsClear(text)
         /\ known \/ (row.form # "names" /\ indexes = IndexesOf(sources)))
        => \/ \E h \in matched : h.node = row.node
           \/ others # {} /\ {h.node : h \in matched} = others

\* The ways without a circle from one node to another.
SimpleWays(from, to) ==
    {way \in UNION {[1 .. k -> SourceNodes] : k \in 1 .. Cardinality(SourceNodes)} :
        /\ IsInjective(way) /\ way[1] = from /\ Last(way) = to
        /\ \A i \in 1 .. Len(way) - 1 : <<way[i], way[i + 1]>> \in ToSet(sources.edges)}

\* A logged statement of a routine which leads to the target is marked, though the log has
\* no INTO and no variables; and whichever caller is told, all its ways to the target and no
\* others are (classify_row, build_all_caller_paths, strip_select_into).
RowsAreMarked ==
    IsMark =>
        /\ /\ sources.nodes[row.node].kind = "routine" /\ row.node # row.target /\ row.target # Unresolved
           /\ SimpleWays(row.node, row.target) # {}
           /\ OneIsOneIsClear(row.statement.runs, row.form) /\ TableIsClear(row.statement.runs)
           => matched.type # "none"
        /\ matched.type # "none" => matched.ways = SimpleWays(matched.by, row.target)

\* Statements lead to where they come from and where they go.
StatementsAreTold == TracesAreFound /\ RowsAreMarked

=============================================================================
