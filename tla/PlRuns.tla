------------------------------- MODULE PlRuns -------------------------------
(***************************************************************************)
(* Which routines the code of a block may call, and which it does call.    *)
(*                                                                         *)
(* CallExtractor (src/parser/extractor.rs) walks once over the statements  *)
(* of a block and follows the texts that variables can hold, so that the   *)
(* text a variable is executed as is looked into for a call. A text is the *)
(* sequence of its words: a call is "call" before a name. An expression is *)
(* a text, a variable, a concatenation, a CASE, a function with its        *)
(* arguments or something else.                                            *)
(*                                                                         *)
(* Beside it stands what a run of a routine does, as far as calls go: the  *)
(* meaning of the statements the extractor walks. A run takes any branch   *)
(* and any turn of a loop, may raise an exception anywhere, and does not   *)
(* know what expressions of other kinds evaluate to. A statement is        *)
(* executed in a frame, that of a block: what is left of it, its exception *)
(* handlers and the names it sees.                                         *)
(***************************************************************************)
EXTENDS Naturals, Sequences, SequencesExt, FiniteSets

-----------------------------------------------------------------------------
(* The extractor. *)

CONSTANTS
    MaxValueSet,  \* how many texts are followed for a variable
    Opaque    \* the name of a call of a text which is not known

\* What an extractor knows at a place of the walk; types stay from routine to routine. That
\* texts were cut, as there were too many, is history.
NewExtractor(types) ==
    [values |-> <<>>, calls |-> <<>>, locals |-> {}, types |-> types, cut |-> FALSE]

\* begin_routine_scope, extend_local_scope
RoutineScope(x, names) == [x EXCEPT !.values = <<>>, !.locals = names]

\* push_call, push_builtin_call
Push(x, name, sort) == [x EXCEPT !.calls = Append(@, [name |-> name, sort |-> sort])]

\* visit_procedure_call, and a function in visit_expr: what is declared or a type is
\* indexed or constructed, not called.
InvokeIn(x, call) ==
    IF <<Head(call.name)>> \in x.locals \cup x.types THEN x ELSE Push(x, call.name, call.sort)

-----------------------------------------------------------------------------
(* Texts. *)

RECURSIVE Literals(_, _)

\* literal_strings: nothing if a part is not known, or there are too many.
Literals(expr, values) ==
    CASE expr.is = "text" -> <<expr.text>>
      [] expr.is = "variable" ->
            IF expr.name \in DOMAIN values THEN SetToSeq(values[expr.name]) ELSE <<>>
      [] expr.is = "join" ->
            LET left == Literals(expr.of[1], values)
                right == Literals(expr.of[2], values)
                n == Len(left) * Len(right)
            IN  IF n > MaxValueSet THEN <<>>
                ELSE [k \in 1 .. n |-> left[1 + ((k - 1) \div Len(right))]
                                        \o right[1 + ((k - 1) % Len(right))]]
      [] expr.is = "case" -> FlattenSeq([k \in DOMAIN expr.of |-> Literals(expr.of[k], values)])
      [] OTHER -> <<>>

RECURSIVE TooMany(_, _)

\* Somewhere in the expression there are more texts than are followed.
TooMany(expr, values) ==
    CASE expr.is = "join" ->
            \/ Len(Literals(expr.of[1], values)) * Len(Literals(expr.of[2], values)) > MaxValueSet
            \/ \E e \in ToSet(expr.of) : TooMany(e, values)
      [] expr.is = "case" -> \E e \in ToSet(expr.of) : TooMany(e, values)
      [] OTHER -> FALSE

\* What cannot be followed leaves the variable as it was, also what has too many texts.
AssignText(x, name, expr) ==
    LET texts == ToSet(Literals(expr, x.values))
        after == [x EXCEPT !.cut = @ \/ TooMany(expr, x.values)]
    IN  IF texts = {} THEN after ELSE [after EXCEPT !.values = (name :> texts) @@ @]

\* extract_call_from_sql_text
FromText(x, text) ==
    IF Len(text) > 1 /\ Head(text) = "call" THEN Push(x, Tail(text), "call") ELSE x

\* EXECUTE IMMEDIATE
ExecuteText(x, expr) ==
    IF expr.is = "variable" /\ expr.name \in DOMAIN x.values
    THEN FoldLeft(FromText, x, SetToSeq(x.values[expr.name]))
    ELSE Push(x, Opaque, "dynamic")

\* The texts of a variable after some branch, up to the cap; which, when there are too
\* many, is up to the order of a hash set.
Capped(texts, more) ==
    LET new == more \ texts
        room == IF Cardinality(texts) >= MaxValueSet THEN 0 ELSE MaxValueSet - Cardinality(texts)
    IN  texts \cup IF Cardinality(new) <= room THEN new
                   ELSE CHOOSE set \in SUBSET new : Cardinality(set) = room

TextsIn(values, name) == IF name \in DOMAIN values THEN values[name] ELSE {}

United(values, branch) ==
    [name \in DOMAIN values \cup DOMAIN branch |->
        Capped(TextsIn(values, name), TextsIn(branch, name))]

\* Some texts of a variable are given up.
Loses(values, branch) ==
    \E name \in DOMAIN branch :
        Cardinality(TextsIn(values, name) \cup branch[name]) > MaxValueSet

-----------------------------------------------------------------------------
(* The walk. *)

RECURSIVE FunctionsIn(_)

\* The functions in an expression, outer ones first.
FunctionsIn(expr) ==
    LET inside == IF expr.is \in {"text", "variable"} THEN <<>>
                  ELSE FlattenSeq([k \in DOMAIN expr.of |-> FunctionsIn(expr.of[k])])
    IN  IF expr.is = "function" THEN <<expr.call>> \o inside ELSE inside

WalkExpression(x, expr) == FoldLeft(InvokeIn, x, FunctionsIn(expr))

RECURSIVE Walk(_, _)

WalkAll(x, statements) == FoldLeft(Walk, x, statements)

\* Mutant: one branch goes on from where the other one ended.
WalkIfThrough(x, st) == FoldLeft(WalkAll, x, st.branches)

\* Each branch of an IF, the last one for ELSE, starts with the same values, and any of
\* them may be left; the conditions are not looked at.
WalkIf(x, st) ==
    LET Branch(y, branch) ==
            LET end == WalkAll([y.walked EXCEPT !.values = x.values], branch)
            IN  [walked |-> [end EXCEPT !.cut = @ \/ Loses(y.values, end.values)],
                 values |-> United(y.values, end.values)]
        all == FoldLeft(Branch, [walked |-> x, values |-> <<>>], st.branches)
    IN  [all.walked EXCEPT !.values = all.values]

RECURSIVE Declaring(_, _)

WalkBlock(x, block) ==
    FoldLeft(WalkAll, WalkAll(FoldLeft(Declaring, x, block.declares), block.body), block.handlers)

\* visit_pl_declaration: a nested routine has a scope of its own and leaves only its calls
\* and its types behind.
Declaring(x, decl) ==
    LET named == [x EXCEPT !.locals = @ \cup {<<decl.name>>}]
        inside == WalkBlock(RoutineScope(x, {<<p>> : p \in ToSet(decl.parameters)}), decl)
    IN  CASE decl.sort = "nested" -> [inside EXCEPT !.locals = x.locals, !.values = x.values]
          [] decl.sort = "type" -> [x EXCEPT !.types = @ \cup {<<decl.name>>}]
          [] decl.sort = "variable" /\ decl.default # <<>> ->
                WalkExpression(AssignText(named, decl.name, decl.default[1]), decl.default[1])
          [] OTHER -> named

\* visit_pl_statement and the walk below it: what a CASE or a loop has inside is walked
\* once, as if it were in a row.
Walk(x, st) ==
    CASE st.pl = "assign"  -> WalkExpression(AssignText(x, st.name, st.expr), st.expr)
      [] st.pl = "if"      -> WalkIf(x, st)
      [] st.pl = "execute" -> WalkExpression(ExecuteText(x, st.expr), st.expr)
      [] st.pl = "sql"     -> FromText(x, st.text)
      [] st.pl = "call"    -> Push(x, st.call.name, st.call.sort)
      [] st.pl = "invoke"  -> InvokeIn(x, st.call)
      [] st.pl = "eval"    -> WalkExpression(x, st.expr)
      [] st.pl \in {"case", "loop"} -> FoldLeft(WalkAll, WalkExpression(x, st.expr), st.branches)
      [] st.pl = "block"   -> WalkBlock(x, st.block)

-----------------------------------------------------------------------------
(* The runs. *)

CONSTANTS
    TextRoutine,      \* the routines to run: their blocks
    MaxDepth      \* how many frames a run may have

VARIABLES
    routine,
    frames,       \* innermost first
    texts,        \* variable -> the text it holds
    made          \* the calls made so far, and where they were written

callVars == <<routine, frames, texts, made>>

\* The text of an expression whose value is not known.
AnyText == <<"any">>

\* The empty text is no text, too.
Text(name) == IF name \in DOMAIN texts THEN texts[name] ELSE <<>>

RECURSIVE TextsOf(_)

\* What an expression may evaluate to.
TextsOf(expr) ==
    CASE expr.is = "text" -> {expr.text}
      [] expr.is = "variable" -> {Text(expr.name)}
      [] expr.is = "join" ->
            {IF AnyText \in {l, r} THEN AnyText ELSE l \o r :
                l \in TextsOf(expr.of[1]), r \in TextsOf(expr.of[2])}
      [] expr.is = "case" -> UNION {TextsOf(e) : e \in ToSet(expr.of)}
      [] OTHER -> {AnyText}

-----------------------------------------------------------------------------
(* Frames. *)

DeclaredIn(block, sorts) == {d \in ToSet(block.declares) : d.sort \in sorts}

NamesOfBlock(block) == {d.name : d \in DeclaredIn(block, {"variable", "type"})}

\* The variables with a default start with it.
Defaults(block) ==
    LET with == SelectSeq(block.declares, LAMBDA d : d.sort = "variable" /\ d.default # <<>>)
    IN  [i \in DOMAIN with |-> [pl |-> "assign", name |-> with[i].name, expr |-> with[i].default[1]]]

Frame(block, seen) ==
    [left |-> Defaults(block) \o block.body, handlers |-> block.handlers,
     names |-> NamesOfBlock(block) \cup seen,
     nested |-> DeclaredIn(block, {"nested"})]

AtWork == frames # <<>> /\ Head(frames).left # <<>>

Now == Head(Head(frames).left)

Performs(pl) == AtWork /\ Now.pl = pl

After(statements) ==
    <<[Head(frames) EXCEPT !.left = statements \o Tail(@)]>> \o Tail(frames)

\* The nested routines in sight.
Nested == UNION {frames[i].nested : i \in DOMAIN frames}

\* The calls of functions in an expression: the others index a variable or make a value.
FunctionCalls(expr, how) ==
    {[name |-> f.name, how |-> how] :
        f \in {g \in ToSet(FunctionsIn(expr)) : Head(g.name) \notin Head(frames).names}}

Makes(calls) == made' = made \cup calls

-----------------------------------------------------------------------------
(* The steps of a run. *)

CallInit ==
    /\ routine \in TextRoutine
    /\ frames = <<Frame(routine, ToSet(routine.parameters))>>
    /\ texts = <<>>
    /\ made = {}

DoAssign ==
    /\ Performs("assign")
    /\ \E text \in TextsOf(Now.expr) : texts' = (Now.name :> text) @@ texts
    /\ Makes(FunctionCalls(Now.expr, "expression"))
    /\ frames' = After(<<>>)
    /\ UNCHANGED routine

DoEval ==
    /\ Performs("eval")
    /\ Makes(FunctionCalls(Now.expr, "expression"))
    /\ frames' = After(<<>>)
    /\ UNCHANGED <<routine, texts>>

\* The conditions up to that of the branch taken are evaluated.
DoIf ==
    /\ Performs("if")
    /\ \E i \in DOMAIN Now.branches :
          /\ frames' = After(Now.branches[i])
          /\ Makes(UNION {FunctionCalls(Now.conditions[k], "condition") :
                             k \in {k \in DOMAIN Now.conditions : k <= i}})
    /\ UNCHANGED <<routine, texts>>

DoCase ==
    /\ Performs("case")
    /\ \E branch \in ToSet(Now.branches) : frames' = After(branch)
    /\ Makes(FunctionCalls(Now.expr, "expression"))
    /\ UNCHANGED <<routine, texts>>

Again == Performs("loop") /\ frames' = After(Now.branches[1] \o <<Now>>)
         /\ Makes(FunctionCalls(Now.expr, "expression")) /\ UNCHANGED <<routine, texts>>

LeaveLoop == Performs("loop") /\ frames' = After(<<>>)
             /\ Makes(FunctionCalls(Now.expr, "expression")) /\ UNCHANGED <<routine, texts>>

\* EXECUTE IMMEDIATE of a text which is a call, or may be one.
DoExecute ==
    /\ Performs("execute")
    /\ \E text \in TextsOf(Now.expr) :
          LET called == IF text = AnyText THEN {[name |-> Opaque, how |-> "execute"]}
                        ELSE IF Len(text) > 1 /\ Head(text) = "call"
                        THEN {[name |-> Tail(text), how |-> "execute"]} ELSE {}
          IN  Makes(called \cup FunctionCalls(Now.expr, "expression"))
    /\ frames' = After(<<>>)
    /\ UNCHANGED <<routine, texts>>

DoSql ==
    /\ Performs("sql")
    /\ Makes({[name |-> Tail(Now.text), how |-> "statement"] :
                 t \in {t \in {Now.text} : Len(t) > 1 /\ Head(t) = "call"}})
    /\ frames' = After(<<>>)
    /\ UNCHANGED <<routine, texts>>

\* A call of a nested routine runs it, up to MaxDepth frames; the other routines are not
\* looked into.
DoCall ==
    /\ AtWork /\ Now.pl \in {"call", "invoke"}
    /\ Makes({[name |-> Now.call.name, how |-> "statement"]})
    /\ LET inner == {d \in Nested : <<d.name>> = Now.call.name}
       IN  IF inner = {} \/ Len(frames) >= MaxDepth THEN frames' = After(<<>>)
           ELSE \E d \in inner :
                   frames' = <<Frame(d, Head(frames).names \cup ToSet(d.parameters))>> \o After(<<>>)
    /\ UNCHANGED <<routine, texts>>

EnterBlock ==
    /\ Performs("block")
    /\ frames' = <<Frame(Now.block, Head(frames).names)>> \o After(<<>>)
    /\ UNCHANGED <<routine, texts, made>>

LeaveBlock ==
    /\ frames # <<>> /\ ~AtWork
    /\ frames' = Tail(frames)
    /\ UNCHANGED <<routine, texts, made>>

\* An exception goes to a handler of the innermost block that has one, which it leaves.
Raise ==
    /\ AtWork
    /\ \E i \in DOMAIN frames :
          /\ frames[i].handlers # <<>> /\ \A k \in 1 .. i - 1 : frames[k].handlers = <<>>
          /\ \E handler \in ToSet(frames[i].handlers) :
                frames' = <<[frames[i] EXCEPT !.left = handler, !.handlers = <<>>]>>
                          \o SubSeq(frames, i + 1, Len(frames))
    /\ UNCHANGED <<routine, texts, made>>

CallNext ==
    \/ DoAssign \/ DoEval \/ DoIf \/ DoCase \/ Again \/ LeaveLoop \/ DoExecute \/ DoSql
    \/ DoCall \/ EnterBlock \/ LeaveBlock \/ Raise

CallSpec == CallInit /\ [][CallNext]_callVars

-----------------------------------------------------------------------------
(* What the extractor says of the routine. *)

AfterWalk ==
    WalkBlock(RoutineScope(NewExtractor({}), {<<p>> : p \in ToSet(routine.parameters)}), routine)

Extracted == AfterWalk.calls

IsOpaque == \E c \in ToSet(Extracted) : c.sort = "dynamic"

\* A call a run makes is among those extracted; that of an executed text may be the call
\* of a text which is not known.
IsExtracted(call) ==
    \/ call.name \in {c.name : c \in ToSet(Extracted)}
    \/ call.how = "execute" /\ IsOpaque

-----------------------------------------------------------------------------
(* The routines whose texts the extractor can follow. *)

RECURSIVE Inside(_)

\* All statements of a block, those of nested routines among them.
InsideAll(statements) == UNION {{st} \cup Inside(st) : st \in ToSet(statements)}

BlockStatements(block) ==
    InsideAll(Defaults(block) \o block.body) \cup UNION {InsideAll(h) : h \in ToSet(block.handlers)}

Inside(st) ==
    CASE st.pl \in {"if", "case", "loop"} -> UNION {InsideAll(b) : b \in ToSet(st.branches)}
      [] st.pl = "block" -> BlockStatements(st.block)
      [] OTHER -> {}

RECURSIVE Blocks(_)

\* The block, and those of its nested routines.
Blocks(block) == {block} \cup UNION {Blocks(d) : d \in DeclaredIn(block, {"nested"})}

Everything == UNION {BlockStatements(b) : b \in Blocks(routine)}

Assigned(statements) == {st.name : st \in {st \in statements : st.pl = "assign"}}

RECURSIVE IsKnown(_, _)

IsKnown(expr, followed) ==
    CASE expr.is = "text" -> TRUE
      [] expr.is = "variable" -> expr.name \in followed
      [] expr.is \in {"join", "case"} -> \A e \in ToSet(expr.of) : IsKnown(e, followed)
      [] OTHER -> FALSE

RECURSIVE IsLost(_, _)

IsLost(expr, followed) ==
    CASE expr.is = "text" -> FALSE
      [] expr.is = "variable" -> expr.name \notin followed
      [] expr.is = "join" -> \E e \in ToSet(expr.of) : IsLost(e, followed)
      [] expr.is = "case" -> \A e \in ToSet(expr.of) : IsLost(e, followed)
      [] OTHER -> TRUE

\* A variable has texts that can all be followed, beginning with its default, or none.
SteadyTexts ==
    LET assigns == {st \in Everything : st.pl = "assign"}
        start == UNION {Assigned(ToSet(Defaults(b))) : b \in Blocks(routine)}
    IN  \E followed \in SUBSET start :
            \A st \in assigns : IF st.name \in followed THEN IsKnown(st.expr, followed)
                                ELSE IsLost(st.expr, followed)

\* Nothing is assigned where the walk goes once and in a row, but a run does not: in
\* loops, in a CASE, under exception handlers, and by a nested routine to what it has not
\* declared.
StraightAssignments ==
    /\ \A st \in Everything :
          /\ st.pl \in {"case", "loop"} => Assigned(Inside(st)) = {}
          /\ st.pl = "block" /\ st.block.handlers # <<>> => Assigned(Inside(st)) = {}
    /\ \A b \in Blocks(routine) :
          /\ b.handlers # <<>> => Assigned(BlockStatements(b)) = {}
          /\ b # routine => Assigned(BlockStatements(b)) \subseteq NamesOfBlock(b)

\* What an inner block or a type declaration names stays named until the routine ends.
PlainNames ==
    LET Leaving(b) == UNION {NamesOfBlock(st.block) : st \in {x \in BlockStatements(b) : x.pl = "block"}}
                      \cup {d.name : d \in DeclaredIn(b, {"type"})}
        leaving == UNION {Leaving(b) : b \in Blocks(routine)}
    IN  \A m \in made : Head(m.name) \notin leaving

-----------------------------------------------------------------------------
(* Properties. *)

\* Each call a run makes is extracted, whatever branches it takes: called by name, in an
\* expression, or as a text a variable was given on one of the ways to EXECUTE IMMEDIATE,
\* in a routine nested in another one too (visit_pl_statement, visit_pl_declaration,
\* literal_strings). The routines are those whose texts can be followed, without the cap
\* giving one of them up; a call in a condition of an IF is left out, as the code looks at
\* no condition.
CallsAreExtracted ==
    SteadyTexts /\ StraightAssignments /\ PlainNames /\ ~AfterWalk.cut =>
        \A m \in made : m.how # "condition" => IsExtracted(m)

\* MAX_VALUE_SET says of a variable with too many texts that its EXECUTE IMMEDIATE falls
\* back to an opaque dynamic edge, which is sound: of the same routines each call of a text
\* is extracted, or there is such an edge, whether the cap gives texts up or not.
CutTextsFallBack ==
    SteadyTexts /\ StraightAssignments /\ PlainNames =>
        \A m \in made : m.how = "execute" => IsExtracted(m)

=============================================================================
