----------------------------- MODULE MCProject -----------------------------
(***************************************************************************)
(* Constants for model checking Project: two files, at most two runs; and  *)
(* what an analysis consists of, one part at a time: the runs over files   *)
(* (Project), the graph one run builds (Builder), and what the routines in *)
(* the files do beside what is said of them (PlRuns, DataRuns, HintRuns).  *)
(***************************************************************************)
EXTENDS Project, MCBuilder, MCRoutines

CONSTANTS f1, f2, good1, good2, junk, r1, r2

TwoFiles == {f1, f2}
OneFile == {f1}
Good == {good1, good2}
GoodAndJunk == {good1, good2, junk}
OnlyJunk == {junk}
TheJsp == {f2}
OneRun == {r1}
TwoRuns == {r1, r2}
OneContent == {good1}

-----------------------------------------------------------------------------
(* While one part goes on, the others rest.                                *)

routineVars == <<callVars, dataVars, hintVars>>

\* No file, and nobody who analyzes.
NoProject == Init /\ src = Nothing /\ header = "absent"

NoProgram == OfSql("analyze", <<>>, 1, "ascending")

NoBuild == program = NoProgram /\ tasks = <<>> /\ context = NewContext("ascending")

NoRoutines == NoTexts /\ NoData /\ NoHints

AnalysisInit ==
    \/ Init /\ NoBuild /\ NoRoutines
    \/ BuildInit /\ NoProject /\ NoRoutines
    \/ RoutinesInit /\ NoProject /\ NoBuild

\* Runs go on where nothing is built and no routine runs.
RunsOnly == program = NoProgram /\ routine = NothingCalled /\ graph.nodes = <<>> /\ asked = NoCase

AnalysisNext ==
    \/ RunsOnly /\ Calm /\ UNCHANGED <<buildVars, routineVars>>
    \/ BuildNext /\ UNCHANGED <<vars, routineVars>>
    \/ RoutinesNext /\ UNCHANGED <<vars, buildVars>>

\* The fairness is that of PolledSpec.
AnalysisSpec ==
    /\ AnalysisInit
    /\ [][AnalysisNext]_<<vars, buildVars, routineVars>>
    /\ \A p \in Run : WF_vars(RunsOnly /\ Step(p)) /\ SF_vars(RunsOnly /\ Scan(p, "analyze"))

\* The runs alone, which may fail, and edits meanwhile.
EditsOnly ==
    /\ Init /\ NoBuild /\ NoRoutines
    /\ [][Next /\ UNCHANGED <<buildVars, routineVars>>]_<<vars, buildVars, routineVars>>

=============================================================================
