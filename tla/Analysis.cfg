\* What an analysis does, part by part. Runs over sources at rest, one after
\* the other: the manifest describes the graph, answers are true, rebuilds have
\* a reason, the project implements SourceIndex and in the end settles. Builds
\* of programs in chunks of one or two files, in both pipelines and hash
\* orders, with Java, XML and JSP: definitions are nodes, calls and accesses
\* reach what they name. Routines which run: the calls they make were
\* extracted, flows of data and waits for locks are told, hints and branches
\* are those of the rows, as far as the comments of the properties say; what is
\* lost is the subject of other runs.
SPECIFICATION AnalysisSpec
CONSTANTS
    f1 = f1
    f2 = f2
    good1 = good1
    good2 = good2
    junk = junk
    r1 = r1
    r2 = r2
    File <- TwoFiles
    Content <- GoodAndJunk
    Unindexable <- OnlyJunk
    Jsp <- TheJsp
    Run <- OneRun
    Absent = Absent
    NoRecord = NoRecord
    Torn = Torn
    Serial = TRUE
    QuietEdits = TRUE
    MaxTime = 3
    MaxFail = 0
    Nowhere = Nowhere
    Expression <- TheExpression
    Builtin <- Builtins
    Capital <- Capitals
    Program <- Programs
    NoTable = NoTable
    NoName = NoName
    Scenario <- Databases
    MaxValueSet = 2
    MaxDepth = 3
    TextRoutine <- AllRoutines
    Opaque <- TheOpaque
    Null = Null
    Unknown = Unknown
    ParameterTables = {"z"}
    Discriminators = {"a"}
    TableRow <- RowsOfTables
    HintCase <- HintCases
INVARIANT SidecarDescribesBody
INVARIANT DefinitionsAreNodes
INVARIANT CallsReachDefinitions
INVARIANT TablesAreWhole
INVARIANT CallsAreExtracted
INVARIANT FlowIsTraced
INVARIANT WaitIsReported
INVARIANT HintsAreNecessary
INVARIANT ReportsAreWhole
INVARIANT BranchesAreExplained
PROPERTY SourceIndexSpec
PROPERTY UpToDateIsFresh
PROPERTY RebuildHasReason
PROPERTY EventuallyFresh
PROPERTY EventuallyUpToDate
CHECK_DEADLOCK FALSE
