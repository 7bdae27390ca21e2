\* A file changes after it was parsed and before it is stamped: its old content
\* gets its new mtime, and every later diff calls the stale graph in sync.
SPECIFICATION EditsOnly
CONSTANTS
    f1 = f1
    f2 = f2
    good1 = good1
    good2 = good2
    junk = junk
    r1 = r1
    r2 = r2
    File <- OneFile
    Content <- Good
    Unindexable = {}
    Jsp = {}
    Run <- OneRun
    Absent = Absent
    NoRecord = NoRecord
    Torn = Torn
    Serial = TRUE
    QuietEdits = FALSE
    MaxTime = 2
    MaxFail = 0
    Nowhere = Nowhere
    Expression <- TheExpression
    Builtin <- Builtins
    Capital <- Capitals
    Program <- Programs
    NoTable = NoTable
    NoName = NoName
    Scenario <- Databases
    MaxValueSet = 2
    MaxDepth = 3
    TextRoutine <- AllRoutines
    Opaque <- TheOpaque
    Null = Null
    Unknown = Unknown
    ParameterTables = {"z"}
    Discriminators = {"a"}
    TableRow <- RowsOfTables
    HintCase <- HintCases
PROPERTY UpToDateIsFresh
CHECK_DEADLOCK FALSE
