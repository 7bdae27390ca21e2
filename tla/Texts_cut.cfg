\* Variables with more texts than may be kept: EXECUTE of one calls what no
\* text left stands for, and no edge, not even an opaque one, says so.
SPECIFICATION CallsOnly
CONSTANTS
    Nowhere = Nowhere
    Expression = Expression
    Builtin <- NoBuiltins
    NoTable = NoTable
    NoName = NoName
    Scenario <- Databases
    MaxValueSet = 2
    MaxDepth = 3
    TextRoutine <- InARow
    Opaque <- TheOpaque
    Null = Null
    Unknown = Unknown
    ParameterTables = {"z"}
    Discriminators = {"a"}
    TableRow <- RowsOfTables
    HintCase <- HintCases
INVARIANT CutTextsFallBack
CHECK_DEADLOCK FALSE
