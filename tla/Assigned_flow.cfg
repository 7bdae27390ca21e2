\* A value goes from a table into a variable and from there into another table:
\* no lineage has it.
SPECIFICATION DataOnly
CONSTANTS
    Nowhere = Nowhere
    Expression = Expression
    Builtin <- NoBuiltins
    NoTable = NoTable
    NoName = NoName
    Scenario <- OnlyAssigned
    MaxValueSet = 2
    MaxDepth = 3
    TextRoutine <- AllRoutines
    Opaque <- TheOpaque
    Null = Null
    Unknown = Unknown
    ParameterTables = {"z"}
    Discriminators = {"a"}
    TableRow <- RowsOfTables
    HintCase <- HintCases
INVARIANT AssignedFlowIsTraced
CHECK_DEADLOCK FALSE
