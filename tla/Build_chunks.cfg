\* A call in an earlier chunk leaves a placeholder under the id of a procedure,
\* and the definition in a later chunk adds no node.
SPECIFICATION BuildSpec
CONSTANTS
    Nowhere = Nowhere
    Expression <- TheExpression
    Builtin <- Builtins
    Capital <- Capitals
    Program <- Chunked
INVARIANT PlaceholdersAreUndefined
CHECK_DEADLOCK FALSE
