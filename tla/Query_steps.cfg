\* A request of two steps, along calls and then against them: run one after the
\* other they lead from a to b and back, and the answer is empty.
SPECIFICATION ExecuteSpec
CONSTANTS
    a = a
    b = b
    c = c
    call = call
    flow = flow
    Node <- Three
    NoNode = NoNode
    NoLimit = NoLimit
    Query <- Queries
    Category <- Categories
    AnyCat = AnyCat
    Request <- TwoSteps
INVARIANT StepsRunInOrder
CHECK_DEADLOCK FALSE
