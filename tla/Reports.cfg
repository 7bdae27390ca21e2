\* What is asked of a graph. All graphs of two edges on three nodes with every
\* way of walking them, plain graphs of up to four edges, and requests of
\* several starts and steps: walks find what they should, once, within their
\* limits, and end. All keys of the terminal UI over graphs an analysis may
\* exchange, the trees, neighbours and cuts of all small graphs, and the
\* partition command with all sorts of options: what is shown is of the graph
\* there is, chains and neighbours are the ways there are, nothing is cut in
\* silence, each merge of clusters is the best there is, the report is of one
\* partition, and searches, lists, exports, impacts and paths are whole and
\* true; statements are found by their texts and marked.
SPECIFICATION ReportsSpec
CONSTANTS
    a = a
    b = b
    c = c
    call = call
    flow = flow
    Node <- Three
    NoNode = NoNode
    NoLimit = NoLimit
    Query <- Queries
    Category <- Categories
    AnyCat = AnyCat
    Request <- Requests
    NoFile = NoFile
    NoLabel = NoLabel
    NoQuery = NoQuery
    Graph <- FewGraphs
    Traced <- TracedGraphs
    Needle <- Typed
    MaxThreshold = 2
    CodeGraph <- PartedGraphs
    Option <- PartOptions
    NoK = NoK
    NoGamma = NoGamma
    Few = 2
    Many = 2
    Dot <- DotLetter
    Colon <- ColonLetter
    Digits <- LineDigits
    Scheme <- Schemes
    NoAlias = NoAlias
    NoLine = NoLine
    Nowhere = Nowhere
    Unanswered = Unanswered
    SqlGraph <- Searched
    Literals <- Numbers2
    Parameters = {"$b"}
    Comments = {"--c"}
    Variables = {"v", "p"}
    NotYet = NotYet
INVARIANT ScreenIsCurrent
INVARIANT WaysAreFound
INVARIANT PartitionAddsUp
INVARIANT ListsAreWhole
INVARIANT ImpactIsWhole
INVARIANT VerdictsAreRight
INVARIANT StatementsAreTold
INVARIANT NodesSound
INVARIANT NodesComplete
INVARIANT PathsSound
INVARIANT PathsComplete
INVARIANT AnswerIsUnion
PROPERTY MergesAreGreedy
PROPERTY EveryQueryAnswered
CHECK_DEADLOCK FALSE
