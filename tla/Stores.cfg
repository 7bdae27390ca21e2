\* Four commands on four files, among them deduplication and merges of up to
\* three stores, of merged ones and of one with itself: indexes, nodes,
\* relations and parameters survive, and imports are whole.
SPECIFICATION Spec
CONSTANTS
    s1 = s1
    s2 = s2
    f1 = f1
    f2 = f2
    f3 = f3
    p = p
    t = t
    m = m
    NoName = NoName
    NoFile = NoFile
    NoStore = NoStore
    NoSchema = NoSchema
    NoColumn = NoColumn
    Store = {x, y, z, w}
    Schema <- Schemas
    Analyzed <- Graphs
    Document <- Documents
    MaxMerged = 3
    MaxSteps = 4
SYMMETRY Symmetry
INVARIANT IndexesAgree
INVARIANT MergeKeepsGraphs
INVARIANT DedupKeepsGraph
INVARIANT ImportIsWhole
CHECK_DEADLOCK FALSE
