\* The server, its tools and codeweb commands beside it, sources edited at any
\* time and one crash or failed save anywhere: the graph on disk, and the one
\* the queries read, still show every file that was left alone since the
\* analysis they are of began.
SPECIFICATION MCPSpec
CONSTANTS
    f1 = f1
    f2 = f2
    good1 = good1
    good2 = good2
    junk = junk
    r1 = r1
    r2 = r2
    File <- TwoFiles
    Content <- OneContent
    Unindexable = {}
    Jsp = {}
    Run <- CallAndCli
    Absent = Absent
    NoRecord = NoRecord
    Torn = Torn
    Serial = FALSE
    QuietEdits = FALSE
    MaxTime = 1
    MaxFail = 1
    cli = cli
    Mcp <- OneCall
    NoRun = NoRun
    NoStore = NoStore
INVARIANT CapturesUntouched
INVARIANT SnapshotCapturesUntouched
CHECK_DEADLOCK FALSE
