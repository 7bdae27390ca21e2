\* Two tool calls at a time and nobody else, edits at any time, a failed save
\* or a panic in the middle of an analysis: the mutex makes the server a serial
\* user of Project, what it answers is true of the snapshot its queries read,
\* no query sees an older graph than the queries before it, the next rebuild
\* repairs what was left behind, and every path out of a handler frees the
\* mutex.
SPECIFICATION MCPFairSpec
CONSTANTS
    f1 = f1
    f2 = f2
    good1 = good1
    good2 = good2
    junk = junk
    r1 = r1
    r2 = r2
    File <- OneFile
    Content <- OneContent
    Unindexable = {}
    Jsp = {}
    Run <- TwoCalls
    Absent = Absent
    NoRecord = NoRecord
    Torn = Torn
    Serial = FALSE
    QuietEdits = FALSE
    MaxTime = 1
    MaxFail = 1
    cli = cli
    Mcp <- TwoCalls
    NoRun = NoRun
    NoStore = NoStore
PROPERTY LifecycleSpec
PROPERTY AnswersAreFresh
PROPERTY SnapshotNeverOlder
PROPERTY RebuiltIsFresh
PROPERTY LockIsReleased
CHECK_DEADLOCK FALSE
