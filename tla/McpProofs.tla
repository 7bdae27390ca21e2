----------------------------- MODULE McpProofs -----------------------------
(***************************************************************************)
(* Theorems about module McpServer, for any number of tool calls and of    *)
(* commands beside the server, all files and contents and all bounds.      *)
(***************************************************************************)
EXTENDS McpServer, ProjectProofs

-----------------------------------------------------------------------------
(* The server drives the project by steps of the project. *)

\* A step of a handler is one of the project, or none of it.
LEMMA HandleIsStep == ASSUME NEW p \in Mcp, Handle(p) PROVE [Next]_vars
<1>0. p \in Run
    BY McpAssumption
<1>1. CASE Lock(p)
    BY <1>0, <1>1 DEF Lock, Next, Calm
<1>2. CASE Work(p)
    <2>1. Step(p) \/ SaveFails(p) \/ Crash(p)
        BY <1>2 DEF Work, Step
    <2> QED BY <1>0, <2>1 DEF Next, Calm
<1>3. CASE ~Lock(p) /\ ~Work(p)
    BY <1>3 DEF Handle, Uninitialized, DiffReplies, AnalyzeFailed, ReadBack, Swap,
                AlreadyInitialized, InitRefused, WriteToml, InitDone, Peek, EmptyReply,
                StatsReply
<1> QED BY <1>1, <1>2, <1>3

LEMMA ServerIsProject == [MCPNext]_mcpVars => [Next]_vars
<1> SUFFICES ASSUME [MCPNext]_mcpVars PROVE [Next]_vars
    OBVIOUS
<1>1. ASSUME NEW p \in Mcp, NEW t \in {"init", "analyze", "diff", "stats"}, Call(p, t)
      PROVE  [Next]_vars
    BY <1>1 DEF Call
<1>2. ASSUME NEW p \in Mcp, Handle(p) PROVE [Next]_vars
    BY <1>2, HandleIsStep
<1>3. ASSUME NEW p \in Mcp, Refuse(p) \/ InitFails(p) PROVE [Next]_vars
    BY <1>3 DEF Refuse, InitFails
<1>4. CASE Restart \/ CliInit
    BY <1>4 DEF Restart, CliInit
<1>5. ASSUME NEW p \in Cli, CliRun(p) PROVE [Next]_vars
    BY <1>5 DEF CliRun, Cli, Next, Calm
<1>6. CASE EditSources
    BY <1>6 DEF EditSources, Next, Calm
<1>7. CASE UNCHANGED mcpVars
    BY <1>7 DEF mcpVars
<1> QED BY <1>1, <1>2, <1>3, <1>4, <1>5, <1>6, <1>7 DEF MCPNext

LEMMA ServerStarts == MCPInit => Init
BY DEF MCPInit

-----------------------------------------------------------------------------
(* What the queries read shows what was left alone. *)

\* What is true of a graph in memory: it was made in the past, and shows what was left
\* alone since.
Truthful(store) ==
    store # EmptyStore =>
        /\ store.since \in Nat /\ store.since <= clock
        /\ \A f \in File : mtime[f] <= store.since => store.graph[f] = Indexed(src)[f]

SnapshotShape ==
    snap = [store |-> snap.store, uninit |-> snap.uninit, reason |-> snap.reason]

SnapshotInv ==
    /\ SnapshotShape
    /\ Truthful(snap.store)
    /\ held # NoStore => Truthful(held)

\* The same of the sources as they are after a step: what was written before it did not
\* become false, since a file which is edited is newer than every graph.
LEMMA TruthfulStays ==
    ASSUME TypeInv, CaptureInv, [Next]_vars, NEW store, Truthful(store)
    PROVE  Truthful(store)'
<1>0. clock \in Nat
    <2>1. clock \in 0 .. MaxTime
        BY DEF TypeInv, TypeOK
    <2> QED BY <2>1, Bounds
<1>1. ASSUME NEW g \in File, NEW c \in FileState, Edit(g, c) PROVE Truthful(store)'
    <2>1. clock' = clock + 1 /\ mtime'[g] = clock + 1
          /\ \A f \in File : f # g => mtime'[f] = mtime[f] /\ src'[f] = src[f]
        BY <1>1 DEF Edit, TypeInv, TypeOK, Graph
    <2>2. \A f \in File : f # g => Indexed(src)'[f] = Indexed(src)[f]
        BY <2>1 DEF Indexed
    <2> SUFFICES ASSUME store # EmptyStore
                 PROVE  /\ store.since \in Nat /\ store.since <= clock'
                        /\ \A f \in File : mtime'[f] <= store.since =>
                                              store.graph[f] = Indexed(src)'[f]
        BY DEF Truthful
    <2>3. store.since \in Nat /\ store.since <= clock
        BY DEF Truthful
    <2>4. ~(mtime'[g] <= store.since)
        BY <1>0, <2>1, <2>3
    <2> QED BY <1>0, <2>1, <2>2, <2>3, <2>4 DEF Truthful
<1>2. CASE UNCHANGED sources
    BY <1>2 DEF sources, Truthful, Indexed
<1>3. (\E g \in File, c \in FileState : Edit(g, c)) \/ UNCHANGED sources
    BY DEF Next, Calm, Step, Scan, LoadManifest, Compare, DiffDone, ShortCut, Rebuild, Parse,
           BuildStore, Stamp, TruncateStore, FillStore, TruncateSidecar, FillSidecar,
           SaveFails, Crash, vars
<1> QED BY <1>1, <1>2, <1>3

\* What is read from disk is truthful.
LEMMA LoadedIsTruthful ==
    ASSUME TypeInv, CaptureInv, Loadable
    PROVE  Truthful(Stored(body, bodySince))
<1>1. bodySince \in Nat
    <2>1. bodySince \in 0 .. MaxTime
        BY DEF TypeInv, TypeOK
    <2> QED BY <2>1, Bounds
<1> QED BY <1>1 DEF Truthful, Stored, Loadable, CaptureInv, CapturesUntouched, InThePast

\* What a rebuild leaves in memory is truthful.
LEMMA RebuiltIsTruthful ==
    ASSUME TypeInv, CaptureInv, NEW p \in Run, pc[p] = "sidecar"
    PROVE  Truthful(Stored(parsed[p], since[p]))
<1>1. since[p] \in Nat
    <2>1. since[p] \in 0 .. MaxTime
        BY DEF TypeInv, TypeOK
    <2> QED BY <2>1, Bounds
<1> QED BY <1>1 DEF Truthful, Stored, CaptureInv, Knows, InThePast

\* The steps which change a graph in memory.
LEMMA MemoryChanges ==
    ASSUME [MCPNext]_mcpVars
    PROVE  \/ UNCHANGED <<snap, held>> \/ Restart
           \/ \E p \in Mcp : \/ Work(p) /\ held' # held
                             \/ ReadBack(p) \/ Swap(p) \/ InitDone(p)
BY DEF MCPNext, Call, Handle, Uninitialized, Lock, Work, DiffReplies, AnalyzeFailed,
       AlreadyInitialized, InitRefused, WriteToml, Peek, EmptyReply, StatsReply, Refuse,
       InitFails, CliInit, CliRun, EditSources, mcpVars, server

LEMMA SnapshotInit == MCPInit => SnapshotInv
BY DEF MCPInit, SnapshotInv, SnapshotShape, Truthful

LEMMA SnapshotStep ==
    TypeInv /\ CaptureInv /\ SnapshotInv /\ [MCPNext]_mcpVars => SnapshotInv'
<1> SUFFICES ASSUME TypeInv, CaptureInv, SnapshotInv, [MCPNext]_mcpVars PROVE SnapshotInv'
    OBVIOUS
<1>1. [Next]_vars
    BY ServerIsProject
<1>2. ASSUME NEW store, Truthful(store) PROVE Truthful(store)'
    BY <1>1, <1>2, TruthfulStays
<1>3. Truthful(EmptyStore)
    BY DEF Truthful
<1>4. CASE UNCHANGED <<snap, held>>
    <2>1. Truthful(snap.store)' /\ (held' # NoStore => Truthful(held)')
        BY <1>2, <1>4 DEF SnapshotInv
    <2> QED BY <1>4, <2>1 DEF SnapshotInv, SnapshotShape
<1>5. ASSUME NEW p \in Mcp, Work(p), held' # held PROVE SnapshotInv'
    <2>1. held' = Stored(parsed[p], since[p]) /\ snap' = snap /\ pc[p] = "sidecar"
        BY <1>5 DEF Work, FillSidecar
    <2>2. Truthful(Stored(parsed[p], since[p]))
        BY <2>1, RebuiltIsTruthful, McpAssumption
    <2>3. Truthful(held') /\ Truthful(snap.store)
        BY <2>1, <2>2 DEF SnapshotInv
    <2> QED BY <1>2, <2>1, <2>3 DEF SnapshotInv, SnapshotShape
<1>6. ASSUME NEW p \in Mcp, ReadBack(p) PROVE SnapshotInv'
    <2>1. snap' = snap /\ (held' = held \/ (Loadable /\ held' = Stored(body, bodySince)))
        BY <1>6 DEF ReadBack
    <2> QED BY <1>2, <1>4, <2>1, LoadedIsTruthful DEF SnapshotInv, SnapshotShape
<1>7. ASSUME NEW p \in Mcp, Swap(p) PROVE SnapshotInv'
    BY <1>2, <1>7 DEF Swap, SnapshotInv, SnapshotShape
<1>8. ASSUME NEW p \in Mcp, InitDone(p) PROVE SnapshotInv'
    <2>1. snap'.store = snap.store /\ held' = held /\ SnapshotShape'
        BY <1>8 DEF InitDone, SnapshotInv, SnapshotShape
    <2> QED BY <1>2, <2>1 DEF SnapshotInv
<1>9. CASE Restart
    <2>1. held' = NoStore /\ SnapshotShape'
          /\ (snap'.store = EmptyStore \/ (Loadable /\ snap'.store = Stored(body, bodySince)))
        BY <1>9 DEF Restart, Boot, SnapshotShape
    <2> QED BY <1>2, <1>3, <2>1, LoadedIsTruthful DEF SnapshotInv
<1> QED BY <1>4, <1>5, <1>6, <1>7, <1>8, <1>9, MemoryChanges

\* The graph the queries read shows every file which was left alone since the analysis it
\* comes from began (SnapshotCapturesUntouched): with any number of tool calls, of
\* restarts and of commands beside the server, and whatever crashes, because the snapshot
\* is only ever taken from a run which ended or from a store which loads.
THEOREM SnapshotCaptures == MCPSpec => []SnapshotCapturesUntouched
<1> DEFINE Inv == TypeInv /\ CaptureInv /\ SnapshotInv
<1>1. Inv => SnapshotCapturesUntouched
    BY DEF SnapshotInv, Truthful, SnapshotCapturesUntouched
<1>2. MCPInit => Inv
    BY ServerStarts, TypeInit, CaptureInit, SnapshotInit
<1>3. Inv /\ [MCPNext]_mcpVars => Inv'
    BY ServerIsProject, TypeStep, CaptureStep, SnapshotStep
<1> QED BY <1>1, <1>2, <1>3, PTL DEF MCPSpec

-----------------------------------------------------------------------------
(* The mutex. *)

Phases == {"idle", "called", "running", "swap", "init", "empty", "filled"}

\* Who works on the project holds the mutex, for as long as the project is at work.
Locked(p) ==
    /\ phase[p] \in {"running", "swap", "init"} => holder = p
    /\ pc[p] # "idle" => phase[p] = "running"

MutexInv ==
    /\ phase \in [Mcp -> Phases]
    /\ \A p \in Mcp : Locked(p)

LEMMA MutexInit == MCPInit => MutexInv
BY McpAssumption DEF MCPInit, Init, MutexInv, Phases, Locked

\* A step of one run leaves the others where they are.
LEMMA OthersStay ==
    ASSUME TypeInv, NEW p \in Run,
           Step(p) \/ SaveFails(p) \/ Crash(p) \/ \E j \in {"analyze", "diff"} : Scan(p, j)
    PROVE  \A q \in Run : q # p => pc'[q] = pc[q]
<1>1. pc' = pc \/ \E l : Goto(p, l)
    BY DEF Step, SaveFails, Crash, Scan, LoadManifest, Compare, DiffDone, ShortCut, Rebuild, Parse,
           BuildStore, Stamp, TruncateStore, FillStore, TruncateSidecar, FillSidecar, Answer
<1> QED BY <1>1 DEF Goto, TypeInv, TypeOK

LEMMA MutexStep == TypeInv /\ MutexInv /\ [MCPNext]_mcpVars => MutexInv'
<1> SUFFICES ASSUME TypeInv, MutexInv, [MCPNext]_mcpVars PROVE MutexInv'
    OBVIOUS
<1>r. Mcp \subseteq Run /\ NoRun \notin Mcp
    BY McpAssumption
<1>p. pc \in [Run -> {"idle", "manifest", "compare", "parse", "stamp", "store", "saved",
                      "sidecar"}]
    BY DEF TypeInv, TypeOK
<1>a. ASSUME NEW p \in Mcp, NEW l \in Phases, At(p, l),
             \A q \in Mcp \ {p} : pc'[q] = pc[q],
             \A q \in Mcp \ {p} : holder = q => holder' = q,
             l \in {"running", "swap", "init"} => holder' = p,
             pc'[p] # "idle" => l = "running"
      PROVE  MutexInv'
    <2>1. phase' \in [Mcp -> Phases] /\ phase'[p] = l
          /\ \A q \in Mcp \ {p} : phase'[q] = phase[q]
        BY <1>a DEF At, MutexInv
    <2>2. \A q \in Mcp : Locked(q)'
        BY <1>a, <2>1 DEF Locked, MutexInv
    <2> QED BY <2>1, <2>2 DEF MutexInv
<1>b. ASSUME NEW p \in Mcp, NEW l \in Phases, At(p, l), UNCHANGED vars, 
             phase[p] # "running" \/ pc[p] = "idle",
             holder' = holder \/ holder \in {NoRun, p},
             l \in {"swap", "init"} => holder' = p, l # "running"
      PROVE  MutexInv'
    <2>1. pc' = pc /\ pc'[p] = "idle"
        BY <1>b DEF vars, MutexInv, Locked
    <2>2. \A q \in Mcp \ {p} : holder = q => holder' = q
        BY <1>b, <1>r
    <2> QED BY <1>a, <1>b, <2>1, <2>2
<1>1. ASSUME NEW p \in Mcp, NEW t \in {"init", "analyze", "diff", "stats"}, Call(p, t)
      PROVE  MutexInv'
    BY <1>1, <1>b DEF Call, Phases
<1>2. ASSUME NEW p \in Mcp, Uninitialized(p) PROVE MutexInv'
    BY <1>2, <1>b DEF Uninitialized, Reply, Phases
<1>3. ASSUME NEW p \in Mcp, Lock(p) PROVE MutexInv'
    <2>1. pc' = [pc EXCEPT ![p] = "manifest"] /\ holder' = p /\ holder = NoRun
          /\ At(p, "running")
        BY <1>3 DEF Lock, Scan, Goto
    <2> QED BY <1>a, <1>p, <1>r, <2>1 DEF Phases
<1>4. ASSUME NEW p \in Mcp, Work(p) PROVE MutexInv'
    <2>1. Step(p) \/ SaveFails(p) \/ Crash(p)
        BY <1>4 DEF Work, Step
    <2>2. \A q \in Mcp : q # p => pc'[q] = pc[q]
        BY <1>r, <2>1, OthersStay
    <2>3. phase' = phase /\ holder' = holder /\ phase[p] = "running"
        BY <1>4 DEF Work
    <2> QED BY <2>2, <2>3 DEF MutexInv, Locked
<1>5. ASSUME NEW p \in Mcp, DiffReplies(p) PROVE MutexInv'
    BY <1>5, <1>b DEF DiffReplies, Reply, Phases, MutexInv, Locked
<1>6. ASSUME NEW p \in Mcp, AnalyzeFailed(p) PROVE MutexInv'
    BY <1>6, <1>b DEF AnalyzeFailed, Reply, Phases, MutexInv, Locked
<1>7. ASSUME NEW p \in Mcp, ReadBack(p) PROVE MutexInv'
    BY <1>7, <1>b DEF ReadBack, Phases, MutexInv, Locked
<1>8. ASSUME NEW p \in Mcp, Swap(p) PROVE MutexInv'
    BY <1>8, <1>b DEF Swap, Reply, Phases, MutexInv, Locked
<1>9. ASSUME NEW p \in Mcp, AlreadyInitialized(p) \/ InitRefused(p) \/ Refuse(p)
      PROVE  MutexInv'
    BY <1>9, <1>b DEF AlreadyInitialized, InitRefused, Refuse, Reply, Phases
<1>10. ASSUME NEW p \in Mcp, WriteToml(p) PROVE MutexInv'
    BY <1>10, <1>b DEF WriteToml, Phases
<1>11. ASSUME NEW p \in Mcp, InitFails(p) \/ InitDone(p) PROVE MutexInv'
    BY <1>11, <1>b DEF InitFails, InitDone, Reply, Phases, MutexInv, Locked
<1>12. ASSUME NEW p \in Mcp, Peek(p) \/ EmptyReply(p) \/ StatsReply(p) PROVE MutexInv'
    BY <1>12, <1>b DEF Peek, EmptyReply, StatsReply, Reply, Phases
<1>13. CASE Restart \/ CliInit
    BY <1>13 DEF Restart, CliInit, vars, MutexInv, Locked
<1>14. ASSUME NEW p \in Cli, CliRun(p) PROVE MutexInv'
    <2>1. \A q \in Mcp : pc'[q] = pc[q]
        BY <1>r, <1>14, OthersStay DEF CliRun, Cli
    <2> QED BY <1>14, <2>1 DEF CliRun, server, MutexInv, Locked
<1>15. CASE EditSources
    BY <1>15 DEF EditSources, Edit, server, MutexInv, Locked
<1>16. CASE UNCHANGED mcpVars
    BY <1>16 DEF mcpVars, vars, server, MutexInv, Locked
<1> QED
    BY <1>1, <1>2, <1>3, <1>4, <1>5, <1>6, <1>7, <1>8, <1>9, <1>10, <1>11, <1>12, <1>13,
       <1>14, <1>15, <1>16 DEF MCPNext, Handle

-----------------------------------------------------------------------------
(* Runs which exclude one another. *)

\* A step of a run which was called does not depend on whether runs exclude one another.
LEMMA SameStep == ASSUME NEW p \in Run, Step(p) PROVE Lifecycle!Step(p)
<1>1. ASSUME LoadManifest(p) PROVE Lifecycle!LoadManifest(p)
    BY <1>1 DEF LoadManifest, Lifecycle!LoadManifest, Goto, Lifecycle!Goto, Recorded,
               Lifecycle!Recorded, sources, Lifecycle!sources, disk, Lifecycle!disk
<1>2. ASSUME NEW f \in File, Compare(p, f) PROVE Lifecycle!Compare(p, f)
    BY <1>2 DEF Compare, Lifecycle!Compare, Differs, Lifecycle!Differs, ByteHash,
               Lifecycle!ByteHash, sources, Lifecycle!sources, disk, Lifecycle!disk
<1>3. ASSUME DiffDone(p) PROVE Lifecycle!DiffDone(p)
    BY <1>3 DEF DiffDone, Lifecycle!DiffDone, Compared, Lifecycle!Compared, Answer,
               Lifecycle!Answer, Goto, Lifecycle!Goto, Nothing, Lifecycle!Nothing, NoRecords,
               Lifecycle!NoRecords, sources, Lifecycle!sources, disk, Lifecycle!disk
<1>4. ASSUME ShortCut(p) PROVE Lifecycle!ShortCut(p)
    BY <1>4 DEF ShortCut, Lifecycle!ShortCut, Compared, Lifecycle!Compared, UpToDate,
               Lifecycle!UpToDate, Recorded, Lifecycle!Recorded, Answer, Lifecycle!Answer,
               Goto, Lifecycle!Goto, Nothing, Lifecycle!Nothing, NoRecords,
               Lifecycle!NoRecords, sources, Lifecycle!sources, disk, Lifecycle!disk
<1>5. ASSUME Rebuild(p) PROVE Lifecycle!Rebuild(p)
    BY <1>5 DEF Rebuild, Lifecycle!Rebuild, Compared, Lifecycle!Compared, UpToDate,
               Lifecycle!UpToDate, Recorded, Lifecycle!Recorded, Goto, Lifecycle!Goto, sources,
               Lifecycle!sources, disk, Lifecycle!disk
<1>6. ASSUME NEW f \in File, Parse(p, f) PROVE Lifecycle!Parse(p, f)
    BY <1>6 DEF Parse, Lifecycle!Parse, Indexed, Lifecycle!Indexed, sources, Lifecycle!sources,
               disk, Lifecycle!disk
<1>7. ASSUME BuildStore(p) PROVE Lifecycle!BuildStore(p)
    BY <1>7 DEF BuildStore, Lifecycle!BuildStore, Goto, Lifecycle!Goto, Present,
               Lifecycle!Present, sources, Lifecycle!sources, disk, Lifecycle!disk
<1>8. ASSUME NEW f \in File, Stamp(p, f) PROVE Lifecycle!Stamp(p, f)
    BY <1>8 DEF Stamp, Lifecycle!Stamp, FromParts, Lifecycle!FromParts, ParsedHash,
               Lifecycle!ParsedHash, ByteHash, Lifecycle!ByteHash, sources, Lifecycle!sources,
               disk, Lifecycle!disk
<1>9. ASSUME TruncateStore(p) PROVE Lifecycle!TruncateStore(p)
    BY <1>9 DEF TruncateStore, Lifecycle!TruncateStore, Goto, Lifecycle!Goto, sources,
               Lifecycle!sources, progress, Lifecycle!progress
<1>10. ASSUME FillStore(p) PROVE Lifecycle!FillStore(p)
    BY <1>10 DEF FillStore, Lifecycle!FillStore, Goto, Lifecycle!Goto, sources,
               Lifecycle!sources, progress, Lifecycle!progress
<1>11. ASSUME TruncateSidecar(p) PROVE Lifecycle!TruncateSidecar(p)
    BY <1>11 DEF TruncateSidecar, Lifecycle!TruncateSidecar, Goto, Lifecycle!Goto, NoRecords,
               Lifecycle!NoRecords, sources, Lifecycle!sources, progress, Lifecycle!progress
<1>12. ASSUME FillSidecar(p) PROVE Lifecycle!FillSidecar(p)
    BY <1>12 DEF FillSidecar, Lifecycle!FillSidecar, NewManifest, Lifecycle!NewManifest,
               Recorded, Lifecycle!Recorded, Answer, Lifecycle!Answer, Goto, Lifecycle!Goto,
               Nothing, Lifecycle!Nothing, NoRecords, Lifecycle!NoRecords, sources,
               Lifecycle!sources
<1> QED BY <1>1, <1>2, <1>3, <1>4, <1>5, <1>6, <1>7, <1>8, <1>9, <1>10, <1>11, <1>12 DEF Step, Lifecycle!Step

LEMMA SameFailure ==
    ASSUME NEW p \in Run, SaveFails(p) \/ Crash(p)
    PROVE  Lifecycle!SaveFails(p) \/ Lifecycle!Crash(p)
BY DEF SaveFails, Lifecycle!SaveFails, Crash, Lifecycle!Crash, Answer, Lifecycle!Answer,
       Goto, Lifecycle!Goto, Nothing, Lifecycle!Nothing, NoRecords, Lifecycle!NoRecords,
       sources, Lifecycle!sources, disk, Lifecycle!disk

\* A run which starts when all are idle may start under either rule.
LEMMA SameScan ==
    ASSUME NEW p \in Run, NEW j, Scan(p, j), \A q \in Run : pc[q] = "idle"
    PROVE  Lifecycle!Scan(p, j)
BY DEF Scan, Lifecycle!Scan, Goto, Lifecycle!Goto, Present, Lifecycle!Present, sources,
       Lifecycle!sources, disk, Lifecycle!disk

LEMMA SameEdit ==
    ASSUME NEW f \in File, NEW c \in FileState, Edit(f, c)
    PROVE  Lifecycle!Edit(f, c) /\ c \in Lifecycle!FileState
BY DEF Edit, Lifecycle!Edit, FileState, Lifecycle!FileState, disk, Lifecycle!disk, progress,
       Lifecycle!progress

LEMMA SameInit == Init => Lifecycle!Init
BY DEF Init, Lifecycle!Init, FileState, Lifecycle!FileState, Nothing, Lifecycle!Nothing,
       NoRecords, Lifecycle!NoRecords, Indexed, Lifecycle!Indexed, ParsedHash,
       Lifecycle!ParsedHash, ByteHash, Lifecycle!ByteHash

LEMMA SameVars == UNCHANGED vars => UNCHANGED Lifecycle!vars
BY DEF vars, Lifecycle!vars, sources, Lifecycle!sources, disk, Lifecycle!disk, progress,
       Lifecycle!progress

\* Without commands beside the server, a handler which starts a run finds none at work:
\* the mutex was free.
LEMMA SerialStep ==
    ASSUME Mcp = Run, MutexInv, [MCPNext]_mcpVars
    PROVE  [Lifecycle!Next]_(Lifecycle!vars)
<1>1. ASSUME NEW p \in Run, Lock(p) PROVE Lifecycle!Next
    <2>1. \A q \in Run : pc[q] = "idle"
        BY <1>1, McpAssumption DEF Lock, MutexInv, Locked
    <2>2. Scan(p, tool[p]) /\ tool[p] \in {"analyze", "diff"}
        BY <1>1 DEF Lock
    <2>3. Lifecycle!Scan(p, tool[p])
        BY <2>1, <2>2, SameScan
    <2> QED BY <2>2, <2>3 DEF Lifecycle!Next, Lifecycle!Calm
<1>2. ASSUME NEW p \in Run, Work(p) PROVE Lifecycle!Next
    <2>1. Step(p) \/ SaveFails(p) \/ Crash(p)
        BY <1>2 DEF Work, Step
    <2>2. Lifecycle!Step(p) \/ Lifecycle!SaveFails(p) \/ Lifecycle!Crash(p)
        BY <2>1, SameStep, SameFailure
    <2> QED BY <2>2 DEF Lifecycle!Next, Lifecycle!Calm
<1>3. CASE EditSources
    <2>1. PICK f \in File, c \in FileState : Edit(f, c)
        BY <1>3 DEF EditSources
    <2> QED BY <2>1, SameEdit DEF Lifecycle!Next, Lifecycle!Calm
<1>4. UNCHANGED vars \/ EditSources \/ \E p \in Run : Lock(p) \/ Work(p)
    BY DEF MCPNext, Cli, Call, Handle, Uninitialized, DiffReplies, AnalyzeFailed, ReadBack,
           Swap, AlreadyInitialized, InitRefused, WriteToml, InitDone, Peek, EmptyReply,
           StatsReply, Refuse, InitFails, Restart, CliInit, mcpVars
<1> QED BY <1>1, <1>2, <1>3, <1>4, SameVars

\* The mutex makes the server a project whose runs exclude one another (LifecycleSpec),
\* with any number of concurrent tool calls, as long as no command runs beside it: every
\* path from the start of a run to its last write holds the mutex.
THEOREM ServerIsSerial == ASSUME Mcp = Run PROVE MCPSpec => LifecycleSpec
<1>1. MCPInit => Lifecycle!Init /\ TypeInv /\ MutexInv
    BY ServerStarts, SameInit, TypeInit, MutexInit
<1>2. (TypeInv /\ MutexInv) /\ [MCPNext]_mcpVars => (TypeInv /\ MutexInv)'
    BY ServerIsProject, TypeStep, MutexStep
<1>3. MutexInv /\ [MCPNext]_mcpVars => [Lifecycle!Next]_(Lifecycle!vars)
    BY SerialStep
<1> QED BY <1>1, <1>2, <1>3, PTL DEF MCPSpec, LifecycleSpec, Lifecycle!Spec

-----------------------------------------------------------------------------
(* The queries never see an older graph. *)

\* Graphs in memory are no newer than the one on disk, the snapshot is no newer than what
\* will take its place.
AgeInv ==
    /\ SnapshotShape
    /\ Aged
    /\ snap.store.since \in Nat /\ snap.store.since <= bodySince
    /\ held # NoStore => /\ held.since \in Nat /\ held.since <= bodySince
                         /\ snap.store.since <= held.since

LEMMA AgeInit == MCPInit => AgeInv
BY DEF MCPInit, Init, AgeInv, SnapshotShape, Aged, EmptyStore, Stored

LEMMA AgeStep ==
    ASSUME Mcp = Run, TypeInv, CaptureInv, MutexInv, AgeInv, [MCPNext]_mcpVars
    PROVE  AgeInv' /\ (Restart \/ snap'.store.since >= snap.store.since)
<1>1. OneAtWork
    BY DEF OneAtWork, MutexInv, Locked
<1>2. Aged' /\ bodySince' \in Nat /\ bodySince <= bodySince' /\ bodySince \in Nat
    BY <1>1, AgedStep, ServerIsProject, Times DEF AgeInv
<1>3. CASE UNCHANGED <<snap, held>>
    BY <1>2, <1>3 DEF AgeInv, SnapshotShape
<1>4. ASSUME NEW p \in Mcp, Work(p), held' # held
      PROVE  AgeInv' /\ snap'.store.since >= snap.store.since
    <2>1. held' = Stored(parsed[p], since[p]) /\ snap' = snap /\ pc[p] = "sidecar"
        BY <1>4 DEF Work, FillSidecar
    <2>2. since[p] = bodySince /\ held'.since = bodySince
        BY <2>1 DEF AgeInv, Aged, Stored
    <2> QED BY <1>2, <2>1, <2>2 DEF AgeInv, SnapshotShape
<1>5. ASSUME NEW p \in Mcp, ReadBack(p)
      PROVE  AgeInv' /\ snap'.store.since >= snap.store.since
    <2>1. snap' = snap /\ (held' = held \/ held' = Stored(body, bodySince))
        BY <1>5 DEF ReadBack
    <2> QED BY <1>2, <1>3, <2>1 DEF AgeInv, SnapshotShape, Stored
<1>6. ASSUME NEW p \in Mcp, Swap(p)
      PROVE  AgeInv' /\ snap'.store.since >= snap.store.since
    <2>1. held' = NoStore /\ SnapshotShape'
          /\ snap'.store = IF held = NoStore THEN snap.store ELSE held
        BY <1>6 DEF Swap, SnapshotShape
    <2> QED BY <1>2, <2>1 DEF AgeInv
<1>7. ASSUME NEW p \in Mcp, InitDone(p)
      PROVE  AgeInv' /\ snap'.store.since >= snap.store.since
    <2>1. snap'.store = snap.store /\ held' = held /\ SnapshotShape'
        BY <1>7 DEF InitDone, AgeInv, SnapshotShape
    <2> QED BY <1>2, <2>1 DEF AgeInv
<1>8. CASE Restart
    <2>1. held' = NoStore /\ SnapshotShape'
          /\ (snap'.store = EmptyStore \/ snap'.store = Stored(body, bodySince))
        BY <1>8 DEF Restart, Boot, SnapshotShape
    <2>2. snap'.store.since \in {0, bodySince}
        BY <2>1 DEF EmptyStore, Stored
    <2> QED BY <1>2, <1>8, <2>1, <2>2 DEF AgeInv
<1> QED BY <1>3, <1>4, <1>5, <1>6, <1>7, <1>8, MemoryChanges DEF AgeInv

\* As long as no command runs beside the server, its queries never see an older graph than
\* before (SnapshotNeverOlder), whatever fails and however many calls there are: only the
\* holder of the mutex saves, and what it reads back was saved after what it has.
THEOREM SnapshotGrows == ASSUME Mcp = Run PROVE MCPSpec => SnapshotNeverOlder
<1> DEFINE Inv == TypeInv /\ CaptureInv /\ MutexInv /\ AgeInv
<1>1. MCPInit => Inv
    BY ServerStarts, TypeInit, CaptureInit, MutexInit, AgeInit
<1>2. Inv /\ [MCPNext]_mcpVars => Inv'
    BY ServerIsProject, TypeStep, CaptureStep, MutexStep, AgeStep
<1>3. Inv /\ [MCPNext]_mcpVars => [Restart \/ snap'.store.since >= snap.store.since]_mcpVars
    BY AgeStep
<1> QED BY <1>1, <1>2, <1>3, PTL DEF MCPSpec, SnapshotNeverOlder

-----------------------------------------------------------------------------
(* What the server answers is true of the snapshot. *)

Tools == {"none", "init", "analyze", "diff", "stats"}

Words ==
    {"none", "uninitialized", "error", "ready", "in sync", "changed", "up to date", "rebuilt",
     "already initialized", "initialized", "not built", "no sources", "stats"}

ServerType == tool \in [Mcp -> Tools] /\ reply \in [Mcp -> Words]

\* The run of a call is over, its handler is not.
Done(p) == phase[p] = "running" /\ pc[p] = "idle"

\* A call runs what its tool asks for, and only an analysis parses.
Asked(p) ==
    /\ phase[p] = "running" => job[p] = tool[p]
    /\ pc[p] \in SavePoints \cup {"parse", "stamp"} => job[p] = "analyze"

\* The call which left a store in the project, and has still to put it into the snapshot.
Holds(p) ==
    /\ tool[p] = "analyze"
    /\ (Done(p) /\ verdict[p] = "rebuilt") \/ phase[p] = "swap"

\* What AnswersAreFresh supposes of a call.
Untroubled(p) == fails = 0 /\ StampedInTime /\ Undisturbed(p)

\* Until it replied, what a call which vouched for the graph on disk said is true, and if
\* it analyzed, the project has or can load the store.
Vouched(p) ==
    /\ /\ Done(p) \/ phase[p] = "swap"
       /\ verdict[p] \in {"in sync", "up to date", "rebuilt"}
       /\ Untroubled(p)
       => OnDiskIsFresh
    /\ Done(p) /\ verdict[p] = "up to date" => header = "current"
    /\ Done(p) /\ verdict[p] = "rebuilt" => held # NoStore
    /\ phase[p] = "swap" => verdict[p] \in {"up to date", "rebuilt"}
    /\ phase[p] = "swap" /\ fails = 0 => held # NoStore

\* A server without a project has an empty snapshot of a directory without a graph, and
\* nobody analyzes it.
SlotInv ==
    /\ slot => toml
    /\ ~slot => /\ header = "absent" /\ body = Nothing /\ snap.store = EmptyStore
                /\ \A p \in Mcp : phase[p] \notin {"running", "swap"}
    /\ \A p \in Mcp : phase[p] = "init" => toml /\ ~slot

\* As long as nothing failed, what is in memory is what is on disk.
CopyInv ==
    /\ held # NoStore => \E p \in Mcp : Holds(p)
    /\ fails = 0 /\ held # NoStore => held.graph = body
    /\ fails = 0 /\ ~snap.reason /\ held = NoStore /\ ~Saving => snap.store.graph = body

AnswerInv ==
    /\ ServerType /\ SlotInv /\ CopyInv
    /\ \A p \in Mcp : Asked(p) /\ Vouched(p)

\* A store in memory is not none.
LEMMA StoredIsSome ==
    ASSUME NEW g \in Graph, NEW t \in Nat
    PROVE  Stored(g, t) # NoStore /\ Stored(g, t).graph = g
BY McpAssumption DEF Stored, Graph

LEMMA AnswerInit == MCPInit => AnswerInv
<1> SUFFICES ASSUME MCPInit PROVE AnswerInv
    OBVIOUS
<1>1. ServerType
    BY DEF MCPInit, ServerType, Tools, Words
<1>2. SlotInv
    BY DEF MCPInit, Init, SlotInv
<1>3. CopyInv
    BY DEF MCPInit, CopyInv
<1>4. \A p \in Mcp : Asked(p) /\ Vouched(p)
    BY McpAssumption DEF MCPInit, Init, Asked, Vouched, Done, SavePoints
<1> QED BY <1>1, <1>2, <1>3, <1>4 DEF AnswerInv

\* Who holds the mutex is alone.
LEMMA AloneInside ==
    ASSUME MutexInv, NEW p \in Mcp, phase[p] \in {"running", "swap", "init"}
    PROVE  \A q \in Mcp \ {p} : phase[q] \notin {"running", "swap", "init"} /\ pc[q] = "idle"
BY DEF MutexInv, Locked

\* While nobody is inside, the project holds no store.
LEMMA NothingHeld ==
    ASSUME AnswerInv, MutexInv, held # NoStore
    PROVE  \E p \in Mcp : Holds(p) /\ holder = p /\ pc[p] = "idle"
<1>1. PICK p \in Mcp : Holds(p)
    BY DEF AnswerInv, CopyInv
<1>2. holder = p /\ pc[p] = "idle"
    BY <1>1 DEF Holds, Done, MutexInv, Locked
<1> QED BY <1>1, <1>2

\* A step of a handler which neither works nor touches the stores has only to see to it
\* that it does not forget one.
LEMMA AnswerLocal ==
    ASSUME AnswerInv, MutexInv, NEW p \in Mcp, UNCHANGED <<vars, slot, held, snap>>,
           ServerType', ~Holds(p), phase'[p] \notin {"running", "swap"},
           \A q \in Mcp : q # p => phase'[q] = phase[q] /\ tool'[q] = tool[q],
           toml => toml', phase'[p] = "init" => toml' /\ ~slot
    PROVE  AnswerInv'
<1> USE DEF vars, sources, disk, progress
<1>1. SlotInv'
    BY DEF AnswerInv, SlotInv
<1>2. CopyInv'
    BY DEF AnswerInv, CopyInv, Holds, Done, Saving
<1>3. \A q \in Mcp : Asked(q)'
    BY DEF AnswerInv, Asked
<1>4. \A q \in Mcp : q # p => Vouched(q)'
    BY DEF AnswerInv, Vouched, Done, Untroubled, StampedInTime, Undisturbed, OnDiskIsFresh,
           Indexed, Recorded
<1>5. Vouched(p)'
    BY DEF Vouched, Done
<1> QED BY <1>1, <1>2, <1>3, <1>4, <1>5 DEF AnswerInv

\* Starting a run.
LEMMA AnswerLock ==
    ASSUME Mcp = Run, TypeInv, AnswerInv, MutexInv, NEW p \in Mcp, Lock(p)
    PROVE  AnswerInv'
<1>t. /\ pc \in [Run -> {"idle", "manifest", "compare", "parse", "stamp", "store", "saved",
                         "sidecar"}]
      /\ job \in [Run -> {"analyze", "diff"}] /\ phase \in [Mcp -> Phases]
    BY DEF TypeInv, TypeOK, MutexInv
<1>1. /\ UNCHANGED <<disk, sources, fails, toml, slot, tool, held, snap, reply>>
      /\ slot /\ holder = NoRun /\ pc[p] = "idle"
      /\ pc' = [pc EXCEPT ![p] = "manifest"] /\ job' = [job EXCEPT ![p] = tool[p]]
      /\ phase' = [phase EXCEPT ![p] = "running"]
    BY DEF Lock, Scan, Goto, At
<1>2. /\ \A q \in Mcp : phase[q] \notin {"running", "swap", "init"} /\ pc[q] = "idle"
      /\ held = NoStore
    <2>1. \A q \in Mcp : holder # q
        BY <1>1, McpAssumption
    <2> QED BY <2>1, NothingHeld DEF MutexInv, Locked
<1>3. SlotInv'
    BY <1>1, <1>2, <1>t DEF AnswerInv, SlotInv, disk
<1>4. CopyInv'
    <2>1. ~Saving
        BY <1>2 DEF Saving
    <2> QED BY <1>1, <1>2, <2>1 DEF AnswerInv, CopyInv, disk
<1>5. \A q \in Mcp : Asked(q)'
    BY <1>1, <1>2, <1>t DEF AnswerInv, Asked, SavePoints
<1>6. \A q \in Mcp : Vouched(q)'
    BY <1>1, <1>2, <1>t DEF Vouched, Done
<1>7. ServerType'
    BY <1>1 DEF AnswerInv, ServerType
<1> QED BY <1>3, <1>4, <1>5, <1>6, <1>7 DEF AnswerInv

\* A run at work, until it ends or fails.
LEMMA AnswerWork ==
    ASSUME Mcp = Run, TypeInv, CaptureInv, OneAtWork, DescribeInv, CompareInv, AnswerInv,
           MutexInv, NEW p \in Mcp, Work(p)
    PROVE  AnswerInv'
<1>t. /\ pc \in [Run -> {"idle", "manifest", "compare", "parse", "stamp", "store", "saved",
                         "sidecar"}]
      /\ verdict \in [Run -> {"none", "in sync", "changed", "up to date", "rebuilt", "error"}]
    BY DEF TypeInv, TypeOK
<1>f. fails + 1 # fails /\ fails + 1 # 0
    <2>1. fails \in 0 .. MaxFail
        BY DEF TypeInv, TypeOK
    <2>2. fails \in Nat
        BY <2>1, Bounds
    <2> QED BY <2>2
<1>1. /\ UNCHANGED <<toml, slot, phase, tool, snap, reply>> /\ phase[p] = "running"
      /\ StepOf(p) /\ UNCHANGED sources
    <2>1. Step(p) \/ SaveFails(p) \/ Crash(p)
        BY DEF Work, Step
    <2> QED BY <2>1, DiskChanges DEF Work, StepOf
<1>2. pc[p] # "idle" /\ job' = job
    BY DEF Work, Step, LoadManifest, Compare, DiffDone, ShortCut, Compared, Rebuild, Parse,
           BuildStore, Stamp, TruncateStore, FillStore, TruncateSidecar, FillSidecar, SaveFails,
           Crash, Answer, progress
<1>3. held = NoStore
    BY <1>1, <1>2, NothingHeld DEF MutexInv, Locked
<1>4. /\ \A q \in Mcp \ {p} : phase[q] \notin {"running", "swap", "init"} /\ pc[q] = "idle"
      /\ \A q \in Run : q # p => Rests(q)
    BY <1>1, AloneInside, OthersRest
<1>5. held' = NoStore \/ (FillSidecar(p) /\ held' = Stored(parsed[p], since[p]))
    BY <1>3 DEF Work
<1>6. slot /\ SlotInv'
    BY <1>1 DEF AnswerInv, SlotInv
<1>7. ServerType'
    BY <1>1 DEF AnswerInv, ServerType
<1>8. \A q \in Mcp : Asked(q)'
    <2>1. Asked(p)'
        <3>1. pc[p] \in SavePoints \cup {"parse", "stamp"} \/ Rebuild(p)
              \/ pc'[p] \notin SavePoints \cup {"parse", "stamp"}
            BY <1>t, <1>1 DEF StepOf, Step, Scan, LoadManifest, Compare, DiffDone, ShortCut,
                   Compared, Parse, BuildStore, Stamp, TruncateStore, FillStore,
                   TruncateSidecar, FillSidecar, SaveFails, Crash, Answer, Goto, SavePoints
        <3> QED BY <1>1, <1>2, <3>1 DEF AnswerInv, Asked, Rebuild
    <2> QED BY <1>1, <1>2, <1>4, <2>1 DEF AnswerInv, Asked, Rests
<1>9. \A q \in Mcp \ {p} : Vouched(q)'
    BY <1>1, <1>4 DEF Vouched, Done
<1>10. CASE pc'[p] # "idle"
    <2>1. Vouched(p)'
        BY <1>1, <1>10 DEF Vouched, Done
    <2>2. held' = NoStore
        BY <1>5, <1>10, <1>t DEF FillSidecar, Answer, Goto
    <2>3. fails' = 0 /\ ~Saving' => fails = 0 /\ ~Saving /\ UNCHANGED disk
        <3>1. pc'[p] \in SavePoints \/ (pc[p] \notin SavePoints /\ UNCHANGED disk)
            BY <1>t, <1>1, <1>10 DEF StepOf, Step, Scan, LoadManifest, Compare, DiffDone,
                   ShortCut, Compared, Rebuild, Parse, BuildStore, Stamp, TruncateStore,
                   FillStore, TruncateSidecar, FillSidecar, SaveFails, Crash, Answer, Goto,
                   SavePoints
        <3>2. fails' = fails
            BY <1>t, <1>1, <1>10 DEF StepOf, Step, Scan, LoadManifest, Compare, DiffDone,
                   ShortCut, Rebuild, Parse, BuildStore, Stamp, TruncateStore,
                   FillStore, TruncateSidecar, FillSidecar, SaveFails, Crash, Answer, Goto
        <3> QED BY <1>4, <3>1, <3>2 DEF Saving, SavePoints, Rests
    <2>4. CopyInv'
        BY <1>1, <1>3, <2>2, <2>3 DEF AnswerInv, CopyInv, disk
    <2> QED BY <1>6, <1>7, <1>8, <1>9, <2>1, <2>4 DEF AnswerInv
<1>11. CASE FillSidecar(p)
    <2>1. /\ pc[p] = "sidecar" /\ pc'[p] = "idle" /\ verdict'[p] = "rebuilt"
          /\ body' = body /\ since' = since /\ fails' = fails
        BY <1>t, <1>11 DEF FillSidecar, Answer, Goto
    <2>h. held' = Stored(parsed[p], since[p])
        <3>1. ~SaveFails(p) /\ ~Crash(p)
            BY <1>f, <2>1, Zenon DEF SaveFails, Crash
        <3> QED BY <2>1, <3>1 DEF Work
    <2>2. body = parsed[p]
        BY <2>1 DEF DescribeInv, Saved
    <2>3. held' # NoStore /\ held'.graph = body
        BY <2>h, <2>2, Times, StoredIsSome DEF TypeInv, TypeOK
    <2>4. Undisturbed(p)' => OnDiskIsFresh'
        BY <1>1, <2>1, <2>2, SavedIsFresh DEF Undisturbed, OnDiskIsFresh, Indexed, sources
    <2>5. Vouched(p)'
        BY <1>1, <2>1, <2>3, <2>4 DEF Vouched, Untroubled
    <2>6. Holds(p)'
        BY <1>1, <2>1 DEF AnswerInv, Asked, Holds, Done, SavePoints
    <2>7. CopyInv'
        BY <2>1, <2>3, <2>6 DEF CopyInv
    <2> QED BY <1>6, <1>7, <1>8, <1>9, <2>5, <2>7 DEF AnswerInv
<1>12. CASE DiffDone(p) \/ ShortCut(p)
    <2>1. /\ pc[p] = "compare" /\ pc'[p] = "idle" /\ UNCHANGED <<disk, since, fails>>
          /\ \/ verdict'[p] = "changed"
             \/ verdict'[p] = "in sync" /\ Compared(p) /\ ~dirty[p]
             \/ verdict'[p] = "up to date" /\ Compared(p) /\ ~dirty[p] /\ header = "current"
        BY <1>t, <1>12 DEF DiffDone, ShortCut, UpToDate, Compared, Answer, Goto
    <2>2. held' = NoStore
        BY <1>5, <2>1 DEF FillSidecar
    <2>3. Untroubled(p)' => Untroubled(p)
        BY <1>1, <2>1 DEF Untroubled, Undisturbed, StampedInTime, Recorded, disk, sources
    <2>4. Untroubled(p) /\ Compared(p) /\ ~dirty[p] => OnDiskIsFresh
        BY UnchangedIsFresh DEF Untroubled
    <2>5. Vouched(p)'
        BY <1>1, <2>1, <2>3, <2>4 DEF Vouched, OnDiskIsFresh, Indexed, disk, sources
    <2>6. ~Saving
        BY <2>1 DEF OneAtWork, Saving
    <2>7. CopyInv'
        BY <1>1, <1>3, <2>1, <2>2, <2>6 DEF AnswerInv, CopyInv, disk
    <2> QED BY <1>6, <1>7, <1>8, <1>9, <2>5, <2>7 DEF AnswerInv
<1>13. CASE SaveFails(p) \/ Crash(p)
    <2>1. fails' = fails + 1 /\ verdict'[p] \in {"error", "none"}
        BY <1>t, <1>13 DEF SaveFails, Crash, Answer
    <2>2. fails' # 0 /\ ~FillSidecar(p)
        BY <1>f, <2>1, Zenon DEF FillSidecar
    <2>3. held' = NoStore
        BY <1>5, <2>2
    <2>4. Vouched(p)'
        BY <1>1, <2>1 DEF Vouched
    <2>5. CopyInv'
        BY <2>2, <2>3 DEF CopyInv
    <2> QED BY <1>6, <1>7, <1>8, <1>9, <2>4, <2>5 DEF AnswerInv
<1>14. pc'[p] # "idle" \/ FillSidecar(p) \/ DiffDone(p) \/ ShortCut(p) \/ SaveFails(p)
       \/ Crash(p)
    BY <1>t, <1>1, <1>2 DEF StepOf, Step, Scan, LoadManifest, Compare, Compared, Rebuild, Parse,
           BuildStore, Stamp, TruncateStore, FillStore, TruncateSidecar, Goto
<1> QED BY <1>10, <1>11, <1>12, <1>13, <1>14

\* Reading the store back.
LEMMA AnswerReadBack ==
    ASSUME Mcp = Run, TypeInv, DescribeInv, AnswerInv, MutexInv, NEW p \in Mcp, ReadBack(p)
    PROVE  AnswerInv'
<1>1. /\ UNCHANGED <<vars, toml, slot, tool, snap, reply>>
      /\ phase[p] = "running" /\ pc[p] = "idle" /\ tool[p] = "analyze"
      /\ verdict[p] \in {"up to date", "rebuilt"}
      /\ phase'[p] = "swap" /\ \A q \in Mcp : q # p => phase'[q] = phase[q]
    BY DEF ReadBack, At, MutexInv
<1>2. \A q \in Mcp \ {p} : phase[q] \notin {"running", "swap", "init"} /\ pc[q] = "idle"
    BY <1>1, AloneInside
<1>3. ~Saving
    BY <1>1, <1>2 DEF Saving
<1>4. \/ held' = held /\ (held # NoStore \/ ~Loadable)
      \/ held = NoStore /\ Loadable /\ held' = Stored(body, bodySince)
    BY DEF ReadBack
<1>5. Loadable => Stored(body, bodySince) # NoStore /\ Stored(body, bodySince).graph = body
    BY Times, StoredIsSome DEF Loadable, TypeInv, TypeOK
<1>6. Holds(p)'
    BY <1>1 DEF Holds
<1>7. fails = 0 => held' # NoStore
    <2>1. fails = 0 => body # Torn
        BY <1>3 DEF DescribeInv, DiskInv
    <2>2. held = NoStore => header = "current"
        BY <1>1 DEF AnswerInv, Vouched, Done
    <2> QED BY <1>4, <1>5, <2>1, <2>2 DEF Loadable
<1> USE DEF vars, sources, disk, progress
<1>8. Vouched(p)'
    BY <1>1, <1>7 DEF AnswerInv, Vouched, Done, Untroubled, StampedInTime, Undisturbed,
           OnDiskIsFresh, Indexed, Recorded
<1>9. \A q \in Mcp \ {p} : Vouched(q)'
    BY <1>1, <1>2 DEF Vouched, Done
<1>10. \A q \in Mcp : Asked(q)'
    BY <1>1 DEF AnswerInv, Asked
<1>11. SlotInv'
    BY <1>1 DEF AnswerInv, SlotInv
<1>12. CopyInv'
    <2>1. fails = 0 /\ held' # NoStore => held'.graph = body
        BY <1>4, <1>5 DEF AnswerInv, CopyInv
    <2>2. fails = 0 /\ ~snap.reason /\ held' = NoStore => snap.store.graph = body
        BY <1>7
    <2> QED BY <1>1, <1>6, <2>1, <2>2 DEF CopyInv
<1>13. ServerType'
    BY <1>1 DEF AnswerInv, ServerType
<1> QED BY <1>8, <1>9, <1>10, <1>11, <1>12, <1>13 DEF AnswerInv

\* A reply changes what its own call last answered, and nothing of another call.
LEMMA ReplyType ==
    ASSUME ServerType, MutexInv, NEW p \in Mcp, NEW r \in Words, Reply(p, r)
    PROVE  /\ ServerType' /\ phase'[p] = "idle" /\ reply'[p] = r
           /\ \A q \in Mcp : q # p =>
                 phase'[q] = phase[q] /\ tool'[q] = tool[q] /\ reply'[q] = reply[q]
BY DEF ServerType, Reply, At, MutexInv, Tools

\* Putting the store into the snapshot.
LEMMA AnswerSwap ==
    ASSUME Mcp = Run, TypeInv, SnapshotInv, AnswerInv, MutexInv, NEW p \in Mcp, Swap(p)
    PROVE  AnswerInv' /\ (Untroubled(p) => SnapshotIsFresh')
<1>1. /\ UNCHANGED <<vars, toml, slot>> /\ phase[p] = "swap"
      /\ held' = NoStore
      /\ snap'.store = IF held = NoStore THEN snap.store ELSE held
    BY DEF Swap
<1>2. /\ ServerType' /\ phase'[p] = "idle"
      /\ \A q \in Mcp : q # p => phase'[q] = phase[q] /\ tool'[q] = tool[q]
    BY ZenonT(30), ReplyType DEF Swap, AnswerInv, Words
<1>3. \A q \in Mcp \ {p} : phase[q] \notin {"running", "swap", "init"} /\ pc[q] = "idle"
    BY <1>1, AloneInside
<1>4. fails = 0 => snap'.store.graph = body
    BY <1>1 DEF AnswerInv, Vouched, CopyInv
<1>5. Untroubled(p) => body = Indexed(src)
    BY <1>1 DEF AnswerInv, Vouched, OnDiskIsFresh
<1> USE DEF vars, sources, disk, progress
<1>6. Untroubled(p) => SnapshotIsFresh'
    BY <1>1, <1>4, <1>5 DEF Untroubled, SnapshotIsFresh, Indexed
<1>7. SlotInv'
    BY <1>1, <1>2, <1>3 DEF AnswerInv, SlotInv
<1>8. CopyInv'
    BY <1>1, <1>4 DEF CopyInv
<1>9. \A q \in Mcp : Asked(q)' /\ Vouched(q)'
    BY ZenonT(30), <1>1, <1>2, <1>3 DEF AnswerInv, Asked, Vouched, Done
<1> QED BY <1>2, <1>6, <1>7, <1>8, <1>9 DEF AnswerInv

\* Starting the server again, and a project of its own.
LEMMA AnswerOpen ==
    ASSUME Mcp = Run, AnswerInv, MutexInv, SnapshotInv,
           Restart \/ \E p \in Mcp : InitDone(p)
    PROVE  AnswerInv'
<1> USE DEF vars, sources, disk, progress
<1>1. CASE Restart
    <2>1. /\ \A p \in Mcp : phase[p] = "idle" /\ pc[p] = "idle"
          /\ UNCHANGED <<vars, toml, phase, tool>> /\ held' = NoStore /\ slot' = toml
          /\ ~slot' => snap'.store = EmptyStore
          /\ reply' = [p \in Mcp |-> "none"]
        BY <1>1 DEF Restart, Boot, MutexInv, Locked
    <2>c. ~snap'.reason => snap'.store.graph = body
        BY <1>1 DEF Restart, Boot, Stored
    <2>2. SlotInv'
        BY <2>1 DEF AnswerInv, SlotInv
    <2>3. CopyInv'
        BY <2>1, <2>c DEF CopyInv
    <2>4. \A q \in Mcp : Asked(q)' /\ Vouched(q)'
        BY <2>1 DEF AnswerInv, Asked, Vouched, Done
    <2>5. ServerType'
        BY <2>1 DEF AnswerInv, ServerType, Words
    <2> QED BY <2>2, <2>3, <2>4, <2>5 DEF AnswerInv
<1>2. ASSUME NEW p \in Mcp, InitDone(p) PROVE AnswerInv'
    <2>1. /\ UNCHANGED <<vars, toml, held>> /\ phase[p] = "init" /\ slot'
          /\ snap'.store = snap.store
        BY <1>2 DEF InitDone, SnapshotInv, SnapshotShape
    <2>2. /\ ServerType' /\ phase'[p] = "idle"
          /\ \A q \in Mcp : q # p => phase'[q] = phase[q] /\ tool'[q] = tool[q]
        <3>1. Reply(p, "initialized")
            BY <1>2 DEF InitDone
        <3> QED BY ZenonT(30), <3>1, ReplyType DEF AnswerInv, Words
    <2>3. /\ toml /\ ~slot /\ body = Nothing /\ snap.store = EmptyStore
          /\ \A q \in Mcp : phase[q] \notin {"running", "swap"} /\ (q # p => phase[q] # "init")
        BY <2>1, AloneInside DEF AnswerInv, SlotInv
    <2>4. SlotInv'
        BY <2>1, <2>2, <2>3 DEF SlotInv
    <2>5. CopyInv'
        <3>1. held = NoStore
            BY <2>3 DEF AnswerInv, CopyInv, Holds, Done
        <3> QED BY <2>1, <2>3, <3>1 DEF CopyInv, EmptyStore, Stored
    <2>6. \A q \in Mcp : Asked(q)' /\ Vouched(q)'
        BY ZenonT(30), <2>1, <2>2, <2>3 DEF AnswerInv, Asked, Vouched, Done
    <2> QED BY <2>2, <2>4, <2>5, <2>6 DEF AnswerInv
<1> QED BY <1>1, <1>2

LEMMA AnswerEdit ==
    ASSUME Mcp = Run, TypeInv, CaptureInv, AnswerInv, EditSources
    PROVE  AnswerInv'
<1>1. PICK g \in File, c \in FileState : Edit(g, c)
    BY DEF EditSources
<1>2. UNCHANGED <<disk, pc, job, verdict, fails, since, server>>
    BY <1>1 DEF EditSources, Edit
<1>3. \A p \in Mcp : ~Undisturbed(p)'
    BY <1>1, <1>2, EditIsNew DEF Undisturbed
<1> USE DEF server, disk
<1>4. \A p \in Mcp : Vouched(p)'
    BY <1>2, <1>3 DEF AnswerInv, Vouched, Done, Untroubled
<1>5. SlotInv' /\ ServerType' /\ \A p \in Mcp : Asked(p)'
    BY <1>2 DEF AnswerInv, SlotInv, ServerType, Asked
<1>6. CopyInv'
    BY <1>2 DEF AnswerInv, CopyInv, Holds, Done, Saving
<1> QED BY <1>4, <1>5, <1>6 DEF AnswerInv

\* The rest of the handlers: what they do to the project is none of its business.
LEMMA AnswerAside ==
    ASSUME Mcp = Run, AnswerInv, MutexInv, NEW p \in Mcp,
           \/ \E t \in {"init", "analyze", "diff", "stats"} : Call(p, t)
           \/ Uninitialized(p) \/ DiffReplies(p) \/ AnalyzeFailed(p)
           \/ AlreadyInitialized(p) \/ InitRefused(p) \/ WriteToml(p) \/ InitFails(p)
           \/ Peek(p) \/ EmptyReply(p) \/ StatsReply(p) \/ Refuse(p),
           verdict \in [Run -> {"none", "in sync", "changed", "up to date", "rebuilt", "error"}]
    PROVE  AnswerInv'
<1>t. phase \in [Mcp -> Phases] /\ ServerType
    BY DEF MutexInv, AnswerInv
<1>1. ASSUME NEW r \in Words, Reply(p, r), UNCHANGED <<vars, toml, slot, held, snap>>, ~Holds(p)
      PROVE  AnswerInv'
    <2>1. /\ ServerType' /\ phase'[p] = "idle"
          /\ \A q \in Mcp : q # p => phase'[q] = phase[q] /\ tool'[q] = tool[q]
        BY <1>1, <1>t, ReplyType
    <2> QED BY <1>1, <2>1, AnswerLocal
<1>2. ASSUME NEW t \in {"init", "analyze", "diff", "stats"}, Call(p, t) PROVE AnswerInv'
    <2>1. /\ phase[p] = "idle" /\ UNCHANGED <<vars, toml, slot, held, snap>>
          /\ phase' = [phase EXCEPT ![p] = "called"] /\ tool' = [tool EXCEPT ![p] = t]
          /\ reply' = [reply EXCEPT ![p] = "none"]
        BY <1>2 DEF Call, At
    <2>2. ServerType'
        BY <1>t, <2>1 DEF ServerType, Tools, Words
    <2>3. /\ phase'[p] = "called" /\ ~Holds(p)
          /\ \A q \in Mcp : q # p => phase'[q] = phase[q] /\ tool'[q] = tool[q]
        BY <1>t, <2>1 DEF Holds, Done, ServerType
    <2> QED BY <2>1, <2>2, <2>3, AnswerLocal
<1>3. CASE Uninitialized(p) \/ AlreadyInitialized(p) \/ InitRefused(p) \/ Refuse(p)
    <2>1. phase[p] = "called" /\ UNCHANGED <<vars, toml, slot, held, snap>>
          /\ \E r \in Words : Reply(p, r)
        BY <1>3 DEF Uninitialized, AlreadyInitialized, InitRefused, Refuse, Words
    <2> QED BY <1>1, <2>1 DEF Holds, Done
<1>4. CASE EmptyReply(p) \/ StatsReply(p) \/ InitFails(p)
    <2>1. phase[p] \in {"empty", "filled", "init"} /\ UNCHANGED <<vars, toml, slot, held, snap>>
          /\ \E r \in Words : Reply(p, r)
        BY <1>4 DEF EmptyReply, StatsReply, InitFails, Words
    <2> QED BY <1>1, <2>1 DEF Holds, Done
<1>5. CASE DiffReplies(p)
    <2>1. phase[p] = "running" /\ tool[p] = "diff" /\ UNCHANGED <<vars, toml, slot, held, snap>>
          /\ Reply(p, IF verdict[p] = "none" THEN "error" ELSE verdict[p])
        BY <1>5 DEF DiffReplies
    <2>2. (IF verdict[p] = "none" THEN "error" ELSE verdict[p]) \in Words
        BY DEF Words
    <2> QED BY <1>1, <2>1, <2>2 DEF Holds, Done
<1>6. CASE AnalyzeFailed(p)
    <2>1. phase[p] = "running" /\ verdict[p] \in {"none", "error"} /\ Reply(p, "error")
          /\ UNCHANGED <<vars, toml, slot, held, snap>>
        BY <1>6 DEF AnalyzeFailed
    <2> QED BY <1>1, <2>1 DEF Holds, Done, Words
<1>7. CASE WriteToml(p) \/ Peek(p)
    <2>1. /\ phase[p] = "called" /\ UNCHANGED <<vars, slot, held, snap, tool, reply>>
          /\ \/ ~slot /\ toml' = TRUE /\ phase' = [phase EXCEPT ![p] = "init"]
             \/ toml' = toml /\ phase' = [phase EXCEPT ![p] = "empty"]
             \/ toml' = toml /\ phase' = [phase EXCEPT ![p] = "filled"]
        BY <1>7 DEF WriteToml, Peek, At
    <2>2. /\ ServerType'
          /\ \A q \in Mcp : q # p => phase'[q] = phase[q] /\ tool'[q] = tool[q]
        BY <1>t, <2>1 DEF ServerType
    <2>3. /\ phase'[p] \in {"init", "empty", "filled"} /\ ~Holds(p)
          /\ (phase'[p] = "init" => ~slot /\ WriteToml(p))
        BY <1>7, <1>t, <2>1 DEF Holds, Done, WriteToml, Peek, At
    <2>4. (toml => toml') /\ (WriteToml(p) => toml')
        <3>1. toml' = TRUE \/ toml' = toml
            BY <2>1
        <3>2. toml => toml'
            BY <3>1, Zenon
        <3>3. WriteToml(p) => toml'
            BY Zenon DEF WriteToml
        <3> QED BY <3>2, <3>3
    <2> QED BY <2>1, <2>2, <2>3, <2>4, AnswerLocal
<1> QED BY <1>2, <1>3, <1>4, <1>5, <1>6, <1>7

LEMMA AnswerStep ==
    ASSUME Mcp = Run, TypeInv, CaptureInv, DescribeInv, CompareInv, SnapshotInv, MutexInv,
           AnswerInv, [MCPNext]_mcpVars
    PROVE  AnswerInv'
<1>1. OneAtWork
    BY DEF OneAtWork, MutexInv, Locked
<1>2. verdict \in [Run -> {"none", "in sync", "changed", "up to date", "rebuilt", "error"}]
    BY DEF TypeInv, TypeOK
<1>3. CASE UNCHANGED mcpVars
    <2> USE <1>3 DEF mcpVars, vars, server, sources, disk, progress
    <2>1. SlotInv' /\ ServerType' /\ \A p \in Mcp : Asked(p)'
        BY DEF AnswerInv, SlotInv, ServerType, Asked
    <2>2. CopyInv'
        BY DEF AnswerInv, CopyInv, Holds, Done, Saving
    <2>3. \A p \in Mcp : Vouched(p)'
        BY DEF AnswerInv, Vouched, Done, Untroubled, StampedInTime, Undisturbed, OnDiskIsFresh,
               Indexed, Recorded
    <2> QED BY <2>1, <2>2, <2>3 DEF AnswerInv
<1>4. ASSUME NEW p \in Mcp, Handle(p) PROVE AnswerInv'
    <2>1. CASE Lock(p)
        BY <2>1, AnswerLock
    <2>2. CASE Work(p)
        BY <1>1, <2>2, AnswerWork
    <2>3. CASE ReadBack(p)
        BY <2>3, AnswerReadBack
    <2>4. CASE Swap(p)
        BY <2>4, AnswerSwap
    <2>5. CASE InitDone(p)
        BY <2>5, AnswerOpen
    <2>6. CASE \/ Uninitialized(p) \/ DiffReplies(p) \/ AnalyzeFailed(p)
               \/ AlreadyInitialized(p) \/ InitRefused(p) \/ WriteToml(p)
               \/ Peek(p) \/ EmptyReply(p) \/ StatsReply(p)
        BY <1>2, <2>6, AnswerAside
    <2> QED BY <1>4, <2>1, <2>2, <2>3, <2>4, <2>5, <2>6 DEF Handle
<1>5. ASSUME NEW p \in Mcp,
             \/ \E t \in {"init", "analyze", "diff", "stats"} : Call(p, t)
             \/ Refuse(p) \/ InitFails(p)
      PROVE  AnswerInv'
    BY <1>2, <1>5, AnswerAside
<1>6. CASE Restart
    BY <1>6, AnswerOpen
<1>7. CASE EditSources
    BY <1>7, AnswerEdit
<1> QED BY <1>3, <1>4, <1>5, <1>6, <1>7 DEF MCPNext, Cli, CliInit

\* Who replies "ready" or "in sync".
LEMMA WhoReplies ==
    ASSUME AnswerInv, MutexInv, [MCPNext]_mcpVars, NEW p \in Mcp, NEW r \in {"ready", "in sync"},
           Replies(p, r), verdict[p] # "ready"
    PROVE  \/ r = "ready" /\ Swap(p)
           \/ r = "in sync" /\ DiffReplies(p) /\ verdict[p] = "in sync"
<1>1. reply'[p] = r /\ reply'[p] # reply[p] /\ reply \in [Mcp -> Words]
    BY DEF Replies, AnswerInv, ServerType
<1>2. ASSUME NEW q \in Mcp, NEW w, Reply(q, w) PROVE q = p /\ w = r
    BY <1>1, <1>2 DEF Reply
<1>3. ASSUME NEW q \in Mcp, Handle(q)
      PROVE  \/ reply' = reply \/ Swap(q) \/ DiffReplies(q)
             \/ \E w \in Words \ {"ready", "in sync"} : Reply(q, w)
    <2>1. CASE Uninitialized(q) \/ AnalyzeFailed(q) \/ AlreadyInitialized(q) \/ InitRefused(q)
               \/ InitDone(q) \/ StatsReply(q)
        BY <2>1 DEF Uninitialized, AnalyzeFailed, AlreadyInitialized, InitRefused, InitDone,
                    StatsReply, Words
    <2>2. CASE EmptyReply(q)
        <3>1. (IF snap.uninit THEN "uninitialized"
               ELSE IF snap.reason THEN "not built" ELSE "no sources")
                  \in Words \ {"ready", "in sync"}
            BY DEF Words
        <3> QED BY <2>2, <3>1 DEF EmptyReply
    <2>3. CASE Lock(q) \/ Work(q) \/ ReadBack(q) \/ WriteToml(q) \/ Peek(q)
        BY <2>3 DEF Lock, Work, ReadBack, WriteToml, Peek
    <2> QED BY <1>3, <2>1, <2>2, <2>3 DEF Handle
<1>4. ASSUME NEW q \in Mcp, Swap(q) \/ DiffReplies(q)
      PROVE  \/ r = "ready" /\ Swap(p)
             \/ r = "in sync" /\ DiffReplies(p) /\ verdict[p] = "in sync"
    <2>1. CASE Swap(q)
        <3>1. Reply(q, "ready")
            BY <2>1 DEF Swap
        <3> QED BY <1>2, <2>1, <3>1
    <2>2. CASE DiffReplies(q)
        <3>1. q = p /\ (IF verdict[q] = "none" THEN "error" ELSE verdict[q]) = r
            BY <1>2, <2>2 DEF DiffReplies
        <3> QED BY <2>2, <3>1
    <2> QED BY <1>4, <2>1, <2>2
<1>5. ASSUME NEW q \in Mcp, NEW t, Call(q, t) PROVE FALSE
    BY <1>1, <1>5 DEF Call
<1>6. ASSUME NEW q \in Mcp, Refuse(q) \/ InitFails(q) PROVE FALSE
    <2>1. Reply(q, "error")
        BY <1>6 DEF Refuse, InitFails
    <2>2. "error" = r
        BY <1>2, <2>1
    <2> QED BY <2>2
<1>7. reply' # reply /\ ~Restart
    BY <1>1 DEF Restart
<1>8. ~CliInit /\ ~EditSources /\ ~UNCHANGED mcpVars /\ \A q \in Cli : ~CliRun(q)
    BY <1>7 DEF CliInit, EditSources, CliRun, server, mcpVars
<1> QED BY <1>2, <1>3, <1>4, <1>5, <1>6, <1>7, <1>8 DEF MCPNext

\* As long as nothing failed, no file was edited while it was analyzed and no command runs
\* beside the server, "ready" means that the queries read a graph of the sources, and
\* "in sync" that they did all along (AnswersAreFresh): a store which is in memory only is
\* on its way to the snapshot, and who replies has nobody between the disk and it.
THEOREM RepliesAreFresh == ASSUME Mcp = Run PROVE MCPSpec => AnswersAreFresh
<1> DEFINE Inv == /\ TypeInv /\ CaptureInv /\ DescribeInv /\ CompareInv
                  /\ SnapshotInv /\ MutexInv /\ AnswerInv
<1>1. MCPInit => Inv
    BY ServerStarts, TypeInit, CaptureInit, DescribeInit, CompareInit, SnapshotInit, MutexInit,
       AnswerInit
<1>2. Inv /\ [MCPNext]_mcpVars => Inv'
    <2>1. MutexInv => OneAtWork
        BY DEF OneAtWork, MutexInv, Locked
    <2> QED BY <2>1, ServerIsProject, TypeStep, CaptureStep, DescribeStep, CompareStep,
               SnapshotStep, MutexStep, AnswerStep
<1>3. ASSUME Inv, [MCPNext]_mcpVars, NEW p \in Mcp, fails = 0, StampedInTime, Undisturbed(p)
      PROVE  /\ Replies(p, "ready") => SnapshotIsFresh'
             /\ Replies(p, "in sync") /\ ~snap.reason => SnapshotIsFresh
    <2>1. verdict[p] # "ready"
        BY <1>3 DEF TypeInv, TypeOK
    <2>2. ASSUME Replies(p, "ready") PROVE SnapshotIsFresh'
        <3>1. Swap(p)
            BY <1>3, <2>1, <2>2, WhoReplies
        <3> QED BY <1>3, <3>1, AnswerSwap DEF Untroubled
    <2>3. ASSUME Replies(p, "in sync"), ~snap.reason PROVE SnapshotIsFresh
        <3>1. /\ phase[p] = "running" /\ pc[p] = "idle" /\ tool[p] = "diff"
              /\ verdict[p] = "in sync"
            BY <1>3, <2>1, <2>3, WhoReplies DEF DiffReplies
        <3>2. \A q \in Mcp \ {p} : phase[q] \notin {"running", "swap", "init"} /\ pc[q] = "idle"
            BY <1>3, <3>1, AloneInside
        <3>3. body = Indexed(src)
            BY <1>3, <3>1 DEF AnswerInv, Vouched, Done, Untroubled, OnDiskIsFresh
        <3>4. held = NoStore /\ ~Saving
            BY <1>3, <3>1, <3>2 DEF AnswerInv, CopyInv, Holds, Done, Saving
        <3> QED BY <1>3, <2>3, <3>3, <3>4 DEF AnswerInv, CopyInv, SnapshotIsFresh
    <2> QED BY <2>2, <2>3
<1>4. Inv /\ [MCPNext]_mcpVars =>
          [\A p \in Mcp : fails = 0 /\ StampedInTime /\ Undisturbed(p) =>
              /\ Replies(p, "ready") => SnapshotIsFresh'
              /\ Replies(p, "in sync") /\ ~snap.reason => SnapshotIsFresh]_mcpVars
    BY <1>3
<1> QED BY <1>1, <1>2, <1>4, PTL DEF MCPSpec, AnswersAreFresh

\* And a call which rebuilt the graph left the sources on disk unless they changed while it
\* was under way (RebuiltIsFresh), whatever failed before and however many calls there are.
THEOREM ServerRebuildsAreFresh == ASSUME Mcp = Run PROVE MCPSpec => RebuiltIsFresh
<1> DEFINE Inv == TypeInv /\ CaptureInv /\ DescribeInv /\ MutexInv
<1>1. MCPInit => Inv
    BY ServerStarts, TypeInit, CaptureInit, DescribeInit, MutexInit
<1>2. MutexInv => OneAtWork
    BY DEF OneAtWork, MutexInv, Locked
<1>3. Inv /\ [MCPNext]_mcpVars => Inv'
    BY <1>2, ServerIsProject, TypeStep, CaptureStep, DescribeStep, MutexStep
<1>4. Inv /\ [MCPNext]_mcpVars =>
          [\A p \in Run : Answers(p, "rebuilt") /\ Undisturbed(p) => OnDiskIsFresh]_vars
    BY ServerIsProject, RebuiltStep
<1> QED BY <1>1, <1>3, <1>4, PTL DEF MCPSpec, RebuiltIsFresh

=============================================================================
