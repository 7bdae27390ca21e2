----------------------------- MODULE McpServer -----------------------------
(***************************************************************************)
(* The MCP server (src/mcp/server.rs, src/mcp/tools.rs) over the project   *)
(* lifecycle of module Project.  Tool calls run on threads of their own.   *)
(* codeweb_init, codeweb_analyze and codeweb_diff take the project mutex   *)
(* for as long as they last; queries only read the graph snapshot, which   *)
(* an analysis swaps at its end.  The runs which are not tool calls are    *)
(* `codeweb` commands somebody starts in the same directory: they share    *)
(* the files, and neither lock.                                            *)
(***************************************************************************)
EXTENDS Project

CONSTANTS
    Mcp,       \* the runs which are tool calls of the server
    NoRun,     \* nobody holds the mutex
    NoStore    \* Project.store is None

ASSUME McpAssumption ==
    /\ Mcp \subseteq Run
    /\ NoRun \notin Run
    /\ NoStore \notin [graph : [File -> FileState], since : Nat]

VARIABLES
    toml,      \* codeweb.toml exists
    slot,      \* Inner.project is Some
    holder,    \* the call which holds Inner.project
    phase,     \* call |-> how far its handler is
    tool,      \* call |-> which tool it runs
    held,      \* Project.store: what analyze or load_store left there
    snap,      \* Inner.graph: the GraphSnapshot the queries read
    reply      \* call |-> what it last answered

server == <<toml, slot, holder, phase, tool, held, snap, reply>>

mcpVars == <<vars, server>>

Cli == Run \ Mcp

\* A store: its graph and, as history, when the analysis it comes from began.
Stored(g, t) == [graph |-> g, since |-> t]

EmptyStore == Stored(Nothing, 0)

\* load_bincode succeeds on a current header with a payload that decodes.
Loadable == header = "current" /\ body # Torn

\* server::run: find the project and try to load its store, keep any failure as
\* the reason why the graph is empty.
Boot ==
    /\ slot' = toml
    /\ snap' = [store  |-> IF toml /\ Loadable THEN Stored(body, bodySince)
                           ELSE EmptyStore,
                uninit |-> ~toml,
                reason |-> ~(toml /\ Loadable)]

MCPInit ==
    /\ Init
    /\ toml \in BOOLEAN
    /\ ~toml => header = "absent"
    /\ slot = toml
    /\ snap = [store |-> EmptyStore, uninit |-> ~toml, reason |-> TRUE]
    /\ holder = NoRun
    /\ phase = [p \in Mcp |-> "idle"]
    /\ tool = [p \in Mcp |-> "none"]
    /\ held = NoStore
    /\ reply = [p \in Mcp |-> "none"]

-----------------------------------------------------------------------------

At(p, l) == phase' = [phase EXCEPT ![p] = l]

Reply(p, r) ==
    /\ At(p, "idle")
    /\ reply' = [reply EXCEPT ![p] = r]
    /\ tool' = [tool EXCEPT ![p] = "none"]

Call(p, t) ==
    /\ phase[p] = "idle"
    /\ At(p, "called")
    /\ tool' = [tool EXCEPT ![p] = t]
    /\ reply' = [reply EXCEPT ![p] = "none"]
    /\ UNCHANGED <<vars, toml, slot, holder, held, snap>>

\* A lifecycle tool without a project answers at once.
Uninitialized(p) ==
    /\ phase[p] = "called" /\ tool[p] \in {"analyze", "diff"}
    /\ holder = NoRun /\ ~slot
    /\ Reply(p, "uninitialized")
    /\ UNCHANGED <<vars, toml, slot, holder, held, snap>>

\* Mutant: a lifecycle tool does not wait for the mutex.
LockAnyway(p) ==
    /\ phase[p] = "called" /\ tool[p] \in {"analyze", "diff"}
    /\ slot
    /\ holder' = p
    /\ Scan(p, tool[p])
    /\ At(p, "running")
    /\ UNCHANGED <<toml, slot, tool, held, snap, reply>>

\* run_analyze and run_diff lock the project and run it.
Lock(p) ==
    /\ phase[p] = "called" /\ tool[p] \in {"analyze", "diff"}
    /\ holder = NoRun /\ slot
    /\ holder' = p
    /\ Scan(p, tool[p])
    /\ At(p, "running")
    /\ UNCHANGED <<toml, slot, tool, held, snap, reply>>

\* confine_to_root refuses a store path which leads out of the served tree.
Refuse(p) ==
    /\ phase[p] = "called" /\ tool[p] = "analyze"
    /\ holder = NoRun /\ slot
    /\ MaxFail > 0
    /\ Reply(p, "error")
    /\ UNCHANGED <<vars, toml, slot, holder, held, snap>>

\* The project works; what a rebuild ends with stays in Project.store.
Work(p) ==
    /\ phase[p] = "running"
    /\ \/ Step(p) /\ pc[p] # "sidecar" /\ held' = held
       \/ FillSidecar(p) /\ held' = Stored(parsed[p], since[p])
       \/ SaveFails(p) /\ held' = held
       \/ Crash(p) /\ held' = held      \* a panic: into_inner un-poisons the lock
    /\ UNCHANGED <<toml, slot, holder, phase, tool, snap, reply>>

DiffReplies(p) ==
    /\ phase[p] = "running" /\ pc[p] = "idle" /\ tool[p] = "diff"
    /\ holder' = NoRun
    /\ Reply(p, IF verdict[p] = "none" THEN "error" ELSE verdict[p])
    /\ UNCHANGED <<vars, toml, slot, held, snap>>

\* Mutant: the early return on an error leaves the project locked.
AnalyzeFailedLocked(p) ==
    /\ phase[p] = "running" /\ pc[p] = "idle" /\ tool[p] = "analyze"
    /\ verdict[p] \in {"none", "error"}
    /\ Reply(p, "error")
    /\ UNCHANGED <<vars, toml, slot, holder, held, snap>>

AnalyzeFailed(p) ==
    /\ phase[p] = "running" /\ pc[p] = "idle" /\ tool[p] = "analyze"
    /\ verdict[p] \in {"none", "error"}
    /\ holder' = NoRun
    /\ Reply(p, "error")
    /\ UNCHANGED <<vars, toml, slot, held, snap>>

\* An up-to-date project has no store loaded: load_store, its error dropped.
ReadBack(p) ==
    /\ phase[p] = "running" /\ pc[p] = "idle" /\ tool[p] = "analyze"
    /\ verdict[p] \in {"up to date", "rebuilt"}
    /\ At(p, "swap")
    /\ held' = IF held = NoStore /\ Loadable THEN Stored(body, bodySince)
               ELSE held
    /\ UNCHANGED <<vars, toml, slot, holder, tool, snap, reply>>

\* Under the write lock: take_store into the snapshot, clear both flags.
Swap(p) ==
    /\ phase[p] = "swap"
    /\ snap' = [store  |-> IF held = NoStore THEN snap.store ELSE held,
                uninit |-> FALSE,
                reason |-> FALSE]
    /\ held' = NoStore
    /\ holder' = NoRun
    /\ Reply(p, "ready")
    /\ UNCHANGED <<vars, toml, slot>>

-----------------------------------------------------------------------------
(* codeweb_init *)

AlreadyInitialized(p) ==
    /\ phase[p] = "called" /\ tool[p] = "init"
    /\ holder = NoRun /\ slot
    /\ Reply(p, "already initialized")
    /\ UNCHANGED <<vars, toml, slot, holder, held, snap>>

\* init_at refuses a directory which has a codeweb.toml.
InitRefused(p) ==
    /\ phase[p] = "called" /\ tool[p] = "init"
    /\ holder = NoRun /\ ~slot /\ toml
    /\ Reply(p, "error")
    /\ UNCHANGED <<vars, toml, slot, holder, held, snap>>

WriteToml(p) ==
    /\ phase[p] = "called" /\ tool[p] = "init"
    /\ holder = NoRun /\ ~slot /\ ~toml
    /\ toml' = TRUE
    /\ holder' = p
    /\ At(p, "init")
    /\ UNCHANGED <<vars, slot, tool, held, snap, reply>>

\* Creating .codeweb/ or reading the file back fails: the toml stays behind.
InitFails(p) ==
    /\ phase[p] = "init"
    /\ MaxFail > 0
    /\ holder' = NoRun
    /\ Reply(p, "error")
    /\ UNCHANGED <<vars, toml, slot, held, snap>>

InitDone(p) ==
    /\ phase[p] = "init"
    /\ slot' = TRUE
    /\ snap' = [snap EXCEPT !.uninit = FALSE, !.reason = FALSE]
    /\ holder' = NoRun
    /\ Reply(p, "initialized")
    /\ UNCHANGED <<vars, toml, held>>

-----------------------------------------------------------------------------
(* codeweb_stats stands for the queries: graph_empty takes the read lock and *)
(* drops it, the answer is made from what a second look at the snapshot     *)
(* shows.                                                                  *)

Peek(p) ==
    /\ phase[p] = "called" /\ tool[p] = "stats"
    /\ At(p, IF Present(snap.store.graph) = {} THEN "empty" ELSE "filled")
    /\ UNCHANGED <<vars, toml, slot, holder, tool, held, snap, reply>>

\* empty_graph_response
EmptyReply(p) ==
    /\ phase[p] = "empty"
    /\ Reply(p, IF snap.uninit THEN "uninitialized"
                ELSE IF snap.reason THEN "not built" ELSE "no sources")
    /\ UNCHANGED <<vars, toml, slot, holder, held, snap>>

StatsReply(p) ==
    /\ phase[p] = "filled"
    /\ Reply(p, "stats")
    /\ UNCHANGED <<vars, toml, slot, holder, held, snap>>

-----------------------------------------------------------------------------

\* The server is stopped between calls and started again.
Restart ==
    /\ \A p \in Mcp : phase[p] = "idle"
    /\ Boot
    /\ held' = NoStore
    /\ reply' = [p \in Mcp |-> "none"]
    /\ UNCHANGED <<vars, toml, holder, phase, tool>>

\* `codeweb init` on the command line.
CliInit ==
    /\ Cli # {}
    /\ ~toml
    /\ toml' = TRUE
    /\ UNCHANGED <<vars, slot, holder, phase, tool, held, snap, reply>>

CliRun(p) ==
    /\ toml
    /\ \/ \E j \in {"analyze", "diff"} : Scan(p, j)
       \/ Step(p)
       \/ SaveFails(p)
       \/ Crash(p)
    /\ UNCHANGED server

EditSources ==
    /\ \E f \in File : \E c \in FileState : Edit(f, c)
    /\ UNCHANGED server

\* The steps a call takes by itself.
Handle(p) ==
    \/ Uninitialized(p) \/ Lock(p) \/ Work(p)
    \/ DiffReplies(p) \/ AnalyzeFailed(p) \/ ReadBack(p) \/ Swap(p)
    \/ AlreadyInitialized(p) \/ InitRefused(p) \/ WriteToml(p) \/ InitDone(p)
    \/ Peek(p) \/ EmptyReply(p) \/ StatsReply(p)

MCPNext ==
    \/ \E p \in Mcp : \E t \in {"init", "analyze", "diff", "stats"} : Call(p, t)
    \/ \E p \in Mcp : Handle(p)
    \/ \E p \in Mcp : Refuse(p)
    \/ \E p \in Mcp : InitFails(p)
    \/ Restart
    \/ CliInit
    \/ \E p \in Cli : CliRun(p)
    \/ EditSources

MCPSpec == MCPInit /\ [][MCPNext]_mcpVars

\* Threads are scheduled; who gets a free mutex first is anyone's guess.
MCPFairSpec == MCPSpec /\ \A p \in Mcp : WF_mcpVars(Handle(p))

-----------------------------------------------------------------------------
(* Properties. *)

\* Without `codeweb` commands beside it, the server drives the project as if its
\* runs excluded one another: the mutex is held across every step of analyze.
Lifecycle == INSTANCE Project WITH Serial <- TRUE

LifecycleSpec == Lifecycle!Spec

Replies(p, r) == reply[p] # r /\ reply'[p] = r

SnapshotIsFresh == snap.store.graph = Indexed(src)

\* codeweb_analyze answers "ready" with the sources in the snapshot, and a diff
\* which finds nothing to do vouches for the snapshot the queries read, once that
\* came from an analysis: the graph in memory, the store and the manifest on disk
\* are three copies which must agree, as they do as long as no save fails and no file
\* was edited while it was analyzed.
AnswersAreFresh ==
    [][\A p \in Mcp : fails = 0 /\ StampedInTime /\ Undisturbed(p) =>
          /\ Replies(p, "ready") => SnapshotIsFresh'
          /\ Replies(p, "in sync") /\ ~snap.reason => SnapshotIsFresh]_mcpVars

\* As long as the server runs, its queries never see an older graph than before,
\* whatever saves failed: of a torn save the snapshot takes nothing, and what it
\* reads back from disk was saved after what it has.
SnapshotNeverOlder ==
    [][Restart \/ snap'.store.since >= snap.store.since]_mcpVars

\* The graph the queries read shows, as it is now, every file which was left
\* alone since the analysis it comes from began, be it a run of the server or one
\* of a `codeweb` command which wrote over the same files, crashed or failed.
SnapshotCapturesUntouched ==
    snap.store # EmptyStore =>
        \A f \in File :
            mtime[f] <= snap.store.since =>
                snap.store.graph[f] = Indexed(src)[f]

\* The mutex is not held for ever, on any path out of a handler.
LockIsReleased == holder # NoRun ~> holder = NoRun

=============================================================================
