------------------------------ MODULE Project ------------------------------
(***************************************************************************)
(* The analysis lifecycle of a project: Project::analyze and Project::diff *)
(* (src/project/mod.rs), the change detection they rest on                 *)
(* (src/parser/fingerprint.rs) and the two files they leave on disk        *)
(* (GraphStore::save_bincode and its readers, src/graph/store.rs).         *)
(*                                                                         *)
(* Several runs may be under way at once: `codeweb analyze`, `codeweb      *)
(* diff` and the MCP tools of the same names are separate processes or     *)
(* threads which share nothing but the file system.  Meanwhile a developer *)
(* edits the sources.  Every access to a file is a step of its own.        *)
(*                                                                         *)
(* A source file is its content, a member of Content; a graph is, for each *)
(* file, the content it was built from.  The graph on disk is rebuilt from *)
(* all files by every run which does not answer "up to date".              *)
(***************************************************************************)
EXTENDS Naturals

CONSTANTS
    File,         \* the paths a scan can meet
    Content,      \* what a source file may hold
    Unindexable,  \* contents its loader gives up on: no mapper, no tokens
    Jsp,          \* files fingerprinted by their synthesized Java source
    Run,          \* the threads and processes which analyze or diff
    Absent,       \* the content of a file which is not there
    NoRecord,     \* the manifest has no entry for a file
    Torn,         \* the payload of a store file which does not decode
    Serial,       \* TRUE: runs exclude one another (the MCP project mutex)
    QuietEdits,   \* TRUE: nobody edits while a run is under way
    MaxTime,      \* bound: number of edits
    MaxFail       \* bound: number of failed saves and crashes

ASSUME ContentAssumption ==
    /\ Unindexable \subseteq Content
    /\ Absent \notin Content
    /\ Torn \notin [File -> Content \cup {Absent}]
ASSUME RecordAssumption ==
    NoRecord \notin [hash : {"bytes", "synthesized"} \X Content, mtime : Nat]
ASSUME SwitchAssumption ==
    /\ Jsp \subseteq File
    /\ Serial \in BOOLEAN /\ QuietEdits \in BOOLEAN
    /\ MaxTime \in Nat /\ MaxFail \in Nat

VARIABLES
    src,       \* file |-> its content now
    mtime,     \* file |-> when it last changed (its mtime while it is there)
    clock,     \* number of edits so far
    header,    \* what the first 13 bytes of the store file say
    body,      \* the graph in the store file, or Torn
    sidecar,   \* the manifest which load_manifest_sidecar returns
    bodySince, \* history: the clock when the run which wrote body began
    pc,        \* run |-> where it is
    job,       \* run |-> "analyze" or "diff"
    todo,      \* run |-> files the current loop has still to visit
    found,     \* run |-> files the scan met
    manifest,  \* run |-> existing_manifest
    dirty,     \* run |-> ~ changes.is_empty(), as far as compared
    parsed,    \* run |-> the graph being built (and so all_hashes)
    records,   \* run |-> new_records
    since,     \* run |-> history: the clock when it began
    verdict,   \* run |-> what its last call answered
    fails      \* failed saves and crashes so far

sources  == <<src, mtime, clock>>
disk     == <<header, body, sidecar, bodySince>>
progress == <<todo, found, manifest, dirty, parsed, records>>
vars     == <<sources, disk, pc, job, progress, since, verdict, fails>>

-----------------------------------------------------------------------------
(* Data. *)

\* What a file can hold, and what a graph says of a file.
FileState == Content \cup {Absent}

Hash == {"bytes", "synthesized"} \X Content

Record == [hash : Hash, mtime : Nat]

Nothing == [f \in File |-> Absent]

NoRecords == [f \in File |-> NoRecord]

\* The hash FileRecord::compute takes of a file: that of its bytes.
ByteHash(c) == <<"bytes", c>>

\* The hash a run collects for a file it parsed: of the bytes, except that a
\* JSP is hashed after its scriptlets were put into a synthesized class.
ParsedHash(f, c) == IF f \in Jsp THEN <<"synthesized", c>> ELSE ByteHash(c)

\* What the loaders make of the sources: a file they cannot read is skipped.
Indexed(s) == [f \in File |-> IF s[f] \in Unindexable THEN Absent ELSE s[f]]

Present(s) == {f \in File : s[f] # Absent}

Recorded(m) == {f \in File : m[f] # NoRecord}

-----------------------------------------------------------------------------
(* A fresh project, or one whose store an older release left behind, with a *)
(* manifest which matches the sources.                                     *)

Init ==
    /\ src \in [File -> FileState]
    /\ mtime = [f \in File |-> 0]
    /\ clock = 0
    /\ \/ header = "absent" /\ body = Nothing /\ sidecar = NoRecords
       \/ /\ header = "older"
          /\ body = Indexed(src)
          /\ sidecar = [f \in File |->
                           IF body[f] = Absent THEN NoRecord
                           ELSE [hash |-> ParsedHash(f, body[f]), mtime |-> 0]]
    /\ bodySince = 0
    /\ pc = [p \in Run |-> "idle"]
    /\ job = [p \in Run |-> "analyze"]
    /\ todo = [p \in Run |-> {}]
    /\ found = [p \in Run |-> {}]
    /\ manifest = [p \in Run |-> NoRecords]
    /\ dirty = [p \in Run |-> FALSE]
    /\ parsed = [p \in Run |-> Nothing]
    /\ records = [p \in Run |-> NoRecords]
    /\ since = [p \in Run |-> 0]
    /\ verdict = [p \in Run |-> "none"]
    /\ fails = 0

-----------------------------------------------------------------------------
(* One call.  A call which returns drops its locals. *)

Goto(p, l) == pc' = [pc EXCEPT ![p] = l]

Answer(p, v) ==
    /\ Goto(p, "idle")
    /\ verdict' = [verdict EXCEPT ![p] = v]
    /\ todo' = [todo EXCEPT ![p] = {}]
    /\ found' = [found EXCEPT ![p] = {}]
    /\ manifest' = [manifest EXCEPT ![p] = NoRecords]
    /\ dirty' = [dirty EXCEPT ![p] = FALSE]
    /\ parsed' = [parsed EXCEPT ![p] = Nothing]
    /\ records' = [records EXCEPT ![p] = NoRecords]
    /\ UNCHANGED <<job, since>>

\* Phase 1: scan_with_fingerprints lists the files which are there.
Scan(p, j) ==
    /\ pc[p] = "idle"
    /\ Serial => \A q \in Run : pc[q] = "idle"
    /\ Goto(p, "manifest")
    /\ job' = [job EXCEPT ![p] = j]
    /\ found' = [found EXCEPT ![p] = Present(src)]
    /\ since' = [since EXCEPT ![p] = clock]
    /\ verdict' = [verdict EXCEPT ![p] = "none"]
    /\ UNCHANGED <<sources, disk, todo, manifest, dirty, parsed, records, fails>>

\* Mutant: files which are gone do not count as changes.
LoadManifestIgnoringDeleted(p) ==
    /\ pc[p] = "manifest"
    /\ Goto(p, "compare")
    /\ manifest' = [manifest EXCEPT ![p] = sidecar]
    /\ dirty' = [dirty EXCEPT ![p] = FALSE]
    /\ todo' = [todo EXCEPT ![p] = found[p]]
    /\ UNCHANGED <<sources, disk, job, found, parsed, records, since, verdict,
                   fails>>

\* Phase 2: the manifest is read from the sidecar; entries of files the scan
\* did not meet are the deleted ones.
LoadManifest(p) ==
    /\ pc[p] = "manifest"
    /\ Goto(p, "compare")
    /\ manifest' = [manifest EXCEPT ![p] = sidecar]
    /\ dirty' = [dirty EXCEPT ![p] = Recorded(sidecar) \ found[p] # {}]
    /\ todo' = [todo EXCEPT ![p] = found[p]]
    /\ UNCHANGED <<sources, disk, job, found, parsed, records, since, verdict,
                   fails>>

\* Mutant: a new mtime is a change, whatever the hash.
DiffersByMtime(f, r) == r = NoRecord \/ src[f] = Absent \/ mtime[f] # r.mtime

\* compute_changes on one file: an equal mtime settles it unread, otherwise
\* the hash of the bytes decides, and a file which is gone counts as modified.
Differs(f, r) ==
    \/ r = NoRecord
    \/ src[f] = Absent
    \/ mtime[f] # r.mtime /\ ByteHash(src[f]) # r.hash

Compare(p, f) ==
    /\ pc[p] = "compare" /\ f \in todo[p]
    /\ todo' = [todo EXCEPT ![p] = @ \ {f}]
    /\ dirty' = [dirty EXCEPT ![p] = @ \/ Differs(f, manifest[p][f])]
    /\ UNCHANGED <<sources, disk, pc, job, found, manifest, parsed, records,
                   since, verdict, fails>>

Compared(p) == pc[p] = "compare" /\ todo[p] = {}

\* Mutant: only deleted files are reported.
DiffDoneOnDeleted(p) ==
    /\ Compared(p) /\ job[p] = "diff"
    /\ Answer(p, IF Recorded(manifest[p]) \ found[p] # {} THEN "changed"
                 ELSE "in sync")
    /\ UNCHANGED <<sources, disk, fails>>

\* Project::diff ends here: run_diff calls an empty change set "up_to_date".
DiffDone(p) ==
    /\ Compared(p) /\ job[p] = "diff"
    /\ Answer(p, IF dirty[p] THEN "changed" ELSE "in sync")
    /\ UNCHANGED <<sources, disk, fails>>

\* Mutant: the layout of the store is not looked at.
UpToDateInAnyLayout(p) == ~dirty[p] /\ Recorded(manifest[p]) # {}

\* analyze is done when nothing changed, the store has the current layout and
\* the manifest is not empty (a full build never takes the short cut).
UpToDate(p) ==
    ~dirty[p] /\ header = "current" /\ Recorded(manifest[p]) # {}

ShortCut(p) ==
    /\ Compared(p) /\ job[p] = "analyze"
    /\ UpToDate(p)
    /\ Answer(p, "up to date")
    /\ UNCHANGED <<sources, disk, fails>>

\* Mutant: only the files which changed are parsed again.
RebuildChanged(p) ==
    /\ Compared(p) /\ job[p] = "analyze"
    /\ ~UpToDate(p)
    /\ Goto(p, "parse")
    /\ todo' = [todo EXCEPT ![p] = {f \in found[p] : Differs(f, manifest[p][f])}]
    /\ UNCHANGED <<sources, disk, job, found, manifest, dirty, parsed, records,
                   since, verdict, fails>>

\* Otherwise every file the scan met is parsed, changed or not.
Rebuild(p) ==
    /\ Compared(p) /\ job[p] = "analyze"
    /\ ~UpToDate(p)
    /\ Goto(p, "parse")
    /\ todo' = [todo EXCEPT ![p] = found[p]]
    /\ UNCHANGED <<sources, disk, job, found, manifest, dirty, parsed, records,
                   since, verdict, fails>>

\* Mutant: an unchanged file is taken over from the graph on disk.
ParseReusing(p, f) ==
    /\ pc[p] = "parse" /\ f \in todo[p]
    /\ todo' = [todo EXCEPT ![p] = @ \ {f}]
    /\ parsed' = [parsed EXCEPT ![p][f] =
                     IF Differs(f, manifest[p][f]) THEN Indexed(src)[f]
                     ELSE IF body = Torn THEN Absent ELSE body[f]]
    /\ UNCHANGED <<sources, disk, pc, job, found, manifest, dirty, records,
                   since, verdict, fails>>

\* One file is read once, for its nodes and for its hash; a file which is gone
\* or which its loader rejects leaves neither.
Parse(p, f) ==
    /\ pc[p] = "parse" /\ f \in todo[p]
    /\ todo' = [todo EXCEPT ![p] = @ \ {f}]
    /\ parsed' = [parsed EXCEPT ![p][f] = Indexed(src)[f]]
    /\ UNCHANGED <<sources, disk, pc, job, found, manifest, dirty, records,
                   since, verdict, fails>>

\* The graph is finalized and the store built from it, all in memory.
BuildStore(p) ==
    /\ pc[p] = "parse" /\ todo[p] = {}
    /\ Goto(p, "stamp")
    /\ todo' = [todo EXCEPT ![p] = Present(parsed[p])]
    /\ UNCHANGED <<sources, disk, job, found, manifest, dirty, parsed, records,
                   since, verdict, fails>>

\* Mutant: the mtime is left out.
FromPartsUntimed(f, c) ==
    IF src[f] = Absent THEN NoRecord
    ELSE [hash |-> ParsedHash(f, c), mtime |-> 0]

\* FileRecord::from_parts joins the hash taken at the parse with the mtime the
\* file has now; a file which is gone gets no record.
FromParts(f, c) ==
    IF src[f] = Absent THEN NoRecord
    ELSE [hash |-> ParsedHash(f, c), mtime |-> mtime[f]]

Stamp(p, f) ==
    /\ pc[p] = "stamp" /\ f \in todo[p]
    /\ todo' = [todo EXCEPT ![p] = @ \ {f}]
    /\ records' = [records EXCEPT ![p][f] = FromParts(f, parsed[p][f])]
    /\ UNCHANGED <<sources, disk, pc, job, found, manifest, dirty, parsed,
                   since, verdict, fails>>

\* Mutant: the new records are merged into the old manifest.
NewManifestMerged(p) ==
    [f \in File |-> IF records[p][f] = NoRecord THEN manifest[p][f]
                    ELSE records[p][f]]

\* remove_manifest_entries(changes.deleted) on the new manifest.
NewManifest(p) ==
    [f \in File |-> IF f \in Recorded(manifest[p]) \ found[p] THEN NoRecord
                    ELSE records[p][f]]

\* save_bincode: fs::write truncates the store, then fills it; a reader or a
\* crash in between meets no header, or a header with half a payload.
TruncateStore(p) ==
    /\ pc[p] = "stamp" /\ todo[p] = {}
    /\ Goto(p, "store")
    /\ header' \in {"absent", "current"}
    /\ body' = Torn
    /\ UNCHANGED <<sources, sidecar, bodySince, job, progress, since, verdict,
                   fails>>

FillStore(p) ==
    /\ pc[p] = "store"
    /\ Goto(p, "saved")
    /\ header' = "current"
    /\ body' = parsed[p]
    /\ bodySince' = since[p]
    /\ UNCHANGED <<sources, sidecar, job, progress, since, verdict, fails>>

\* save_manifest_sidecar: the same, on the second file.  A truncated sidecar
\* does not decode, and load_manifest_only then sees an empty manifest.
TruncateSidecar(p) ==
    /\ pc[p] = "saved"
    /\ Goto(p, "sidecar")
    /\ sidecar' = NoRecords
    /\ UNCHANGED <<sources, header, body, bodySince, job, progress, since,
                   verdict, fails>>

FillSidecar(p) ==
    /\ pc[p] = "sidecar"
    /\ sidecar' = NewManifest(p)
    /\ Answer(p, "rebuilt")
    /\ UNCHANGED <<sources, header, body, bodySince, fails>>

\* save_store returns an error: before, between or within the two writes.
SaveFails(p) ==
    /\ \/ pc[p] = "stamp" /\ todo[p] = {}
       \/ pc[p] \in {"store", "saved", "sidecar"}
    /\ fails < MaxFail
    /\ fails' = fails + 1
    /\ Answer(p, "error")
    /\ UNCHANGED <<sources, disk>>

\* The process dies; the files stay as they are.
Crash(p) ==
    /\ pc[p] # "idle"
    /\ fails < MaxFail
    /\ fails' = fails + 1
    /\ Answer(p, "none")
    /\ UNCHANGED <<sources, disk>>

-----------------------------------------------------------------------------
(* The developer: creates, changes, restores, touches and deletes files. *)

Edit(f, c) ==
    /\ clock < MaxTime
    /\ QuietEdits => \A p \in Run : pc[p] = "idle"
    /\ c # Absent \/ src[f] # Absent
    /\ clock' = clock + 1
    /\ src' = [src EXCEPT ![f] = c]
    /\ mtime' = [mtime EXCEPT ![f] = clock + 1]
    /\ UNCHANGED <<disk, pc, job, progress, since, verdict, fails>>

-----------------------------------------------------------------------------

\* The steps a run takes on its own once it was called.
Step(p) ==
    \/ LoadManifest(p)
    \/ \E f \in File : Compare(p, f)
    \/ DiffDone(p)
    \/ ShortCut(p)
    \/ Rebuild(p)
    \/ \E f \in File : Parse(p, f)
    \/ BuildStore(p)
    \/ \E f \in File : Stamp(p, f)
    \/ TruncateStore(p)
    \/ FillStore(p)
    \/ TruncateSidecar(p)
    \/ FillSidecar(p)

\* What happens while nothing fails.
Calm ==
    \/ \E p \in Run : \E j \in {"analyze", "diff"} : Scan(p, j)
    \/ \E p \in Run : Step(p)
    \/ \E f \in File : \E c \in FileState : Edit(f, c)

Next ==
    \/ Calm
    \/ \E p \in Run : SaveFails(p)
    \/ \E p \in Run : Crash(p)

Spec == Init /\ [][Next]_vars

\* No run fails.
CalmSpec == Init /\ [][Calm]_vars

\* Besides, a call runs to its end: the loops of analyze are bounded and nothing in them
\* waits for another run; and `analyze` is called again and again (a watch loop, a CI job).
PolledSpec ==
    /\ CalmSpec
    /\ \A p \in Run : WF_vars(Step(p)) /\ SF_vars(Scan(p, "analyze"))

-----------------------------------------------------------------------------
(* Properties. *)

Graph == [File -> FileState]

Manifest == [File -> Record \cup {NoRecord}]

\* Every variable keeps its type: what the files hold, what the locals of a
\* run hold, the places a run can be at.
TypeOK ==
    /\ src \in Graph
    /\ clock \in 0 .. MaxTime
    /\ mtime \in [File -> 0 .. MaxTime]
    /\ header \in {"absent", "older", "current"}
    /\ body \in Graph \cup {Torn}
    /\ sidecar \in Manifest
    /\ bodySince \in 0 .. MaxTime
    /\ pc \in [Run -> {"idle", "manifest", "compare", "parse", "stamp",
                       "store", "saved", "sidecar"}]
    /\ job \in [Run -> {"analyze", "diff"}]
    /\ todo \in [Run -> SUBSET File]
    /\ found \in [Run -> SUBSET File]
    /\ manifest \in [Run -> Manifest]
    /\ dirty \in [Run -> BOOLEAN]
    /\ parsed \in [Run -> Graph]
    /\ records \in [Run -> Manifest]
    /\ since \in [Run -> 0 .. MaxTime]
    /\ verdict \in [Run -> {"none", "in sync", "changed", "up to date",
                            "rebuilt", "error"}]
    /\ fails \in 0 .. MaxFail

\* The graph on disk shows, as it is now, every file which was left alone since
\* the run which wrote the graph began, however many runs were under way, crashed
\* or failed in between: one which changed during the run may be missing, an
\* untouched one never is (analyze parses all files, not the changed ones).
CapturesUntouched ==
    header # "absent" /\ body # Torn =>
        \A f \in File : mtime[f] <= bodySince => body[f] = Indexed(src)[f]

\* Between two saves, the manifest describes the graph beside it: each entry is
\* the fingerprint of the content the graph shows, so that no fingerprint ever
\* vouches for content which was not parsed (save_bincode writes the store, then
\* the manifest of the same run).
Saving == \E p \in Run : pc[p] \in {"store", "saved", "sidecar"}

SidecarDescribesBody ==
    ~Saving =>
        \A f \in Recorded(sidecar) :
            /\ body # Torn
            /\ body[f] # Absent
            /\ sidecar[f].hash = ParsedHash(f, body[f])

\* A run which answers "up to date", or a diff which answers "in sync", leaves a
\* graph on disk which shows exactly the sources, unless one changed while that
\* very call was under way (the early return of analyze, the hint of run_diff).
Answers(p, v) == verdict[p] # v /\ verdict'[p] = v

OnDiskIsFresh == body = Indexed(src)

Undisturbed(p) == \A f \in File : mtime[f] <= since[p]

\* Every file the graph on disk shows is recorded as it was when the analysis began, and
\* no other one: none came, changed or went while it was parsed.
StampedInTime ==
    /\ body # Torn
    /\ Recorded(sidecar) = {f \in File : body[f] # Absent}
    /\ \A f \in Recorded(sidecar) : sidecar[f].mtime <= bodySince

UpToDateIsFresh ==
    [][\A p \in Run :
          /\ Answers(p, "up to date") \/ Answers(p, "in sync")
          /\ Undisturbed(p)
          => OnDiskIsFresh]_vars

\* A run which answers "rebuilt" leaves the sources on disk, whatever the runs
\* before it left there, crashed or failed in the middle of a save, unless a file
\* changed while it was under way.
RebuiltIsFresh ==
    [][\A p \in Run :
          Answers(p, "rebuilt") /\ Undisturbed(p) => OnDiskIsFresh]_vars

\* Runs which exclude one another, on sources which rest meanwhile, and saves
\* which do not fail: the project is then the index SourceIndex describes.
Promise ==
    INSTANCE SourceIndex WITH Lost <- Torn, index <- body, answer <- verdict

SourceIndexSpec == Promise!Spec

\* A run parses everything again only for a reason: the graph differs from the
\* sources, the layout is old, a file is in no manifest because no loader takes
\* it, no file was taken at all, or a JSP has a new mtime, which its fingerprint
\* of synthesized code can never outweigh.
HasReason ==
    \/ ~OnDiskIsFresh
    \/ header # "current"
    \/ \E f \in File : src[f] \in Unindexable
    \/ Present(body) = {}
    \/ \E f \in Jsp : mtime[f] > bodySince

RebuildHasReason ==
    [][\A p \in Run : pc[p] = "compare" /\ pc'[p] = "parse" => HasReason]_vars

\* Whoever keeps calling analyze gets, once the edits stop, a graph of the
\* sources, and one which stays but for the moments a save takes.
EventuallyFresh == <>[](Saving \/ OnDiskIsFresh)

\* If, besides, there is a file and every file can be indexed, then the calls end
\* up answering "up to date": no state is rebuilt for ever.
Indexable == Present(src) # {} /\ \A f \in File : src[f] \notin Unindexable

EventuallyUpToDate ==
    <>[]Indexable => <>(\E p \in Run : verdict[p] = "up to date")

=============================================================================
