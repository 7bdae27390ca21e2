--------------------------- MODULE ProjectProofs ---------------------------
(***************************************************************************)
(* Theorems about module Project, for all files, contents and runs and all *)
(* bounds, and, when its runs exclude one another: what the manifest says  *)
(* of the graph beside it, what the answers of a run say of the graph on   *)
(* disk, and that the project is the index SourceIndex describes.          *)
(***************************************************************************)
EXTENDS Project, TLAPS

-----------------------------------------------------------------------------
(* Types. *)

\* Only parsed files are stamped, so that every record has the hash of a content.
StampsParsed ==
    \A p \in Run : pc[p] = "stamp" => todo[p] \subseteq Present(parsed[p])

TypeInv == TypeOK /\ StampsParsed

\* The bounds are numbers.
LEMMA Bounds == MaxTime \in Nat /\ MaxFail \in Nat
BY SwitchAssumption

\* Times are numbers.
LEMMA Times ==
    TypeInv => bodySince \in Nat /\ clock \in Nat /\ \A p \in Run : since[p] \in Nat
<1> SUFFICES ASSUME TypeInv
             PROVE  bodySince \in Nat /\ clock \in Nat /\ \A p \in Run : since[p] \in Nat
    OBVIOUS
<1>1. bodySince \in 0 .. MaxTime /\ clock \in 0 .. MaxTime
      /\ \A p \in Run : since[p] \in 0 .. MaxTime
    BY DEF TypeInv, TypeOK
<1> QED BY <1>1, Bounds

\* A graph of the sources is a graph.
LEMMA IndexedType == src \in Graph => Indexed(src) \in Graph
BY ContentAssumption DEF Indexed, Graph, FileState

\* A record made from a parsed file is a record.
LEMMA FromPartsType ==
    ASSUME TypeOK, NEW f \in File, NEW c \in Content
    PROVE  FromParts(f, c) \in Record \cup {NoRecord}
<1>1. ParsedHash(f, c) \in Hash
    BY DEF Hash, ParsedHash, ByteHash
<1>2. mtime[f] \in Nat
    <2>1. mtime[f] \in 0 .. MaxTime
        BY DEF TypeOK
    <2> QED BY <2>1, Bounds
<1> QED BY <1>1, <1>2 DEF FromParts, Record

LEMMA TypeInit == Init => TypeInv
<1> SUFFICES ASSUME Init PROVE TypeInv
    OBVIOUS
<1>1. Indexed(src) \in Graph
    BY IndexedType DEF Init, Graph
<1>2. Nothing \in Graph /\ NoRecords \in Manifest
    BY DEF Nothing, NoRecords, Graph, Manifest, FileState
<1>3. sidecar \in Manifest
    <2>1. CASE sidecar = NoRecords
        BY <1>2, <2>1
    <2>2. CASE sidecar # NoRecords
        <3>1. body \in Graph /\ body = Indexed(src)
            BY <1>1, <2>2 DEF Init
        <3>2. \A f \in File : body[f] # Absent =>
                  [hash |-> ParsedHash(f, body[f]), mtime |-> 0] \in Record
            BY <3>1 DEF Graph, FileState, Record, Hash, ParsedHash, ByteHash
        <3>3. sidecar = [f \in File |->
                            IF body[f] = Absent THEN NoRecord
                            ELSE [hash |-> ParsedHash(f, body[f]), mtime |-> 0]]
            BY <2>2 DEF Init
        <3> QED BY <3>2, <3>3 DEF Manifest
    <2> QED BY <2>1, <2>2
<1>4. TypeOK
    BY <1>1, <1>2, <1>3, Bounds DEF Init, TypeOK, Graph
<1>5. StampsParsed
    BY DEF Init, StampsParsed
<1> QED BY <1>4, <1>5 DEF TypeInv

\* Returning from a call keeps the types.
LEMMA AnswerType ==
    ASSUME TypeInv, NEW p \in Run, NEW v, Answer(p, v),
           v \in {"none", "in sync", "changed", "up to date", "rebuilt", "error"}
    PROVE  /\ pc' \in [Run -> {"idle", "manifest", "compare", "parse", "stamp",
                               "store", "saved", "sidecar"}]
           /\ verdict' \in [Run -> {"none", "in sync", "changed", "up to date",
                                    "rebuilt", "error"}]
           /\ todo' \in [Run -> SUBSET File]
           /\ found' \in [Run -> SUBSET File]
           /\ manifest' \in [Run -> Manifest]
           /\ dirty' \in [Run -> BOOLEAN]
           /\ parsed' \in [Run -> Graph]
           /\ records' \in [Run -> Manifest]
           /\ job' \in [Run -> {"analyze", "diff"}]
           /\ since' \in [Run -> 0 .. MaxTime]
           /\ StampsParsed'
<1>1. Nothing \in Graph /\ NoRecords \in Manifest
    BY DEF Nothing, NoRecords, Graph, Manifest, FileState
<1>2. StampsParsed'
    BY DEF TypeInv, TypeOK, StampsParsed, Answer, Goto, Present
<1> QED BY <1>1, <1>2 DEF TypeInv, TypeOK, Answer, Goto

LEMMA TypeStep == TypeInv /\ [Next]_vars => TypeInv'
<1> SUFFICES ASSUME TypeInv, [Next]_vars PROVE TypeInv'
    OBVIOUS
<1> USE DEF TypeInv
<1>1. ASSUME NEW p \in Run, NEW j \in {"analyze", "diff"}, Scan(p, j)
      PROVE  TypeInv'
    <2>1. TypeOK'
        BY <1>1 DEF Scan, Goto, TypeOK, sources, disk, Present
    <2>2. StampsParsed'
        BY <1>1 DEF Scan, Goto, TypeOK, StampsParsed, Present
    <2> QED BY <2>1, <2>2
<1>2. ASSUME NEW p \in Run, LoadManifest(p) PROVE TypeInv'
    <2>1. TypeOK'
        BY <1>2 DEF LoadManifest, Goto, TypeOK, sources, disk, Recorded
    <2>2. StampsParsed'
        BY <1>2 DEF LoadManifest, Goto, TypeOK, StampsParsed, Present
    <2> QED BY <2>1, <2>2
<1>3. ASSUME NEW p \in Run, NEW f \in File, Compare(p, f) PROVE TypeInv'
    <2>1. dirty' \in [Run -> BOOLEAN]
        <3>1. (dirty[p] \/ Differs(f, manifest[p][f])) \in BOOLEAN
            OBVIOUS
        <3> QED BY <1>3, <3>1, Zenon DEF Compare, TypeOK
    <2>2. TypeOK'
        BY <1>3, <2>1 DEF Compare, TypeOK, sources, disk
    <2>3. StampsParsed'
        BY <1>3 DEF Compare, TypeOK, StampsParsed, Present
    <2> QED BY <2>2, <2>3
<1>4. ASSUME NEW p \in Run, DiffDone(p) PROVE TypeInv'
    BY <1>4, AnswerType DEF DiffDone, TypeOK, sources, disk
<1>5. ASSUME NEW p \in Run, ShortCut(p) PROVE TypeInv'
    BY <1>5, AnswerType DEF ShortCut, TypeOK, sources, disk
<1>6. ASSUME NEW p \in Run, Rebuild(p) PROVE TypeInv'
    <2>1. TypeOK'
        BY <1>6 DEF Rebuild, Goto, TypeOK, sources, disk
    <2>2. StampsParsed'
        BY <1>6 DEF Rebuild, Goto, TypeOK, StampsParsed, Present
    <2> QED BY <2>1, <2>2
<1>7. ASSUME NEW p \in Run, NEW f \in File, Parse(p, f) PROVE TypeInv'
    <2>1. TypeOK'
        BY <1>7, IndexedType DEF Parse, TypeOK, Graph, sources, disk
    <2>2. StampsParsed'
        BY <1>7 DEF Parse, TypeOK, StampsParsed, Present
    <2> QED BY <2>1, <2>2
<1>8. ASSUME NEW p \in Run, BuildStore(p) PROVE TypeInv'
    <2>1. TypeOK'
        BY <1>8 DEF BuildStore, Goto, TypeOK, sources, disk, Present
    <2>2. StampsParsed'
        BY <1>8 DEF BuildStore, Goto, TypeOK, StampsParsed, Present
    <2> QED BY <2>1, <2>2
<1>9. ASSUME NEW p \in Run, NEW f \in File, Stamp(p, f) PROVE TypeInv'
    <2>1. parsed[p][f] \in Content
        <3>1. f \in Present(parsed[p])
            BY <1>9 DEF Stamp, StampsParsed
        <3>2. parsed[p][f] \in FileState
            BY DEF TypeOK, Graph
        <3> QED BY <3>1, <3>2 DEF Present, FileState
    <2>2. FromParts(f, parsed[p][f]) \in Record \cup {NoRecord}
        BY <2>1, FromPartsType
    <2>3. TypeOK'
        BY <1>9, <2>2 DEF Stamp, TypeOK, Manifest, sources, disk
    <2>4. StampsParsed'
        BY <1>9 DEF Stamp, TypeOK, StampsParsed, Present
    <2> QED BY <2>3, <2>4
<1>10. ASSUME NEW p \in Run, TruncateStore(p) PROVE TypeInv'
    <2>1. TypeOK'
        BY <1>10 DEF TruncateStore, Goto, TypeOK, sources, progress
    <2>2. StampsParsed'
        BY <1>10 DEF TruncateStore, Goto, TypeOK, StampsParsed, Present, progress
    <2> QED BY <2>1, <2>2
<1>11. ASSUME NEW p \in Run, FillStore(p) PROVE TypeInv'
    <2>1. TypeOK'
        BY <1>11 DEF FillStore, Goto, TypeOK, sources, progress
    <2>2. StampsParsed'
        BY <1>11 DEF FillStore, Goto, TypeOK, StampsParsed, Present, progress
    <2> QED BY <2>1, <2>2
<1>12. ASSUME NEW p \in Run, TruncateSidecar(p) PROVE TypeInv'
    <2>1. NoRecords \in Manifest
        BY DEF NoRecords, Manifest
    <2>2. TypeOK'
        BY <1>12, <2>1 DEF TruncateSidecar, Goto, TypeOK, sources, progress
    <2>3. StampsParsed'
        BY <1>12 DEF TruncateSidecar, Goto, TypeOK, StampsParsed, Present, progress
    <2> QED BY <2>2, <2>3
<1>13. ASSUME NEW p \in Run, FillSidecar(p) PROVE TypeInv'
    <2>1. NewManifest(p) \in Manifest
        BY ZenonT(30) DEF TypeOK, NewManifest, Manifest
    <2> QED BY <1>13, <2>1, AnswerType DEF FillSidecar, TypeOK, sources
<1>14. ASSUME NEW p \in Run, SaveFails(p) PROVE TypeInv'
    <2>1. fails' \in 0 .. MaxFail
        <3>1. fails \in 0 .. MaxFail
            BY DEF TypeOK
        <3>2. fails < MaxFail /\ fails' = fails + 1
            BY <1>14 DEF SaveFails
        <3> QED BY <3>1, <3>2, Bounds
    <2> QED BY <1>14, <2>1, AnswerType DEF SaveFails, TypeOK, sources, disk
<1>15. ASSUME NEW p \in Run, Crash(p) PROVE TypeInv'
    <2>1. fails' \in 0 .. MaxFail
        <3>1. fails \in 0 .. MaxFail
            BY DEF TypeOK
        <3>2. fails < MaxFail /\ fails' = fails + 1
            BY <1>15 DEF Crash
        <3> QED BY <3>1, <3>2, Bounds
    <2> QED BY <1>15, <2>1, AnswerType DEF Crash, TypeOK, sources, disk
<1>16. ASSUME NEW f \in File, NEW c \in FileState, Edit(f, c) PROVE TypeInv'
    <2>1. clock' \in 0 .. MaxTime /\ clock' = clock + 1
        <3>1. clock \in 0 .. MaxTime
            BY DEF TypeOK
        <3>2. clock < MaxTime /\ clock' = clock + 1
            BY <1>16 DEF Edit
        <3> QED BY <3>1, <3>2, Bounds
    <2>2. src' \in Graph /\ mtime' \in [File -> 0 .. MaxTime]
        BY ZenonT(30), <1>16, <2>1 DEF Edit, TypeOK, Graph
    <2>3. TypeOK'
        BY <1>16, <2>1, <2>2 DEF Edit, TypeOK, disk, progress
    <2>4. StampsParsed'
        BY <1>16 DEF Edit, StampsParsed, progress
    <2> QED BY <2>3, <2>4
<1>17. CASE UNCHANGED vars
    BY <1>17 DEF vars, sources, disk, progress, TypeOK, StampsParsed, Present
<1> QED
    BY <1>1, <1>2, <1>3, <1>4, <1>5, <1>6, <1>7, <1>8, <1>9, <1>10, <1>11, <1>12,
       <1>13, <1>14, <1>15, <1>16, <1>17 DEF Next, Calm, Step

\* Type correctness (TypeOK), with any number of runs, edits and failures.
THEOREM TypeCorrect == Spec => []TypeOK
<1>1. TypeInv => TypeOK
    BY DEF TypeInv
<1> QED BY <1>1, TypeInit, TypeStep, PTL DEF Spec

-----------------------------------------------------------------------------
(* The graph on disk shows what was left alone. *)

\* No time lies in the future.
InThePast ==
    /\ \A f \in File : mtime[f] <= clock
    /\ \A p \in Run : since[p] <= clock
    /\ bodySince <= clock

\* What a run knows of file f, if f was left alone since the run began, is true.
Knows(p, f) ==
    mtime[f] <= since[p] =>
        /\ pc[p] \in {"manifest", "compare", "parse"}
               => (f \in found[p] <=> src[f] # Absent)
        /\ pc[p] = "parse" /\ f \notin todo[p] => parsed[p][f] = Indexed(src)[f]
        /\ pc[p] \in {"stamp", "store", "saved", "sidecar"} => parsed[p][f] = Indexed(src)[f]

Blank(p) == pc[p] \in {"manifest", "compare", "idle"} => parsed[p] = Nothing

CaptureInv ==
    /\ InThePast
    /\ \A p \in Run : Blank(p)
    /\ \A p \in Run, f \in File : Knows(p, f)
    /\ CapturesUntouched

LEMMA CaptureInit == Init => CaptureInv
<1> SUFFICES ASSUME Init PROVE CaptureInv
    OBVIOUS
<1>1. InThePast
    BY DEF Init, InThePast
<1>2. CapturesUntouched
    BY DEF Init, CapturesUntouched
<1>3. \A p \in Run : Blank(p) /\ \A f \in File : Knows(p, f)
    BY DEF Init, Blank, Knows
<1> QED BY <1>1, <1>2, <1>3 DEF CaptureInv

\* An edit tells no run anything: the file it changes is new to all of them.
LEMMA CaptureEdit ==
    ASSUME TypeInv, CaptureInv, NEW g \in File, NEW c \in FileState, Edit(g, c)
    PROVE  CaptureInv'
<1>1. clock \in Nat /\ clock' = clock + 1
    <2>1. clock \in 0 .. MaxTime
        BY DEF TypeInv, TypeOK
    <2> QED BY <2>1, Bounds DEF Edit
<1>2. \A f \in File : mtime[f] \in Nat
    <2> TAKE f \in File
    <2>1. mtime[f] \in 0 .. MaxTime
        BY DEF TypeInv, TypeOK
    <2> QED BY <2>1, Bounds
<1>3. (\A p \in Run : since[p] \in Nat) /\ bodySince \in Nat
    <2>1. (\A p \in Run : since[p] \in 0 .. MaxTime) /\ bodySince \in 0 .. MaxTime
        BY DEF TypeInv, TypeOK
    <2> QED BY <2>1, Bounds
<1>4. mtime'[g] = clock + 1
      /\ \A f \in File : f # g => mtime'[f] = mtime[f] /\ src'[f] = src[f]
    BY DEF Edit, TypeInv, TypeOK, Graph
<1>5. since' = since /\ bodySince' = bodySince /\ body' = body /\ pc' = pc
      /\ found' = found /\ todo' = todo /\ parsed' = parsed /\ header' = header
    BY DEF Edit, disk, progress
<1>6. InThePast'
    BY <1>1, <1>2, <1>3, <1>4, <1>5 DEF InThePast, CaptureInv
<1>7. \A f \in File : f # g => Indexed(src)'[f] = Indexed(src)[f]
    BY <1>4 DEF Indexed
<1>8. \A p \in Run, f \in File : Knows(p, f)'
    <2> TAKE p \in Run, f \in File
    <2>1. CASE f = g
        <3>1. since'[p] < mtime'[f]
            BY <1>1, <1>3, <1>4, <1>5, <2>1 DEF CaptureInv, InThePast
        <3>2. ~(mtime'[f] <= since'[p])
            BY <3>1, <1>1, <1>3, <1>4, <1>5, <2>1
        <3> QED BY <3>2 DEF Knows
    <2>2. CASE f # g
        BY <1>4, <1>5, <1>7, <2>2 DEF Knows, CaptureInv
    <2> QED BY <2>1, <2>2
<1>9. CapturesUntouched'
    <2> SUFFICES ASSUME header' # "absent", body' # Torn, NEW f \in File,
                        mtime'[f] <= bodySince'
                 PROVE  body'[f] = Indexed(src)'[f]
        BY DEF CapturesUntouched
    <2>1. f # g
        BY <1>1, <1>3, <1>4, <1>5 DEF CaptureInv, InThePast
    <2> QED BY <1>4, <1>5, <1>7, <2>1 DEF CapturesUntouched, CaptureInv
<1>10. \A p \in Run : Blank(p)'
    BY <1>5 DEF Blank, CaptureInv
<1> QED BY <1>6, <1>8, <1>9, <1>10 DEF CaptureInv

\* A step of run p on resting sources, which leaves the graph on disk alone, has
\* only to be right about what p knows.
LEMMA CaptureLocal ==
    ASSUME TypeInv, CaptureInv, NEW p \in Run, UNCHANGED sources,
           since'[p] \in Nat, since'[p] <= clock,
           bodySince' = bodySince,
           CapturesUntouched',
           \A q \in Run : q # p => /\ pc'[q] = pc[q]
                                   /\ since'[q] = since[q]
                                   /\ found'[q] = found[q]
                                   /\ todo'[q] = todo[q]
                                   /\ parsed'[q] = parsed[q],
           Blank(p)', \A f \in File : Knows(p, f)'
    PROVE  CaptureInv'
<1>1. InThePast'
    BY DEF InThePast, CaptureInv, sources
<1>2. \A q \in Run : Blank(q)'
    BY DEF Blank, CaptureInv
<1>3. Indexed(src)' = Indexed(src)
    BY DEF Indexed, sources
<1>4. \A q \in Run, f \in File : Knows(q, f)'
    BY <1>3 DEF Knows, CaptureInv, sources
<1> QED BY <1>1, <1>2, <1>4 DEF CaptureInv

LEMMA CaptureStep == TypeInv /\ CaptureInv /\ [Next]_vars => CaptureInv'
<1> SUFFICES ASSUME TypeInv, CaptureInv, [Next]_vars PROVE CaptureInv'
    OBVIOUS
<1> DEFINE Rest(p) ==
        \A q \in Run : q # p => /\ pc'[q] = pc[q]
                                /\ since'[q] = since[q]
                                /\ found'[q] = found[q]
                                /\ todo'[q] = todo[q]
                                /\ parsed'[q] = parsed[q]
<1>a. clock \in Nat /\ \A q \in Run : since[q] \in Nat /\ since[q] <= clock
    <2>1. clock \in 0 .. MaxTime /\ \A q \in Run : since[q] \in 0 .. MaxTime
        BY DEF TypeInv, TypeOK
    <2> QED BY <2>1, Bounds DEF CaptureInv, InThePast
<1>b. UNCHANGED <<src, header, body, bodySince, mtime>> => CapturesUntouched'
    BY DEF CapturesUntouched, CaptureInv, Indexed
<1>c. UNCHANGED src => Indexed(src)' = Indexed(src)
    BY DEF Indexed
<1>d. ASSUME NEW p \in Run, NEW v, Answer(p, v),
             UNCHANGED sources, bodySince' = bodySince, CapturesUntouched'
      PROVE  CaptureInv'
    <2>1. Rest(p) /\ since' = since /\ pc'[p] = "idle" /\ parsed'[p] = Nothing
        BY <1>d DEF Answer, Goto, TypeInv, TypeOK
    <2>2. Blank(p)' /\ \A f \in File : Knows(p, f)'
        BY <2>1 DEF Blank, Knows
    <2> QED BY <1>a, <1>d, <2>1, <2>2, CaptureLocal
<1>1. ASSUME NEW p \in Run, NEW j \in {"analyze", "diff"}, Scan(p, j)
      PROVE  CaptureInv'
    <2>1. Rest(p) /\ UNCHANGED <<sources, disk>> /\ parsed' = parsed
          /\ pc[p] = "idle" /\ pc'[p] = "manifest" /\ found'[p] = Present(src)
          /\ since'[p] = clock
        BY <1>1 DEF Scan, Goto, TypeInv, TypeOK
    <2>2. Blank(p)' /\ \A f \in File : Knows(p, f)'
        BY <2>1 DEF Blank, Knows, CaptureInv, Present, sources
    <2> QED BY <1>a, <1>b, <2>1, <2>2, CaptureLocal DEF sources, disk
<1>2. ASSUME NEW p \in Run, LoadManifest(p) PROVE CaptureInv'
    <2>1. Rest(p) /\ UNCHANGED <<sources, disk, parsed, found, since>>
          /\ pc[p] = "manifest" /\ pc'[p] = "compare"
        BY <1>2 DEF LoadManifest, Goto, TypeInv, TypeOK
    <2>2. Blank(p)' /\ \A f \in File : Knows(p, f)'
        BY <2>1 DEF Blank, Knows, CaptureInv, sources
    <2> QED BY <1>a, <1>b, <2>1, <2>2, CaptureLocal DEF sources, disk
<1>3. ASSUME NEW p \in Run, NEW g \in File, Compare(p, g) PROVE CaptureInv'
    <2>1. Rest(p) /\ UNCHANGED <<sources, disk, parsed, found, since, pc>>
          /\ pc[p] = "compare"
        BY <1>3 DEF Compare, TypeInv, TypeOK
    <2>2. Blank(p)' /\ \A f \in File : Knows(p, f)'
        BY <2>1 DEF Blank, Knows, CaptureInv, sources
    <2> QED BY <1>a, <1>b, <2>1, <2>2, CaptureLocal DEF sources, disk
<1>4. ASSUME NEW p \in Run, DiffDone(p) PROVE CaptureInv'
    BY <1>4, <1>b, <1>d DEF DiffDone, sources, disk
<1>5. ASSUME NEW p \in Run, ShortCut(p) PROVE CaptureInv'
    BY <1>5, <1>b, <1>d DEF ShortCut, sources, disk
<1>6. ASSUME NEW p \in Run, Rebuild(p) PROVE CaptureInv'
    <2>1. Rest(p) /\ UNCHANGED <<sources, disk, parsed, found, since>>
          /\ pc[p] = "compare" /\ pc'[p] = "parse" /\ todo'[p] = found[p]
        BY <1>6 DEF Rebuild, Compared, Goto, TypeInv, TypeOK
    <2>2. parsed[p] = Nothing
        BY <2>1 DEF CaptureInv, Blank
    <2>3. Blank(p)' /\ \A f \in File : Knows(p, f)'
        BY <2>1, <2>2 DEF Blank, Knows, CaptureInv, sources, Nothing, Indexed
    <2> QED BY <1>a, <1>b, <2>1, <2>3, CaptureLocal DEF sources, disk
<1>7. ASSUME NEW p \in Run, NEW g \in File, Parse(p, g) PROVE CaptureInv'
    <2>1. Rest(p) /\ UNCHANGED <<sources, disk, found, since, pc>>
          /\ pc[p] = "parse" /\ todo'[p] = todo[p] \ {g}
          /\ parsed'[p][g] = Indexed(src)[g]
          /\ \A f \in File : f # g => parsed'[p][f] = parsed[p][f]
        BY <1>7 DEF Parse, TypeInv, TypeOK, Graph
    <2>2. Blank(p)' /\ \A f \in File : Knows(p, f)'
        BY <2>1, <1>c DEF Blank, Knows, CaptureInv, sources
    <2> QED BY <1>a, <1>b, <2>1, <2>2, CaptureLocal DEF sources, disk
<1>8. ASSUME NEW p \in Run, BuildStore(p) PROVE CaptureInv'
    <2>1. Rest(p) /\ UNCHANGED <<sources, disk, parsed, found, since>>
          /\ pc[p] = "parse" /\ todo[p] = {} /\ pc'[p] = "stamp"
        BY <1>8 DEF BuildStore, Goto, TypeInv, TypeOK
    <2>2. Blank(p)' /\ \A f \in File : Knows(p, f)'
        BY <2>1, <1>c DEF Blank, Knows, CaptureInv, sources
    <2> QED BY <1>a, <1>b, <2>1, <2>2, CaptureLocal DEF sources, disk
<1>9. ASSUME NEW p \in Run, NEW g \in File, Stamp(p, g) PROVE CaptureInv'
    <2>1. Rest(p) /\ UNCHANGED <<sources, disk, parsed, found, since, pc>>
          /\ pc[p] = "stamp"
        BY <1>9 DEF Stamp, TypeInv, TypeOK
    <2>2. Blank(p)' /\ \A f \in File : Knows(p, f)'
        BY <2>1, <1>c DEF Blank, Knows, CaptureInv, sources
    <2> QED BY <1>a, <1>b, <2>1, <2>2, CaptureLocal DEF sources, disk
<1>10. ASSUME NEW p \in Run, TruncateStore(p) PROVE CaptureInv'
    <2>1. Rest(p) /\ UNCHANGED <<sources, parsed, found, since, bodySince>>
          /\ pc[p] = "stamp" /\ pc'[p] = "store"
        BY <1>10 DEF TruncateStore, Goto, TypeInv, TypeOK, progress
    <2>2. Blank(p)' /\ \A f \in File : Knows(p, f)'
        BY <2>1, <1>c DEF Blank, Knows, CaptureInv, sources
    <2>3. CapturesUntouched'
        BY <1>10 DEF TruncateStore, CapturesUntouched
    <2> QED BY <1>a, <2>1, <2>2, <2>3, CaptureLocal
<1>11. ASSUME NEW p \in Run, FillStore(p) PROVE CaptureInv'
    <2>1. Rest(p) /\ UNCHANGED <<sources, parsed, found, since>>
          /\ pc[p] = "store" /\ pc'[p] = "saved"
          /\ body' = parsed[p] /\ bodySince' = since[p]
        BY <1>11 DEF FillStore, Goto, TypeInv, TypeOK, progress
    <2>2. \A q \in Run : Blank(q)'
        BY <2>1 DEF Blank, CaptureInv
    <2>3. \A q \in Run, f \in File : Knows(q, f)'
        BY <2>1, <1>c DEF Knows, CaptureInv, sources
    <2>4. CapturesUntouched'
        BY <2>1, <1>c DEF CapturesUntouched, Knows, CaptureInv, sources
    <2>5. InThePast'
        BY <2>1 DEF InThePast, CaptureInv, sources
    <2> QED BY <2>2, <2>3, <2>4, <2>5 DEF CaptureInv
<1>12. ASSUME NEW p \in Run, TruncateSidecar(p) PROVE CaptureInv'
    <2>1. Rest(p) /\ UNCHANGED <<sources, header, body, bodySince, parsed, found,
                                 since>>
          /\ pc[p] = "saved" /\ pc'[p] = "sidecar"
        BY <1>12 DEF TruncateSidecar, Goto, TypeInv, TypeOK, progress
    <2>2. Blank(p)' /\ \A f \in File : Knows(p, f)'
        BY <2>1, <1>c DEF Blank, Knows, CaptureInv, sources
    <2> QED BY <1>a, <1>b, <2>1, <2>2, CaptureLocal DEF sources
<1>13. ASSUME NEW p \in Run, FillSidecar(p) PROVE CaptureInv'
    BY <1>13, <1>b, <1>d DEF FillSidecar, sources
<1>14. ASSUME NEW p \in Run, SaveFails(p) PROVE CaptureInv'
    BY <1>14, <1>b, <1>d DEF SaveFails, sources, disk
<1>15. ASSUME NEW p \in Run, Crash(p) PROVE CaptureInv'
    BY <1>15, <1>b, <1>d DEF Crash, sources, disk
<1>16. ASSUME NEW g \in File, NEW c \in FileState, Edit(g, c) PROVE CaptureInv'
    BY <1>16, CaptureEdit
<1>17. CASE UNCHANGED vars
    <2>1. InThePast' /\ CapturesUntouched' /\ Indexed(src)' = Indexed(src)
        BY <1>17, <1>b, <1>c DEF vars, sources, disk, InThePast, CaptureInv
    <2>2. \A p \in Run : Blank(p)' /\ \A f \in File : Knows(p, f)'
        BY <1>17, <2>1 DEF vars, sources, progress, Blank, Knows, CaptureInv
    <2> QED BY <2>1, <2>2 DEF CaptureInv
<1> QED
    BY <1>1, <1>2, <1>3, <1>4, <1>5, <1>6, <1>7, <1>8, <1>9, <1>10, <1>11, <1>12,
       <1>13, <1>14, <1>15, <1>16, <1>17 DEF Next, Calm, Step

\* The graph on disk shows every file which was left alone since the run which
\* wrote it began (CapturesUntouched): with any number of runs side by side and
\* whatever crashes, because a run parses all files it found and knows of none
\* what it read before it began.
THEOREM GraphCapturesUntouched == Spec => []CapturesUntouched
<1>1. CaptureInv => CapturesUntouched
    BY DEF CaptureInv
<1>2. Init => TypeInv /\ CaptureInv
    BY TypeInit, CaptureInit
<1>3. (TypeInv /\ CaptureInv) /\ [Next]_vars => (TypeInv /\ CaptureInv)'
    BY TypeStep, CaptureStep
<1> QED BY <1>1, <1>2, <1>3, PTL DEF Spec

-----------------------------------------------------------------------------
(* Steps. *)

\* Runs exclude one another.
OneAtWork == \A p, q \in Run : pc[p] # "idle" /\ pc[q] # "idle" => p = q

\* A step of run p.
StepOf(p) ==
    \/ \E j \in {"analyze", "diff"} : Scan(p, j)
    \/ Step(p) \/ SaveFails(p) \/ Crash(p)

\* A step leaves a run as it is.
Rests(q) ==
    /\ pc'[q] = pc[q] /\ job'[q] = job[q] /\ todo'[q] = todo[q] /\ found'[q] = found[q]
    /\ manifest'[q] = manifest[q] /\ dirty'[q] = dirty[q] /\ parsed'[q] = parsed[q]
    /\ records'[q] = records[q] /\ since'[q] = since[q] /\ verdict'[q] = verdict[q]

LEMMA NextSteps ==
    [Next]_vars => \/ \E p \in Run : StepOf(p)
                   \/ \E f \in File, c \in FileState : Edit(f, c)
                   \/ UNCHANGED vars
BY DEF Next, Calm, StepOf

\* A run at a time takes a step.
LEMMA OthersRest ==
    ASSUME TypeInv, NEW p \in Run, StepOf(p), NEW q \in Run, q # p
    PROVE  Rests(q)
<1>1. ASSUME NEW v, Answer(p, v) PROVE Rests(q)
    BY <1>1 DEF Answer, Goto, Rests, TypeInv, TypeOK
<1>2. CASE DiffDone(p) \/ ShortCut(p) \/ FillSidecar(p) \/ SaveFails(p) \/ Crash(p)
    BY <1>1, <1>2 DEF DiffDone, ShortCut, FillSidecar, SaveFails, Crash
<1>3. CASE (\E j \in {"analyze", "diff"} : Scan(p, j)) \/ LoadManifest(p)
           \/ \E f \in File : Compare(p, f)
    BY ZenonT(40), <1>3 DEF Scan, LoadManifest, Compare, Goto, Rests, TypeInv, TypeOK
<1>4. CASE Rebuild(p) \/ BuildStore(p) \/ \E f \in File : Parse(p, f) \/ Stamp(p, f)
    BY <1>4 DEF Rebuild, Parse, BuildStore, Stamp, Goto, Rests, TypeInv, TypeOK
<1>5. CASE TruncateStore(p) \/ FillStore(p) \/ TruncateSidecar(p)
    BY <1>5 DEF TruncateStore, FillStore, TruncateSidecar, Goto, Rests, progress, TypeInv, TypeOK
<1> QED BY <1>2, <1>3, <1>4, <1>5 DEF StepOf, Step

\* An edit is not a step of any run.
LEMMA EditRests ==
    ASSUME NEW f \in File, NEW c \in FileState, Edit(f, c) \/ UNCHANGED vars
    PROVE  UNCHANGED <<disk, fails>> /\ \A q \in Run : Rests(q)
BY DEF Edit, Rests, progress, vars

\* Only four steps touch the files a project leaves on disk.
LEMMA DiskChanges ==
    ASSUME NEW p \in Run, StepOf(p)
    PROVE  /\ UNCHANGED sources
           /\ \/ UNCHANGED disk
              \/ TruncateStore(p) \/ FillStore(p) \/ TruncateSidecar(p) \/ FillSidecar(p)
BY DEF StepOf, Step, Scan, LoadManifest, Compare, DiffDone, ShortCut, Rebuild, Parse, BuildStore,
       Stamp, TruncateStore, FillStore, TruncateSidecar, FillSidecar, SaveFails, Crash

LEMMA OneAtWorkInit == Init => OneAtWork
BY DEF Init, OneAtWork

LEMMA OneAtWorkStep ==
    ASSUME Serial = TRUE, TypeInv, OneAtWork, [Next]_vars
    PROVE  OneAtWork'
<1>1. ASSUME NEW p \in Run, StepOf(p) PROVE OneAtWork'
    <2>1. \A q \in Run : q # p => pc'[q] = pc[q]
        BY <1>1, OthersRest DEF Rests
    <2>2. pc[p] # "idle" \/ \A q \in Run : pc[q] = "idle"
        BY <1>1 DEF StepOf, Step, Scan, LoadManifest, Compare, DiffDone, ShortCut, Compared, Rebuild,
                    Parse, BuildStore, Stamp, TruncateStore, FillStore, TruncateSidecar,
                    FillSidecar, SaveFails, Crash
    <2> QED BY <2>1, <2>2 DEF OneAtWork
<1>2. ASSUME NEW f \in File, NEW c \in FileState, Edit(f, c) PROVE OneAtWork'
    BY <1>2, EditRests DEF OneAtWork, Rests
<1>3. CASE UNCHANGED vars
    BY <1>3 DEF vars, OneAtWork
<1> QED BY <1>1, <1>2, <1>3, NextSteps

-----------------------------------------------------------------------------
(* What the manifest says of the graph beside it. *)

SavePoints == {"store", "saved", "sidecar"}

\* The records of a run are fingerprints of what it parsed, and it parsed nothing its
\* loaders give up on.
Recording(p) ==
    /\ pc[p] \notin SavePoints \cup {"stamp"} => records[p] = NoRecords
    /\ \A f \in Recorded(records[p]) :
          parsed[p][f] # Absent /\ records[p][f].hash = ParsedHash(f, parsed[p][f])
    /\ \A f \in File : parsed[p][f] \notin Unindexable

\* From its save to its end a run finds on disk the graph it saved.
Saved(p) == pc[p] \in {"saved", "sidecar"} => body = parsed[p]

\* The graph on disk comes from loaders; without a header there is none; and it is whole
\* and described by its manifest as long as no save failed and none is under way.
DiskInv ==
    /\ body # Torn => \A f \in File : body[f] \notin Unindexable
    /\ header = "absent" /\ body # Torn => body = Nothing
    /\ fails = 0 /\ ~Saving => body # Torn
    /\ fails = 0 => SidecarDescribesBody

DescribeInv ==
    /\ \A p \in Run : Recording(p) /\ Saved(p)
    /\ DiskInv

\* A torn payload is no graph.
LEMMA TornIsNoGraph == Torn \notin Graph /\ Nothing \in Graph
<1>1. Nothing \in Graph
    BY DEF Nothing, Graph, FileState
<1>2. Torn \notin Graph
    BY ContentAssumption, Zenon DEF Graph, FileState
<1> QED BY <1>1, <1>2

\* What loaders make of the sources has nothing they give up on.
LEMMA IndexedIndexable ==
    ASSUME NEW f \in File
    PROVE  Indexed(src)[f] \notin Unindexable /\ Absent \notin Unindexable
BY ContentAssumption DEF Indexed

LEMMA DescribeInit == Init => DescribeInv
<1> SUFFICES ASSUME Init PROVE DescribeInv
    OBVIOUS
<1>1. \A p \in Run : Recording(p) /\ Saved(p)
    BY ContentAssumption DEF Init, Recording, Saved, Recorded, NoRecords, Nothing, SavePoints
<1>2. body # Torn
    BY IndexedType, TornIsNoGraph DEF Init, Graph
<1>3. \A f \in File : body[f] \notin Unindexable
    BY IndexedIndexable, ContentAssumption DEF Init, Nothing
<1>4. ASSUME NEW f \in Recorded(sidecar)
      PROVE  body[f] # Absent /\ sidecar[f].hash = ParsedHash(f, body[f])
    <2>1. f \in File /\ sidecar # NoRecords
        BY <1>4 DEF Recorded, NoRecords
    <2> QED BY <1>4, <2>1 DEF Init, Recorded
<1>5. header = "absent" => body = Nothing
    BY DEF Init
<1> QED BY <1>1, <1>2, <1>3, <1>4, <1>5 DEF DescribeInv, DiskInv, SidecarDescribesBody

\* Files which stay as they are stay described, unless a save ends or fails.
LEMMA DiskStays ==
    ASSUME DiskInv, UNCHANGED disk, fails' = 0 /\ ~Saving' => fails = 0 /\ ~Saving
    PROVE  DiskInv'
BY DEF DiskInv, disk, SidecarDescribesBody, Recorded

\* A step is right if what it makes of its run and of the disk is: other runs are not
\* between their save and their end, since this one is at work.
LEMMA DescribeLocal ==
    ASSUME TypeInv, OneAtWork, DescribeInv, NEW p \in Run, StepOf(p),
           Recording(p)', Saved(p)', DiskInv', body' = body \/ pc[p] # "idle"
    PROVE  DescribeInv'
<1>1. ASSUME NEW q \in Run, q # p PROVE Recording(q)' /\ Saved(q)'
    <2>1. Rests(q)
        BY <1>1, OthersRest
    <2>2. Recording(q) /\ Saved(q)
        BY DEF DescribeInv
    <2>3. Recording(q)'
        BY <2>1, <2>2 DEF Rests, Recording, Recorded
    <2>4. Saved(q)'
        BY <1>1, <2>1, <2>2 DEF Rests, Saved, OneAtWork
    <2> QED BY <2>3, <2>4
<1> QED BY <1>1 DEF DescribeInv

LEMMA DescribeStep ==
    ASSUME TypeInv, OneAtWork, DescribeInv, [Next]_vars
    PROVE  DescribeInv'
<1>t. /\ pc \in [Run -> {"idle", "manifest", "compare", "parse", "stamp", "store", "saved",
                         "sidecar"}]
      /\ parsed \in [Run -> Graph] /\ records \in [Run -> Manifest]
      /\ fails \in Nat
    <2>1. fails \in 0 .. MaxFail
        BY DEF TypeInv, TypeOK
    <2>2. fails \in Nat
        BY <2>1, Bounds
    <2> QED BY <2>2 DEF TypeInv, TypeOK
<1>n. Torn \notin Graph /\ Nothing \in Graph
    BY TornIsNoGraph
<1>d. DiskInv /\ \A p \in Run : Recording(p) /\ Saved(p)
    BY DEF DescribeInv
\* Answers which leave the disk alone.
<1>1. ASSUME NEW p \in Run, DiffDone(p) \/ ShortCut(p) \/ SaveFails(p) \/ Crash(p)
      PROVE  DescribeInv'
    <2>1. /\ pc' = [pc EXCEPT ![p] = "idle"] /\ parsed' = [parsed EXCEPT ![p] = Nothing]
          /\ records' = [records EXCEPT ![p] = NoRecords] /\ UNCHANGED disk
          /\ (fails' = fails /\ pc[p] = "compare") \/ fails' = fails + 1
        BY <1>1 DEF DiffDone, ShortCut, Compared, SaveFails, Crash, Answer, Goto
    <2>2. Recording(p)' /\ Saved(p)'
        BY <1>t, <2>1, ContentAssumption
           DEF Recording, Saved, Recorded, NoRecords, Nothing, SavePoints
    <2>3. DiskInv'
        BY <1>t, <1>d, <2>1, DiskStays DEF Saving
    <2> QED BY <1>1, <2>1, <2>2, <2>3, DescribeLocal DEF StepOf, Step, disk
\* Steps before the first save.
<1>2. ASSUME NEW p \in Run,
             \/ \E j \in {"analyze", "diff"} : Scan(p, j)
             \/ LoadManifest(p) \/ Rebuild(p) \/ \E f \in File : Compare(p, f)
      PROVE  DescribeInv'
    <2>1. /\ pc[p] \notin SavePoints \cup {"stamp"} /\ pc'[p] \notin SavePoints \cup {"stamp"}
          /\ parsed' = parsed /\ records' = records /\ fails' = fails /\ UNCHANGED disk
        BY <1>2, <1>t DEF Scan, LoadManifest, Rebuild, Compare, Compared, Goto, SavePoints
    <2>2. Recording(p)' /\ Saved(p)'
        BY <1>d, <2>1 DEF Recording, Saved, Recorded, SavePoints
    <2>3. \A q \in Run : q # p => pc'[q] = pc[q]
        BY <1>2, OthersRest DEF Rests, StepOf, Step
    <2>4. DiskInv'
        BY <1>d, <2>1, <2>3, DiskStays DEF Saving, SavePoints
    <2> QED BY <1>2, <2>1, <2>2, <2>4, DescribeLocal DEF StepOf, Step, disk
<1>3. ASSUME NEW p \in Run, NEW g \in File, Parse(p, g) PROVE DescribeInv'
    <2>1. /\ pc' = pc /\ pc[p] = "parse" /\ records' = records /\ fails' = fails /\ UNCHANGED disk
          /\ parsed'[p][g] = Indexed(src)[g]
          /\ \A f \in File : f # g => parsed'[p][f] = parsed[p][f]
        BY <1>3, <1>t DEF Parse, Graph
    <2>2. records[p] = NoRecords
        BY <1>d, <2>1 DEF Recording, SavePoints
    <2>3. Recording(p)' /\ Saved(p)'
        BY <1>d, <2>1, <2>2, IndexedIndexable DEF Recording, Saved, Recorded, NoRecords
    <2>4. DiskInv'
        BY <1>d, <2>1, DiskStays DEF Saving
    <2> QED BY <1>3, <2>1, <2>3, <2>4, DescribeLocal DEF StepOf, Step, disk
<1>4. ASSUME NEW p \in Run, BuildStore(p) PROVE DescribeInv'
    <2>1. /\ pc' = [pc EXCEPT ![p] = "stamp"] /\ pc[p] = "parse" /\ parsed' = parsed
          /\ records' = records /\ fails' = fails /\ UNCHANGED disk
        BY <1>4 DEF BuildStore, Goto
    <2>2. Recording(p)' /\ Saved(p)'
        BY <1>d, <1>t, <2>1 DEF Recording, Saved, Recorded, SavePoints
    <2>3. DiskInv'
        BY <1>d, <1>t, <2>1, DiskStays DEF Saving
    <2> QED BY <1>4, <2>1, <2>2, <2>3, DescribeLocal DEF StepOf, Step, disk
<1>5. ASSUME NEW p \in Run, NEW g \in File, Stamp(p, g) PROVE DescribeInv'
    <2>1. /\ pc' = pc /\ pc[p] = "stamp" /\ parsed' = parsed /\ fails' = fails /\ UNCHANGED disk
          /\ records'[p][g] = FromParts(g, parsed[p][g])
          /\ \A f \in File : f # g => records'[p][f] = records[p][f]
        BY <1>5, <1>t DEF Stamp, Manifest
    <2>2. parsed[p][g] # Absent
        BY <1>5 DEF Stamp, TypeInv, StampsParsed, Present
    <2>3. records'[p][g] # NoRecord => records'[p][g].hash = ParsedHash(g, parsed[p][g])
        BY <2>1 DEF FromParts
    <2>4. Recording(p)' /\ Saved(p)'
        BY <1>d, <2>1, <2>2, <2>3 DEF Recording, Saved, Recorded, SavePoints
    <2>5. DiskInv'
        BY <1>d, <2>1, DiskStays DEF Saving
    <2> QED BY <1>5, <2>1, <2>4, <2>5, DescribeLocal DEF StepOf, Step, disk
\* The saves.
<1>6. ASSUME NEW p \in Run, TruncateStore(p) PROVE DescribeInv'
    <2>1. /\ pc' = [pc EXCEPT ![p] = "store"] /\ pc[p] = "stamp" /\ parsed' = parsed
          /\ records' = records /\ body' = Torn
        BY <1>6 DEF TruncateStore, Goto, progress
    <2>2. Recording(p)' /\ Saved(p)'
        BY <1>d, <1>t, <2>1 DEF Recording, Saved, Recorded, SavePoints
    <2>3. DiskInv'
        BY <1>t, <2>1 DEF DiskInv, Saving, SidecarDescribesBody
    <2> QED BY <1>6, <2>1, <2>2, <2>3, DescribeLocal DEF StepOf, Step
<1>7. ASSUME NEW p \in Run, FillStore(p) PROVE DescribeInv'
    <2>1. /\ pc' = [pc EXCEPT ![p] = "saved"] /\ pc[p] = "store" /\ parsed' = parsed
          /\ records' = records /\ body' = parsed[p] /\ header' = "current"
        BY <1>7 DEF FillStore, Goto, progress
    <2>2. Recording(p)' /\ Saved(p)'
        BY <1>d, <1>t, <2>1 DEF Recording, Saved, Recorded, SavePoints
    <2>3. DiskInv'
        BY <1>d, <1>t, <2>1 DEF DiskInv, Saving, SidecarDescribesBody, Recording
    <2> QED BY <1>7, <2>1, <2>2, <2>3, DescribeLocal DEF StepOf, Step
<1>8. ASSUME NEW p \in Run, TruncateSidecar(p) PROVE DescribeInv'
    <2>1. /\ pc' = [pc EXCEPT ![p] = "sidecar"] /\ pc[p] = "saved" /\ parsed' = parsed
          /\ records' = records /\ body' = body /\ header' = header
        BY <1>8 DEF TruncateSidecar, Goto, progress
    <2>2. Recording(p)' /\ Saved(p)'
        BY <1>d, <1>t, <2>1 DEF Recording, Saved, Recorded, SavePoints
    <2>3. DiskInv'
        BY <1>d, <1>t, <2>1 DEF DiskInv, Saving, SidecarDescribesBody
    <2> QED BY <1>8, <2>1, <2>2, <2>3, DescribeLocal DEF StepOf, Step
<1>9. ASSUME NEW p \in Run, FillSidecar(p) PROVE DescribeInv'
    <2>1. /\ pc' = [pc EXCEPT ![p] = "idle"] /\ pc[p] = "sidecar"
          /\ parsed' = [parsed EXCEPT ![p] = Nothing]
          /\ records' = [records EXCEPT ![p] = NoRecords] /\ fails' = fails
          /\ body' = body /\ header' = header /\ sidecar' = NewManifest(p)
        BY <1>9 DEF FillSidecar, Answer, Goto
    <2>2. Recording(p)' /\ Saved(p)'
        BY <1>t, <2>1, ContentAssumption
           DEF Recording, Saved, Recorded, NoRecords, Nothing, SavePoints
    <2>3. body = parsed[p] /\ body # Torn
        BY <1>d, <1>n, <1>t, <2>1 DEF Saved
    <2>4. \A f \in Recorded(sidecar') :
              body[f] # Absent /\ sidecar'[f].hash = ParsedHash(f, body[f])
        BY <1>d, <2>1, <2>3 DEF Recording, Recorded, NewManifest
    <2>5. DiskInv'
        BY <1>d, <2>1, <2>3, <2>4 DEF DiskInv, SidecarDescribesBody, Recorded
    <2> QED BY <1>9, <2>1, <2>2, <2>5, DescribeLocal DEF StepOf, Step
<1>10. ASSUME NEW f \in File, NEW c \in FileState, Edit(f, c) \/ UNCHANGED vars
       PROVE  DescribeInv'
    <2>1. UNCHANGED <<disk, fails>> /\ \A q \in Run : Rests(q)
        BY <1>10, EditRests
    <2>2. DiskInv'
        BY <1>d, <2>1, DiskStays DEF Saving, Rests
    <2>3. \A q \in Run : Recording(q)' /\ Saved(q)'
        BY <1>d, <2>1 DEF Recording, Saved, Recorded, Rests, disk
    <2> QED BY <2>2, <2>3 DEF DescribeInv
<1>11. CASE UNCHANGED vars
    <2>1. UNCHANGED <<disk, fails, pc>>
        BY <1>11 DEF vars
    <2>2. DiskInv'
        BY <1>d, <2>1, DiskStays DEF Saving
    <2>3. \A q \in Run : Recording(q)' /\ Saved(q)'
        BY <1>11, <1>d DEF vars, Recording, Saved, Recorded, disk, progress
    <2> QED BY <2>2, <2>3 DEF DescribeInv
<1> QED BY <1>1, <1>2, <1>3, <1>4, <1>5, <1>6, <1>7, <1>8, <1>9, <1>10, <1>11
        DEF Next, Calm, Step

\* As long as no save failed and no run crashed, the manifest describes the graph beside it
\* (SidecarDescribesBody), whatever is edited meanwhile: every fingerprint is of content
\* which the run parsed, and the store is whole when it is recorded.
THEOREM ManifestDescribesGraph ==
    ASSUME Serial = TRUE
    PROVE  Spec => [](fails = 0 => SidecarDescribesBody)
<1> DEFINE Inv == TypeInv /\ OneAtWork /\ DescribeInv
<1>1. Inv => (fails = 0 => SidecarDescribesBody)
    BY DEF DescribeInv, DiskInv
<1>2. Init => Inv
    BY TypeInit, OneAtWorkInit, DescribeInit
<1>3. Inv /\ [Next]_vars => Inv'
    BY TypeStep, OneAtWorkStep, DescribeStep
<1> QED BY <1>1, <1>2, <1>3, PTL DEF Spec

-----------------------------------------------------------------------------
(* What the answers say of the graph on disk. *)

\* Who vouches for the graph, and when.
LEMMA WhoVouches ==
    ASSUME TypeInv, [Next]_vars, NEW p \in Run,
           NEW v \in {"up to date", "in sync", "rebuilt"}, Answers(p, v)
    PROVE  \/ v = "in sync" /\ DiffDone(p) /\ ~dirty[p]
           \/ v = "up to date" /\ ShortCut(p)
           \/ v = "rebuilt" /\ FillSidecar(p)
<1>1. verdict'[p] = v /\ verdict'[p] # verdict[p]
    BY DEF Answers
<1>2. StepOf(p)
    <2>1. ASSUME NEW q \in Run, StepOf(q), q # p PROVE FALSE
        BY <1>1, <2>1, OthersRest DEF Rests
    <2>2. ASSUME NEW f \in File, NEW c \in FileState, Edit(f, c) PROVE FALSE
        BY <1>1, <2>2 DEF Edit
    <2>3. CASE UNCHANGED vars
        BY <1>1, <2>3 DEF vars
    <2> QED BY <2>1, <2>2, <2>3, NextSteps
<1>3. verdict \in [Run -> {"none", "in sync", "changed", "up to date", "rebuilt", "error"}]
    BY DEF TypeInv, TypeOK
<1>4. CASE DiffDone(p)
    BY <1>1, <1>3, <1>4 DEF DiffDone, Answer
<1>5. CASE ShortCut(p)
    BY <1>1, <1>3, <1>5 DEF ShortCut, Answer
<1>6. CASE FillSidecar(p)
    BY <1>1, <1>3, <1>6 DEF FillSidecar, Answer
<1>7. CASE SaveFails(p) \/ Crash(p) \/ \E j \in {"analyze", "diff"} : Scan(p, j)
    BY <1>1, <1>3, <1>7 DEF SaveFails, Crash, Scan, Answer
<1>8. verdict' = verdict \/ DiffDone(p) \/ ShortCut(p) \/ FillSidecar(p) \/ SaveFails(p)
      \/ Crash(p) \/ \E j \in {"analyze", "diff"} : Scan(p, j)
    BY <1>2 DEF StepOf, Step, LoadManifest, Compare, Rebuild, Parse, BuildStore, Stamp,
                TruncateStore, FillStore, TruncateSidecar
<1> QED BY <1>1, <1>4, <1>5, <1>6, <1>7, <1>8

\* A run which nobody disturbed saved the sources.
LEMMA SavedIsFresh ==
    ASSUME TypeInv, CaptureInv, NEW p \in Run, Undisturbed(p),
           pc[p] \in {"stamp", "store", "saved", "sidecar"}
    PROVE  parsed[p] = Indexed(src)
<1>1. parsed[p] \in [File -> FileState]
    BY DEF TypeInv, TypeOK, Graph
<1>2. \A f \in File : parsed[p][f] = Indexed(src)[f]
    BY DEF CaptureInv, Knows, Undisturbed
<1>3. Indexed(src) = [f \in File |-> Indexed(src)[f]]
    BY DEF Indexed
<1> QED BY <1>1, <1>2, <1>3

LEMMA RebuiltStep ==
    ASSUME TypeInv, CaptureInv, DescribeInv, [Next]_vars, NEW p \in Run,
           Answers(p, "rebuilt"), Undisturbed(p)
    PROVE  OnDiskIsFresh
<1>1. pc[p] = "sidecar"
    BY WhoVouches DEF FillSidecar
<1> QED BY <1>1, SavedIsFresh DEF DescribeInv, Saved, OnDiskIsFresh

\* When runs exclude one another, one which answers "rebuilt" leaves the sources on disk
\* unless they changed while it was under way (RebuiltIsFresh), whatever the runs before
\* it left there: it parses every file, and nobody else writes between its saves.
THEOREM RebuildsAreFresh == ASSUME Serial = TRUE PROVE Spec => RebuiltIsFresh
<1> DEFINE Inv == TypeInv /\ CaptureInv /\ OneAtWork /\ DescribeInv
<1>1. Init => Inv
    BY TypeInit, CaptureInit, OneAtWorkInit, DescribeInit
<1>2. Inv /\ [Next]_vars => Inv'
    BY TypeStep, CaptureStep, OneAtWorkStep, DescribeStep
<1>3. Inv /\ [Next]_vars =>
          [\A p \in Run : Answers(p, "rebuilt") /\ Undisturbed(p) => OnDiskIsFresh]_vars
    BY RebuiltStep
<1> QED BY <1>1, <1>2, <1>3, PTL DEF Spec, RebuiltIsFresh

-----------------------------------------------------------------------------
(* What a run compares. *)

\* A run compares with the manifest on disk, and as long as it found no change, every
\* recorded file was found, and what it looked at and was left alone since it began is as
\* recorded.
Comparing(p) ==
    pc[p] = "compare" =>
        /\ manifest[p] = sidecar
        /\ todo[p] \subseteq found[p]
        /\ ~dirty[p] =>
              /\ Recorded(sidecar) \subseteq found[p]
              /\ \A f \in found[p] \ todo[p] : mtime[f] <= since[p] => ~Differs(f, sidecar[f])

CompareInv == \A p \in Run : Comparing(p)

LEMMA CompareInit == Init => CompareInv
BY DEF Init, CompareInv, Comparing

\* What is edited is newer than every run.
LEMMA EditIsNew ==
    ASSUME TypeInv, CaptureInv, NEW g \in File, NEW c \in FileState, Edit(g, c)
    PROVE  /\ \A p \in Run : ~(mtime'[g] <= since[p])
           /\ ~(mtime'[g] <= bodySince)
           /\ \A f \in File : f # g => mtime'[f] = mtime[f] /\ src'[f] = src[f]
<1>1. clock \in Nat /\ bodySince \in Nat /\ \A p \in Run : since[p] \in Nat
    BY Times
<1>2. mtime'[g] = clock + 1
      /\ \A f \in File : f # g => mtime'[f] = mtime[f] /\ src'[f] = src[f]
    BY DEF Edit, TypeInv, TypeOK, Graph
<1>3. bodySince <= clock /\ \A p \in Run : since[p] <= clock
    BY DEF CaptureInv, InThePast
<1> QED BY <1>1, <1>2, <1>3

\* A step of one run leaves what another compares.
LEMMA CompareLocal ==
    ASSUME TypeInv, OneAtWork, CompareInv, NEW p \in Run, StepOf(p), Comparing(p)'
    PROVE  CompareInv'
<1>1. ASSUME NEW q \in Run, q # p PROVE Comparing(q)'
    <2>1. Rests(q) /\ UNCHANGED sources
        BY <1>1, OthersRest, DiskChanges
    <2>2. UNCHANGED sidecar \/ pc[p] # "idle"
        BY DiskChanges DEF disk, TruncateSidecar, FillSidecar, TruncateStore, FillStore
    <2>3. pc[q] = "compare" => sidecar' = sidecar
        BY <1>1, <2>2 DEF OneAtWork
    <2> QED BY <2>1, <2>3 DEF CompareInv, Comparing, Rests, Recorded, Differs, sources
<1> QED BY <1>1 DEF CompareInv

\* Who compares has loaded the manifest or goes on comparing.
LEMMA ComparesAgain ==
    ASSUME TypeInv, NEW p \in Run, StepOf(p), pc'[p] = "compare"
    PROVE  LoadManifest(p) \/ \E g \in File : Compare(p, g)
<1>1. pc \in [Run -> {"idle", "manifest", "compare", "parse", "stamp", "store", "saved",
                      "sidecar"}]
    BY DEF TypeInv, TypeOK
<1> QED BY <1>1 DEF StepOf, Step, Scan, DiffDone, ShortCut, Rebuild, Parse, BuildStore, Stamp,
        TruncateStore, FillStore, TruncateSidecar, FillSidecar, SaveFails, Crash, Goto, Answer

LEMMA CompareStep ==
    ASSUME TypeInv, CaptureInv, OneAtWork, CompareInv, [Next]_vars
    PROVE  CompareInv'
<1>t. /\ pc \in [Run -> {"idle", "manifest", "compare", "parse", "stamp", "store", "saved",
                         "sidecar"}]
      /\ todo \in [Run -> SUBSET File] /\ dirty \in [Run -> BOOLEAN]
      /\ manifest \in [Run -> Manifest]
    BY DEF TypeInv, TypeOK
<1>1. ASSUME NEW p \in Run, LoadManifest(p) PROVE CompareInv'
    <2>1. /\ manifest'[p] = sidecar /\ UNCHANGED <<disk, sources, found, since>>
          /\ todo'[p] = found[p] /\ dirty'[p] = (Recorded(sidecar) \ found[p] # {})
        BY <1>1, <1>t DEF LoadManifest
    <2>2. Comparing(p)'
        BY <2>1 DEF Comparing, Recorded, disk
    <2> QED BY <1>1, <2>2, CompareLocal DEF StepOf, Step
<1>2. ASSUME NEW p \in Run, NEW g \in File, Compare(p, g) PROVE CompareInv'
    <2>1. /\ pc' = pc /\ pc[p] = "compare" /\ UNCHANGED <<disk, sources, found, since, manifest>>
          /\ todo'[p] = todo[p] \ {g}
        BY <1>2, <1>t DEF Compare
    <2>2. ~dirty'[p] => ~dirty[p] /\ ~Differs(g, manifest[p][g])
        BY <1>2, <1>t, Zenon DEF Compare
    <2>3. Comparing(p)
        BY DEF CompareInv
    <2>4. Comparing(p)'
        BY <2>1, <2>2, <2>3 DEF Comparing, Recorded, Differs, disk, sources
    <2> QED BY <1>2, <2>4, CompareLocal DEF StepOf, Step
<1>3. ASSUME NEW p \in Run, StepOf(p), pc'[p] # "compare" PROVE CompareInv'
    <2>1. Comparing(p)'
        BY <1>3 DEF Comparing
    <2> QED BY <1>3, <2>1, CompareLocal
<1>4. ASSUME NEW p \in Run, StepOf(p), pc'[p] = "compare"
      PROVE  LoadManifest(p) \/ \E g \in File : Compare(p, g)
    BY <1>4, ComparesAgain
<1>5. ASSUME NEW g \in File, NEW c \in FileState, Edit(g, c) PROVE CompareInv'
    <2>1. UNCHANGED disk /\ \A q \in Run : Rests(q)
        BY <1>5, EditRests
    <2> SUFFICES ASSUME NEW p \in Run PROVE Comparing(p)'
        BY DEF CompareInv
    <2>2. Comparing(p) /\ found[p] \subseteq File
        BY DEF CompareInv, TypeInv, TypeOK
    <2>3. ASSUME NEW f \in File, mtime'[f] <= since[p]
          PROVE  mtime[f] <= since[p] /\ (Differs(f, sidecar[f])' <=> Differs(f, sidecar[f]))
        <3>1. mtime'[f] = mtime[f] /\ src'[f] = src[f]
            BY <1>5, <2>3, EditIsNew
        <3> QED BY <2>1, <2>3, <3>1 DEF Differs, disk
    <2> QED BY <2>1, <2>2, <2>3 DEF Comparing, Rests, Recorded, disk
<1>6. CASE UNCHANGED vars
    BY <1>6 DEF vars, sources, disk, progress, CompareInv, Comparing, Recorded, Differs
<1> QED BY <1>1, <1>2, <1>3, <1>4, <1>5, <1>6, NextSteps

\* A run which found no change, on a manifest which describes the graph and was stamped
\* in time, while nobody disturbed it: the graph on disk shows the sources.
LEMMA UnchangedIsFresh ==
    ASSUME TypeInv, CaptureInv, OneAtWork, DescribeInv, CompareInv, fails = 0, StampedInTime,
           NEW p \in Run, Compared(p), ~dirty[p], Undisturbed(p)
    PROVE  OnDiskIsFresh
<1>1. pc[p] = "compare" /\ todo[p] = {}
    BY DEF Compared
<1>2. ~Saving
    BY <1>1 DEF OneAtWork, Saving
<1>3. /\ body # Torn /\ \A f \in File : body[f] \notin Unindexable
      /\ header = "absent" => body = Nothing
      /\ SidecarDescribesBody
    BY <1>2 DEF DescribeInv, DiskInv
<1>4. /\ Recorded(sidecar) \subseteq found[p]
      /\ \A f \in found[p] : ~Differs(f, sidecar[f])
    <2>1. found[p] \subseteq File
        BY DEF TypeInv, TypeOK
    <2> QED BY <1>1, <2>1 DEF CompareInv, Comparing, Undisturbed
<1>5. \A f \in File : f \in found[p] <=> src[f] # Absent
    BY <1>1 DEF CaptureInv, Knows, Undisturbed
<1>6. ASSUME NEW f \in File, src[f] = Absent PROVE body[f] = Indexed(src)[f]
    <2>1. body[f] = Absent
        BY <1>4, <1>5, <1>6 DEF StampedInTime
    <2> QED BY <1>6, <2>1 DEF Indexed
<1>7. ASSUME NEW f \in File, src[f] # Absent PROVE body[f] = Indexed(src)[f]
    <2>1. ~Differs(f, sidecar[f])
        BY <1>4, <1>5, <1>7
    <2>2. f \in Recorded(sidecar) /\ body[f] # Absent
        BY <1>2, <1>3, <2>1 DEF Differs, Recorded, SidecarDescribesBody
    <2>3. CASE mtime[f] = sidecar[f].mtime
        <3>1. mtime[f] <= bodySince
            BY <2>2, <2>3 DEF StampedInTime
        <3>2. header # "absent"
            BY <1>3, <2>2 DEF Nothing
        <3> QED BY <1>3, <3>1, <3>2 DEF CaptureInv, CapturesUntouched
    <2>4. CASE ByteHash(src[f]) = sidecar[f].hash
        <3>1. ByteHash(src[f]) = ParsedHash(f, body[f])
            BY <1>2, <1>3, <2>2, <2>4 DEF SidecarDescribesBody
        <3>2. body[f] = src[f]
            BY <3>1 DEF ByteHash, ParsedHash
        <3> QED BY <1>3, <3>2 DEF Indexed
    <2> QED BY <1>7, <2>1, <2>3, <2>4 DEF Differs
<1>8. body \in [File -> FileState]
    BY <1>3 DEF TypeInv, TypeOK, Graph
<1>9. Indexed(src) = [f \in File |-> Indexed(src)[f]]
    BY DEF Indexed
<1> QED BY <1>6, <1>7, <1>8, <1>9 DEF OnDiskIsFresh

\* The answers "up to date" and "in sync" are right under the same conditions, edits
\* during the run or not.
LEMMA UpToDateStep ==
    ASSUME TypeInv, CaptureInv, OneAtWork, DescribeInv, CompareInv, [Next]_vars,
           fails = 0, StampedInTime, NEW p \in Run,
           Answers(p, "up to date") \/ Answers(p, "in sync"), Undisturbed(p)
    PROVE  OnDiskIsFresh
<1>1. Compared(p) /\ ~dirty[p]
    BY WhoVouches DEF DiffDone, ShortCut, UpToDate
<1> QED BY <1>1, UnchangedIsFresh

-----------------------------------------------------------------------------
(* The graph on disk only gets newer. *)

\* A run at work began after the graph on disk was begun, and what it saved is that graph.
Aged ==
    \A p \in Run :
        /\ pc[p] # "idle" => bodySince <= since[p]
        /\ pc[p] \in {"saved", "sidecar"} => since[p] = bodySince

LEMMA AgedInit == Init => Aged
BY DEF Init, Aged

\* Run p goes to l, from where it cannot come to have saved what it did not.
Moves(p, l) ==
    /\ Goto(p, l)
    /\ \/ l = "idle"
       \/ l = "sidecar" /\ pc[p] = "saved"
       \/ l \notin {"saved", "sidecar"} /\ pc[p] # "idle"

\* With one run at work at a time the graph on disk only gets newer.
LEMMA AgedStep ==
    ASSUME TypeInv, CaptureInv, Aged, OneAtWork, [Next]_vars
    PROVE  Aged' /\ bodySince' \in Nat /\ bodySince <= bodySince'
<1>t. /\ pc \in [Run -> {"idle", "manifest", "compare", "parse", "stamp", "store", "saved",
                         "sidecar"}]
      /\ since \in [Run -> 0 .. MaxTime]
    BY DEF TypeInv, TypeOK
<1>1. ASSUME NEW p \in Run, NEW j \in {"analyze", "diff"}, Scan(p, j)
      PROVE  Aged' /\ bodySince' = bodySince
    <2>1. pc' = [pc EXCEPT ![p] = "manifest"] /\ since' = [since EXCEPT ![p] = clock]
          /\ bodySince' = bodySince /\ bodySince <= clock
        BY <1>1 DEF Scan, Goto, disk, CaptureInv, InThePast
    <2> QED BY <1>t, <2>1 DEF Aged
<1>2. ASSUME NEW p \in Run, FillStore(p)
      PROVE  Aged' /\ bodySince' = since[p] /\ bodySince <= since[p]
    <2>1. pc[p] = "store" /\ pc' = [pc EXCEPT ![p] = "saved"] /\ since' = since
          /\ bodySince' = since[p]
        BY <1>2 DEF FillStore, Goto
    <2>2. \A q \in Run : q # p => pc[q] = "idle"
        BY <2>1 DEF OneAtWork
    <2> QED BY <1>t, <2>1, <2>2, Times DEF Aged
<1>3. ASSUME since' = since, bodySince' = bodySince,
             pc' = pc \/ \E p \in Run : \E l : Moves(p, l)
      PROVE  Aged' /\ bodySince' = bodySince
    BY <1>t, <1>3 DEF Aged, Moves, Goto
<1>4. ASSUME NEW p \in Run,
             \/ LoadManifest(p) \/ DiffDone(p) \/ ShortCut(p) \/ Rebuild(p) \/ BuildStore(p)
             \/ TruncateStore(p) \/ TruncateSidecar(p) \/ FillSidecar(p) \/ SaveFails(p)
             \/ Crash(p)
      PROVE  Aged' /\ bodySince' = bodySince
    <2>1. since' = since /\ bodySince' = bodySince
        BY <1>4 DEF LoadManifest, DiffDone, ShortCut, Rebuild, BuildStore, TruncateStore,
                    TruncateSidecar, FillSidecar, SaveFails, Crash, Answer, disk
    <2>2. \/ Moves(p, "compare") \/ Moves(p, "parse") \/ Moves(p, "stamp")
          \/ Moves(p, "store") \/ Moves(p, "sidecar") \/ Moves(p, "idle")
        BY <1>4 DEF LoadManifest, DiffDone, ShortCut, Rebuild, BuildStore, TruncateStore,
                    TruncateSidecar, FillSidecar, SaveFails, Crash, Answer, Compared, Moves
    <2> QED BY <1>3, <2>1, <2>2
<1>5. ASSUME \/ \E p \in Run, f \in File : Compare(p, f) \/ Parse(p, f) \/ Stamp(p, f)
             \/ \E f \in File, c \in FileState : Edit(f, c)
             \/ UNCHANGED vars
      PROVE  Aged' /\ bodySince' = bodySince
    BY <1>3, <1>5 DEF Compare, Parse, Stamp, Edit, vars, disk
<1> QED BY <1>1, <1>2, <1>4, <1>5, Times DEF Next, Calm, Step

-----------------------------------------------------------------------------
(* Sources which rest while a run is at work, and saves which do not fail. *)

\* What a run found is still there, and as old as it was.
Resting(p) == pc[p] # "idle" => Undisturbed(p) /\ found[p] = Present(src)

RestInv == \A p \in Run : Resting(p)

\* A step of a run which is at work keeps when it began and what it found.
LEMMA StaysAtWork ==
    ASSUME TypeInv, NEW p \in Run, StepOf(p), pc'[p] # "idle"
    PROVE  \/ \E j \in {"analyze", "diff"} : Scan(p, j)
           \/ pc[p] # "idle" /\ since'[p] = since[p] /\ found'[p] = found[p]
<1>1. pc \in [Run -> {"idle", "manifest", "compare", "parse", "stamp", "store", "saved",
                      "sidecar"}]
    BY DEF TypeInv, TypeOK
<1> QED BY <1>1 DEF StepOf, Step, LoadManifest, Compare, DiffDone, ShortCut, Compared, Rebuild,
        Parse, BuildStore, Stamp, TruncateStore, FillStore, TruncateSidecar, FillSidecar,
        SaveFails, Crash, Answer, Goto, progress

LEMMA RestInit == Init => RestInv
BY DEF Init, RestInv, Resting

LEMMA RestStep ==
    ASSUME QuietEdits = TRUE, TypeInv, CaptureInv, RestInv, [Next]_vars
    PROVE  RestInv'
<1>1. ASSUME NEW p \in Run, StepOf(p) PROVE RestInv'
    <2>1. UNCHANGED sources /\ \A q \in Run : q # p => Rests(q)
        BY <1>1, DiskChanges, OthersRest
    <2>2. \A q \in Run : q # p => Resting(q)'
        BY <2>1 DEF RestInv, Resting, Rests, Undisturbed, Present, sources
    <2>3. CASE \E j \in {"analyze", "diff"} : Scan(p, j)
        <3>1. since'[p] = clock /\ found'[p] = Present(src)
            BY ZenonT(30), <2>3 DEF Scan, TypeInv, TypeOK
        <3>2. Resting(p)'
            BY <2>1, <3>1 DEF Resting, Undisturbed, Present, CaptureInv, InThePast, sources
        <3> QED BY <2>2, <3>2 DEF RestInv
    <2>4. CASE pc'[p] = "idle"
        BY <2>2, <2>4 DEF RestInv, Resting
    <2>5. CASE pc[p] # "idle" /\ since'[p] = since[p] /\ found'[p] = found[p]
        <3>1. Resting(p)'
            BY <2>1, <2>5 DEF RestInv, Resting, Undisturbed, Present, sources
        <3> QED BY <2>2, <3>1 DEF RestInv
    <2> QED BY <1>1, <2>3, <2>4, <2>5, StaysAtWork
<1>2. ASSUME NEW f \in File, NEW c \in FileState, Edit(f, c) PROVE RestInv'
    BY <1>2 DEF Edit, RestInv, Resting
<1>3. CASE UNCHANGED vars
    BY <1>3 DEF vars, sources, progress, RestInv, Resting, Undisturbed, Present
<1> QED BY <1>1, <1>2, <1>3, NextSteps

\* What a run stamped has the mtime it has now, and it saves when all is stamped.
Stamping(p) ==
    pc[p] \in SavePoints \cup {"stamp"} =>
        /\ \A f \in Present(parsed[p]) \ todo[p] : records[p][f] = FromParts(f, parsed[p][f])
        /\ pc[p] # "stamp" => todo[p] = {}

StampInv == \A p \in Run : Stamping(p)

LEMMA StampInit == Init => StampInv
BY DEF Init, StampInv, Stamping, SavePoints

LEMMA StampStep ==
    ASSUME QuietEdits = TRUE, TypeInv, StampInv, [Next]_vars
    PROVE  StampInv'
<1>t. /\ pc \in [Run -> {"idle", "manifest", "compare", "parse", "stamp", "store", "saved",
                         "sidecar"}]
      /\ todo \in [Run -> SUBSET File] /\ records \in [Run -> Manifest]
    BY DEF TypeInv, TypeOK
<1>1. ASSUME NEW p \in Run, StepOf(p), Stamping(p)' PROVE StampInv'
    <2>1. UNCHANGED sources /\ \A q \in Run : q # p => Rests(q)
        BY <1>1, DiskChanges, OthersRest
    <2>2. \A q \in Run : q # p => Stamping(q)'
        BY <2>1 DEF StampInv, Stamping, Rests, Present, FromParts, sources
    <2> QED BY <1>1, <2>2 DEF StampInv
<1>2. ASSUME NEW p \in Run, BuildStore(p) PROVE StampInv'
    <2>1. pc'[p] = "stamp" /\ todo'[p] = Present(parsed'[p])
        BY <1>2, <1>t DEF BuildStore, Goto
    <2> QED BY <1>1, <1>2, <2>1 DEF Stamping, StepOf, Step
<1>3. ASSUME NEW p \in Run, NEW g \in File, Stamp(p, g) PROVE StampInv'
    <2>1. /\ pc' = pc /\ pc[p] = "stamp" /\ parsed' = parsed /\ UNCHANGED sources
          /\ todo'[p] = todo[p] \ {g}
          /\ records'[p][g] = FromParts(g, parsed[p][g])
          /\ \A f \in File : f # g => records'[p][f] = records[p][f]
        BY <1>3, <1>t DEF Stamp, Manifest
    <2>2. \A f \in File : FromParts(f, parsed[p][f])' = FromParts(f, parsed[p][f])
        BY <2>1 DEF FromParts, sources
    <2>3. Stamping(p)'
        BY <2>1, <2>2 DEF StampInv, Stamping, Present
    <2> QED BY <1>1, <1>3, <2>3 DEF StepOf, Step
<1>4. ASSUME NEW p \in Run, TruncateStore(p) \/ FillStore(p) \/ TruncateSidecar(p)
      PROVE  StampInv'
    <2>1. /\ pc[p] \in SavePoints \cup {"stamp"} /\ (pc[p] = "stamp" => todo[p] = {})
          /\ UNCHANGED <<sources, progress>>
        BY <1>4 DEF TruncateStore, FillStore, TruncateSidecar, SavePoints
    <2>2. Stamping(p)'
        BY <2>1 DEF StampInv, Stamping, Present, FromParts, sources, progress
    <2> QED BY <1>1, <1>4, <2>2 DEF StepOf, Step
<1>5. ASSUME NEW p \in Run, StepOf(p), pc'[p] \notin SavePoints \cup {"stamp"} PROVE StampInv'
    BY <1>1, <1>5 DEF Stamping
<1>6. ASSUME NEW p \in Run, StepOf(p), pc'[p] \in SavePoints \cup {"stamp"}
      PROVE  \/ BuildStore(p) \/ \E g \in File : Stamp(p, g)
             \/ TruncateStore(p) \/ FillStore(p) \/ TruncateSidecar(p)
    BY <1>t, <1>6 DEF StepOf, Step, Scan, LoadManifest, Compare, DiffDone, ShortCut, Compared,
           Rebuild, Parse, FillSidecar, SaveFails, Crash, Goto, Answer, SavePoints
<1>7. ASSUME NEW f \in File, NEW c \in FileState, Edit(f, c) PROVE StampInv'
    BY <1>7 DEF Edit, StampInv, Stamping, SavePoints
<1>8. CASE UNCHANGED vars
    BY <1>8 DEF vars, sources, progress, StampInv, Stamping, Present, FromParts
<1> QED BY <1>2, <1>3, <1>4, <1>5, <1>6, <1>7, <1>8, NextSteps

\* Between two saves every file the graph shows was recorded in time, and as old as it is
\* if it was left alone since.
Kept ==
    ~Saving =>
        /\ StampedInTime
        /\ \A f \in Recorded(sidecar) : mtime[f] <= bodySince => sidecar[f].mtime = mtime[f]

LEMMA KeptInit == Init => Kept
<1> SUFFICES ASSUME Init PROVE Kept
    OBVIOUS
<1>1. body # Torn
    BY IndexedType, TornIsNoGraph DEF Init, Graph
<1>2. CASE sidecar = NoRecords /\ body = Nothing
    BY <1>1, <1>2 DEF Init, Kept, StampedInTime, Recorded, NoRecords, Nothing
<1>3. CASE sidecar = [f \in File |->
                         IF body[f] = Absent THEN NoRecord
                         ELSE [hash |-> ParsedHash(f, body[f]), mtime |-> 0]]
    <2>1. \A f \in File : body[f] # Absent => sidecar[f] # NoRecord /\ sidecar[f].mtime = 0
        <3>1. \A f \in File : body[f] \in FileState
            BY IndexedType, TornIsNoGraph DEF Init, Graph
        <3>2. \A f \in File : body[f] # Absent =>
                  [hash |-> ParsedHash(f, body[f]), mtime |-> 0] # NoRecord
            BY <3>1, RecordAssumption DEF ParsedHash, ByteHash, FileState
        <3> QED BY <1>3, <3>2
    <2>2. \A f \in File : body[f] = Absent => sidecar[f] = NoRecord
        BY <1>3
    <2>3. bodySince = 0 /\ \A f \in File : mtime[f] = 0
        BY DEF Init
    <2> QED BY <1>1, <2>1, <2>2, <2>3 DEF Kept, StampedInTime, Recorded
<1> QED BY <1>2, <1>3 DEF Init

\* A run which ends a save on sources which rested recorded every file of its graph.
LEMMA KeptBySave ==
    ASSUME TypeInv, CaptureInv, DescribeInv, Aged, RestInv, StampInv,
           NEW p \in Run, FillSidecar(p)
    PROVE  Kept'
<1>1. /\ pc[p] = "sidecar" /\ sidecar' = NewManifest(p)
      /\ UNCHANGED <<sources, body, bodySince>>
    BY DEF FillSidecar
<1>2. Undisturbed(p) /\ found[p] = Present(src)
    BY <1>1 DEF RestInv, Resting
<1>3. parsed[p] = Indexed(src) /\ body = parsed[p] /\ since[p] = bodySince
    BY <1>1, <1>2, SavedIsFresh DEF DescribeInv, Saved, Aged
<1>4. body # Torn
    BY <1>3, TornIsNoGraph DEF TypeInv, TypeOK
<1>5. ASSUME NEW f \in File, body[f] = Absent PROVE sidecar'[f] = NoRecord
    BY <1>1, <1>3, <1>5 DEF NewManifest, DescribeInv, Recording, Recorded
<1>6. ASSUME NEW f \in File, body[f] # Absent
      PROVE  sidecar'[f] # NoRecord /\ sidecar'[f].mtime = mtime[f]
    <2>1. src[f] # Absent /\ body[f] = src[f] /\ src[f] \in Content
        BY <1>3, <1>6 DEF Indexed, TypeInv, TypeOK, Graph, FileState
    <2>2. records[p][f] = FromParts(f, parsed[p][f])
        BY <1>1, <1>3, <1>6 DEF StampInv, Stamping, SavePoints, Present
    <2>3. records[p][f] = [hash |-> ParsedHash(f, src[f]), mtime |-> mtime[f]]
        BY <1>3, <2>1, <2>2 DEF FromParts
    <2>4. records[p][f] # NoRecord
        <3>1. mtime[f] \in Nat
            <4>1. mtime[f] \in 0 .. MaxTime
                BY DEF TypeInv, TypeOK
            <4> QED BY <4>1, Bounds
        <3>2. ParsedHash(f, src[f]) \in {"bytes", "synthesized"} \X Content
            BY <2>1 DEF ParsedHash, ByteHash
        <3> QED BY <2>3, <3>1, <3>2, RecordAssumption
    <2>5. f \in found[p]
        BY <1>2, <2>1 DEF Present
    <2>6. sidecar'[f] = records[p][f]
        BY <1>1, <2>5 DEF NewManifest
    <2> QED BY <2>3, <2>4, <2>6
<1>7. \A f \in File : mtime[f] <= bodySince
    BY <1>2, <1>3 DEF Undisturbed
<1>8. Recorded(sidecar)' = {f \in File : body[f] # Absent}
    BY <1>5, <1>6 DEF Recorded
<1> QED BY <1>1, <1>4, <1>6, <1>7, <1>8 DEF Kept, StampedInTime, sources

LEMMA CalmIsNext == [Calm]_vars => [Next]_vars /\ fails' = fails
BY DEF Next, Calm, Step, Scan, LoadManifest, Compare, DiffDone, ShortCut, Rebuild, Parse, BuildStore,
       Stamp, TruncateStore, FillStore, TruncateSidecar, FillSidecar, Edit, vars

LEMMA KeptStep ==
    ASSUME TypeInv, CaptureInv, DescribeInv, Aged, RestInv, StampInv, Kept, [Calm]_vars
    PROVE  Kept'
<1>t. pc \in [Run -> {"idle", "manifest", "compare", "parse", "stamp", "store", "saved",
                      "sidecar"}]
    BY DEF TypeInv, TypeOK
<1>1. ASSUME UNCHANGED <<body, bodySince, sidecar, mtime>>, ~Saving' => ~Saving PROVE Kept'
    BY <1>1 DEF Kept, StampedInTime, Recorded
<1>2. ASSUME NEW p \in Run, TruncateStore(p) \/ FillStore(p) \/ TruncateSidecar(p) PROVE Kept'
    <2>1. Saving'
        BY <1>2, <1>t DEF TruncateStore, FillStore, TruncateSidecar, Goto, Saving
    <2> QED BY <2>1 DEF Kept
<1>3. ASSUME NEW p \in Run, FillSidecar(p) PROVE Kept'
    BY <1>3, KeptBySave
<1>4. ASSUME NEW p \in Run,
             \/ \E j \in {"analyze", "diff"} : Scan(p, j)
             \/ LoadManifest(p) \/ DiffDone(p) \/ ShortCut(p) \/ Rebuild(p) \/ BuildStore(p)
             \/ \E f \in File : Compare(p, f) \/ Parse(p, f) \/ Stamp(p, f)
      PROVE  Kept'
    <2>1. UNCHANGED <<sources, disk>> /\ pc[p] \notin SavePoints
        BY <1>4 DEF Scan, LoadManifest, DiffDone, ShortCut, Compared, Rebuild, BuildStore,
                    Compare, Parse, Stamp, SavePoints
    <2>2. \A q \in Run : q # p => pc'[q] = pc[q]
        BY <1>4, OthersRest DEF Rests, StepOf, Step
    <2>3. ~Saving' => ~Saving
        BY <2>1, <2>2 DEF Saving, SavePoints
    <2> QED BY <1>1, <2>1, <2>3 DEF sources, disk
<1>5. ASSUME NEW g \in File, NEW c \in FileState, Edit(g, c) PROVE Kept'
    <2>1. UNCHANGED <<disk, pc>>
        BY <1>5 DEF Edit
    <2>2. \A f \in File : mtime'[f] <= bodySince => f # g /\ mtime'[f] = mtime[f]
        BY <1>5, EditIsNew
    <2> QED BY <2>1, <2>2 DEF Kept, Saving, StampedInTime, Recorded, disk
<1>6. CASE UNCHANGED vars
    BY <1>1, <1>6 DEF vars, sources, disk, Saving
<1> QED BY <1>2, <1>3, <1>4, <1>5, <1>6 DEF Calm, Step

\* What made a run call the sources changed is a reason to parse them again.
Reasoned(p) == pc[p] = "compare" /\ dirty[p] => HasReason

ReasonInv == \A p \in Run : Reasoned(p)

LEMMA ReasonInit == Init => ReasonInv
BY DEF Init, ReasonInv, Reasoned

\* A recorded file which is gone is a reason.
LEMMA GoneIsReason ==
    ASSUME StampedInTime, NEW f \in Recorded(sidecar), src[f] = Absent
    PROVE  HasReason
<1>1. f \in File /\ body[f] # Absent
    BY DEF StampedInTime, Recorded
<1>2. Indexed(src)[f] = Absent
    BY <1>1 DEF Indexed
<1> QED BY <1>1, <1>2 DEF HasReason, OnDiskIsFresh

\* So is a file which is there and differs from its record.
LEMMA DifferentIsReason ==
    ASSUME TypeInv, Kept, SidecarDescribesBody, ~Saving,
           NEW f \in File, src[f] # Absent, Differs(f, sidecar[f])
    PROVE  HasReason
<1> SUFFICES ASSUME body = Indexed(src), src[f] \notin Unindexable
             PROVE  HasReason
    BY DEF HasReason, OnDiskIsFresh
<1>1. body[f] = src[f] /\ body[f] # Absent
    BY DEF Indexed
<1>2. f \in Recorded(sidecar)
    BY <1>1 DEF Kept, StampedInTime
<1>3. mtime[f] # sidecar[f].mtime /\ ByteHash(src[f]) # sidecar[f].hash
    BY <1>2 DEF Differs, Recorded
<1>4. f \in Jsp
    BY <1>1, <1>2, <1>3 DEF SidecarDescribesBody, ParsedHash
<1>5. mtime[f] \in Nat /\ bodySince \in Nat
    <2>1. mtime[f] \in 0 .. MaxTime
        BY DEF TypeInv, TypeOK
    <2> QED BY <2>1, Bounds, Times
<1>6. ~(mtime[f] <= bodySince)
    BY <1>2, <1>3 DEF Kept
<1>7. mtime[f] > bodySince
    BY <1>5, <1>6
<1> QED BY <1>4, <1>7 DEF HasReason

\* A step which leaves the sources and the disk alone leaves the reasons.
LEMMA ReasonStays ==
    ASSUME HasReason, UNCHANGED <<sources, disk>>
    PROVE  HasReason'
BY DEF HasReason, OnDiskIsFresh, Indexed, Present, sources, disk

LEMMA ReasonStep ==
    ASSUME QuietEdits = TRUE, TypeInv, OneAtWork, DescribeInv, CompareInv, RestInv, Kept,
           ReasonInv, fails = 0, [Next]_vars
    PROVE  ReasonInv'
<1>t. /\ pc \in [Run -> {"idle", "manifest", "compare", "parse", "stamp", "store", "saved",
                         "sidecar"}]
      /\ dirty \in [Run -> BOOLEAN]
    BY DEF TypeInv, TypeOK
<1>1. ASSUME NEW p \in Run, StepOf(p), Reasoned(p)' PROVE ReasonInv'
    <2>1. UNCHANGED sources /\ \A q \in Run : q # p => Rests(q)
        BY <1>1, DiskChanges, OthersRest
    <2>2. UNCHANGED disk \/ pc[p] # "idle"
        BY <1>1, DiskChanges DEF TruncateSidecar, FillSidecar, TruncateStore, FillStore
    <2>3. ASSUME NEW q \in Run, q # p PROVE Reasoned(q)'
        BY <2>1, <2>2, <2>3, ReasonStays DEF ReasonInv, Reasoned, Rests, OneAtWork
    <2> QED BY <1>1, <2>3 DEF ReasonInv
<1>2. ASSUME NEW p \in Run, pc[p] \in {"manifest", "compare"}
      PROVE  /\ ~Saving /\ StampedInTime /\ SidecarDescribesBody
             /\ found[p] = Present(src)
    <2>1. ~Saving
        BY <1>2 DEF OneAtWork, Saving
    <2> QED BY <1>2, <2>1 DEF Kept, DescribeInv, DiskInv, RestInv, Resting
<1>3. ASSUME NEW p \in Run, LoadManifest(p) PROVE ReasonInv'
    <2>1. /\ pc[p] = "manifest" /\ UNCHANGED <<sources, disk>>
          /\ dirty'[p] = (Recorded(sidecar) \ found[p] # {})
        BY <1>3, <1>t DEF LoadManifest
    <2>2. dirty'[p] => HasReason
        BY <1>2, <2>1, GoneIsReason DEF Present, Recorded
    <2> QED BY <1>1, <1>3, <2>1, <2>2, ReasonStays DEF Reasoned, StepOf, Step
<1>4. ASSUME NEW p \in Run, NEW g \in File, Compare(p, g) PROVE ReasonInv'
    <2>1. pc[p] = "compare" /\ g \in todo[p] /\ UNCHANGED <<sources, disk>>
        BY <1>4 DEF Compare
    <2>2. dirty'[p] => dirty[p] \/ Differs(g, manifest[p][g])
        BY <1>4, <1>t, Zenon DEF Compare
    <2>3. manifest[p] = sidecar /\ g \in found[p]
        BY <2>1 DEF CompareInv, Comparing
    <2>4. src[g] # Absent
        BY <1>2, <2>1, <2>3 DEF Present
    <2>5. dirty'[p] => HasReason
        BY <1>2, <2>1, <2>2, <2>3, <2>4, DifferentIsReason DEF ReasonInv, Reasoned
    <2> QED BY <1>1, <1>4, <2>1, <2>5, ReasonStays DEF Reasoned, StepOf, Step
<1>5. ASSUME NEW p \in Run, StepOf(p), pc'[p] # "compare" PROVE ReasonInv'
    BY <1>1, <1>5 DEF Reasoned
<1>6. ASSUME NEW p \in Run, StepOf(p), pc'[p] = "compare"
      PROVE  LoadManifest(p) \/ \E g \in File : Compare(p, g)
    BY <1>6, ComparesAgain
<1>7. ASSUME NEW f \in File, NEW c \in FileState, Edit(f, c) PROVE ReasonInv'
    BY <1>7 DEF Edit, ReasonInv, Reasoned
<1>8. CASE UNCHANGED vars
    BY <1>8, ReasonStays DEF vars, progress, ReasonInv, Reasoned
<1> QED BY <1>3, <1>4, <1>5, <1>6, <1>7, <1>8, NextSteps

-----------------------------------------------------------------------------
(* A lone user whose sources rest during each call. *)

QuietInv ==
    /\ TypeInv /\ CaptureInv /\ OneAtWork /\ DescribeInv /\ CompareInv /\ Aged
    /\ RestInv /\ StampInv /\ Kept /\ ReasonInv
    /\ fails = 0

LEMMA QuietInit == Init => QuietInv
BY TypeInit, CaptureInit, OneAtWorkInit, DescribeInit, CompareInit, AgedInit, RestInit,
   StampInit, KeptInit, ReasonInit DEF QuietInv, Init

LEMMA QuietStep ==
    ASSUME Serial = TRUE, QuietEdits = TRUE, QuietInv, [Calm]_vars
    PROVE  QuietInv'
<1>1. [Next]_vars /\ fails' = fails
    BY CalmIsNext
<1> QED BY <1>1, TypeStep, CaptureStep, OneAtWorkStep, DescribeStep, CompareStep, AgedStep,
           RestStep, StampStep, KeptStep, ReasonStep DEF QuietInv

\* Then an answer "up to date" or "in sync" is right (UpToDateIsFresh): the manifest was
\* stamped in time, because nothing is edited between the parse and the stamps.
THEOREM AnswersAreRight ==
    ASSUME Serial = TRUE, QuietEdits = TRUE
    PROVE  CalmSpec => UpToDateIsFresh
<1>1. ASSUME QuietInv, [Calm]_vars, NEW p \in Run,
             Answers(p, "up to date") \/ Answers(p, "in sync"), Undisturbed(p)
      PROVE  OnDiskIsFresh
    <2>1. [Next]_vars
        BY <1>1, CalmIsNext
    <2>2. pc[p] = "compare"
        BY <1>1, <2>1, WhoVouches DEF DiffDone, ShortCut, Compared, QuietInv
    <2>3. StampedInTime
        BY <1>1, <2>2 DEF QuietInv, OneAtWork, Saving, Kept
    <2> QED BY <1>1, <2>1, <2>3, UpToDateStep DEF QuietInv
<1>2. QuietInv /\ [Calm]_vars =>
          [\A p \in Run : /\ Answers(p, "up to date") \/ Answers(p, "in sync")
                          /\ Undisturbed(p)
                          => OnDiskIsFresh]_vars
    BY <1>1
<1> QED BY <1>2, QuietInit, QuietStep, PTL DEF CalmSpec, UpToDateIsFresh

\* And a run parses everything again only for a reason (RebuildHasReason).
THEOREM RebuildsHaveReasons ==
    ASSUME Serial = TRUE, QuietEdits = TRUE
    PROVE  CalmSpec => RebuildHasReason
<1>1. ASSUME QuietInv, [Calm]_vars, NEW p \in Run, pc[p] = "compare", pc'[p] = "parse"
      PROVE  HasReason
    <2>1. Rebuild(p)
        <3>1. pc \in [Run -> {"idle", "manifest", "compare", "parse", "stamp", "store",
                              "saved", "sidecar"}]
            BY <1>1 DEF QuietInv, TypeInv, TypeOK
        <3>2. ASSUME NEW q \in Run, StepOf(q), q # p PROVE FALSE
            BY <1>1, <3>2, OthersRest DEF QuietInv, Rests
        <3>3. StepOf(p)
            BY <1>1, <3>2, CalmIsNext, NextSteps DEF Edit, vars
        <3> QED BY <1>1, <3>1, <3>3 DEF StepOf, Step, Scan, LoadManifest, Compare, DiffDone,
                ShortCut, Parse, BuildStore, Stamp, TruncateStore, FillStore, TruncateSidecar,
                FillSidecar, SaveFails, Crash, Goto, Answer
    <2>2. StampedInTime
        BY <1>1 DEF QuietInv, OneAtWork, Saving, Kept
    <2>3. CASE dirty[p]
        BY <1>1, <2>3 DEF QuietInv, ReasonInv, Reasoned
    <2>4. CASE Recorded(sidecar) = {}
        BY <2>2, <2>4 DEF StampedInTime, HasReason, Present
    <2>5. CASE header # "current"
        BY <2>5 DEF HasReason
    <2>6. dirty[p] \/ header # "current" \/ Recorded(sidecar) = {}
        BY <1>1, <2>1 DEF Rebuild, Compared, UpToDate, QuietInv, CompareInv, Comparing
    <2> QED BY <2>3, <2>4, <2>5, <2>6
<1>2. QuietInv /\ [Calm]_vars =>
          [\A p \in Run : pc[p] = "compare" /\ pc'[p] = "parse" => HasReason]_vars
    BY <1>1
<1> QED BY <1>2, QuietInit, QuietStep, PTL DEF CalmSpec, RebuildHasReason

-----------------------------------------------------------------------------
(* The project is the index SourceIndex describes. *)

LEMMA PromiseInit == Init => Promise!Init
<1> SUFFICES ASSUME Init PROVE Promise!Init
    OBVIOUS
<1>1. body \in Graph
    BY IndexedType, TornIsNoGraph DEF Init, Graph
<1> QED BY <1>1 DEF Init, Promise!Init, Graph

\* What a save publishes is an index of the sources: they rest.
LEMMA PublishStep ==
    ASSUME QuietInv, NEW p \in Run, FillStore(p)
    PROVE  Promise!Publish
<1>1. pc[p] = "store" /\ body' = parsed[p] /\ UNCHANGED <<sources, verdict>>
    BY DEF FillStore
<1>2. parsed[p] = Indexed(src)
    BY <1>1, SavedIsFresh DEF QuietInv, RestInv, Resting
<1> QED BY <1>1, <1>2 DEF Promise!Publish, sources

\* Who vouches for the index has reason to.
LEMMA VouchStep ==
    ASSUME QuietInv, NEW p \in Run,
           (DiffDone(p) /\ ~dirty[p]) \/ ShortCut(p) \/ FillSidecar(p)
    PROVE  \E v \in Promise!Vouching : Promise!Vouch(p, v)
<1>1. pc[p] \in {"compare", "sidecar"} /\ Undisturbed(p)
    BY DEF DiffDone, ShortCut, Compared, FillSidecar, QuietInv, RestInv, Resting
<1>2. CASE (DiffDone(p) /\ ~dirty[p]) \/ ShortCut(p)
    <2>1. /\ Compared(p) /\ ~dirty[p] /\ UNCHANGED <<sources, disk>>
          /\ \/ verdict' = [verdict EXCEPT ![p] = "in sync"]
             \/ verdict' = [verdict EXCEPT ![p] = "up to date"]
        BY <1>2 DEF DiffDone, ShortCut, UpToDate, Answer
    <2>2. StampedInTime
        BY <2>1 DEF QuietInv, OneAtWork, Compared, Saving, Kept
    <2>3. body = Indexed(src)
        BY <1>1, <2>1, <2>2, UnchangedIsFresh DEF QuietInv, OnDiskIsFresh
    <2> QED BY <2>1, <2>3 DEF Promise!Vouch, Promise!Vouching, sources, disk
<1>3. CASE FillSidecar(p)
    <2>1. /\ pc[p] = "sidecar" /\ UNCHANGED <<sources, body>>
          /\ verdict' = [verdict EXCEPT ![p] = "rebuilt"]
        BY <1>3 DEF FillSidecar, Answer
    <2>2. body = Indexed(src)
        BY <1>1, <2>1, SavedIsFresh DEF QuietInv, DescribeInv, Saved
    <2> QED BY <2>1, <2>2 DEF Promise!Vouch, Promise!Vouching, sources
<1> QED BY <1>2, <1>3

LEMMA PromiseStep ==
    ASSUME QuietInv, [Calm]_vars
    PROVE  [Promise!Next]_<<src, body, verdict>>
<1>1. ASSUME NEW p \in Run, NEW j \in {"analyze", "diff"}, Scan(p, j) PROVE Promise!Next
    <2>1. Promise!Ask(p)
        BY <1>1 DEF Scan, Promise!Ask, sources, disk
    <2> QED BY <2>1 DEF Promise!Next
<1>2. ASSUME NEW p \in Run, DiffDone(p), dirty[p] PROVE Promise!Next
    <2>1. Promise!Admit(p)
        BY <1>2 DEF DiffDone, Answer, Promise!Admit, sources, disk
    <2> QED BY <2>1 DEF Promise!Next
<1>3. ASSUME NEW p \in Run, (DiffDone(p) /\ ~dirty[p]) \/ ShortCut(p) \/ FillSidecar(p)
      PROVE  Promise!Next
    BY <1>3, VouchStep DEF Promise!Next
<1>4. ASSUME NEW p \in Run, TruncateStore(p) PROVE Promise!Next
    BY <1>4 DEF TruncateStore, Promise!Next, Promise!Invalidate, sources
<1>5. ASSUME NEW p \in Run, FillStore(p) PROVE Promise!Next
    BY <1>5, PublishStep DEF Promise!Next
<1>6. ASSUME NEW f \in File, NEW c \in FileState, Edit(f, c) PROVE Promise!Next
    <2>1. src' \in [File -> FileState] /\ UNCHANGED <<body, verdict>>
        BY <1>6 DEF Edit, disk, QuietInv, TypeInv, TypeOK, Graph
    <2> QED BY <2>1 DEF Promise!Next, Promise!Change
<1>7. ASSUME NEW p \in Run,
             \/ LoadManifest(p) \/ Rebuild(p) \/ BuildStore(p) \/ TruncateSidecar(p)
             \/ \E f \in File : Compare(p, f) \/ Parse(p, f) \/ Stamp(p, f)
      PROVE  UNCHANGED <<src, body, verdict>>
    BY <1>7 DEF LoadManifest, Rebuild, BuildStore, TruncateSidecar, Compare, Parse, Stamp,
                sources, disk
<1>8. CASE UNCHANGED vars
    BY <1>8 DEF vars, sources, disk
<1> QED BY <1>1, <1>2, <1>3, <1>4, <1>5, <1>6, <1>7, <1>8 DEF Calm, Step

\* The project implements SourceIndex (SourceIndexSpec): its index is always a snapshot of
\* the sources taken whole, and nobody vouches for it while it is stale.
THEOREM ImplementsSourceIndex ==
    ASSUME Serial = TRUE, QuietEdits = TRUE
    PROVE  CalmSpec => SourceIndexSpec
BY PromiseInit, PromiseStep, QuietInit, QuietStep, PTL
   DEF CalmSpec, SourceIndexSpec, Promise!Spec

=============================================================================
