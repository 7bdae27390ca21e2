---------------------------- MODULE SourceIndex ----------------------------
(***************************************************************************)
(* What analyze and diff promise a lone user: an index which is a snapshot *)
(* of the sources taken whole, and answers that are true of it.  The index *)
(* may be lost while it is replaced; it is never half old and half new,    *)
(* and no answer which vouches for it is given while it is stale.          *)
(***************************************************************************)
CONSTANTS
    File, FileState,
    Indexed(_),    \* the index of given sources
    Lost,          \* the index while it is being replaced
    Run

VARIABLES
    src,      \* file |-> its content
    index,    \* the index kept for the sources
    answer    \* run |-> what it said last

Vouching == {"up to date", "in sync", "rebuilt"}

\* A project may come with an index of other sources, or with none.
Init ==
    /\ src \in [File -> FileState]
    /\ index \in [File -> FileState]
    /\ answer = [p \in Run |-> "none"]

Change ==
    /\ src' \in [File -> FileState]
    /\ UNCHANGED <<index, answer>>

Ask(p) ==
    /\ answer' = [answer EXCEPT ![p] = "none"]
    /\ UNCHANGED <<src, index>>

Invalidate ==
    /\ index' = Lost
    /\ UNCHANGED <<src, answer>>

Publish ==
    /\ index' = Indexed(src)
    /\ UNCHANGED <<src, answer>>

Vouch(p, v) ==
    /\ v \in Vouching
    /\ index = Indexed(src)
    /\ answer' = [answer EXCEPT ![p] = v]
    /\ UNCHANGED <<src, index>>

\* Saying that there is work to do is always allowed.
Admit(p) ==
    /\ answer' = [answer EXCEPT ![p] = "changed"]
    /\ UNCHANGED <<src, index>>

Next ==
    \/ Change
    \/ Invalidate
    \/ Publish
    \/ \E p \in Run : Ask(p) \/ Admit(p) \/ \E v \in Vouching : Vouch(p, v)

Spec == Init /\ [][Next]_<<src, index, answer>>
=============================================================================
