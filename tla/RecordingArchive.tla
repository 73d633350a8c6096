-------------------------- MODULE RecordingArchive --------------------------
(***************************************************************************)
(* What the recorder promises about one file: slices are taken, stored in  *)
(* the order they were taken, and the file is published only with all of   *)
(* them; otherwise it is discarded.  No queue, no threads.                 *)
(***************************************************************************)
EXTENDS Naturals

VARIABLES
    taken,   \* slices accepted for the file
    stored,  \* slices written to it
    file     \* "none", "open", "finalized", "canceled" or "broken"

vars == <<taken, stored, file>>

Init == taken = 0 /\ stored = 0 /\ file = "none"

Open ==
    /\ file # "open"
    /\ taken' = 0 /\ stored' = 0 /\ file' = "open"

Take  == file = "open" /\ taken' = taken + 1 /\ UNCHANGED <<stored, file>>

Store ==
    /\ file = "open" /\ stored < taken
    /\ stored' = stored + 1
    /\ UNCHANGED <<taken, file>>

\* Publishing is the last step and needs every slice.
Publish ==
    /\ file = "open" /\ stored = taken
    /\ file' = "finalized"
    /\ UNCHANGED <<taken, stored>>

\* A discarded file may still be offered slices until the caller notices.
Discard == file = "open" /\ file' \in {"canceled", "broken"} /\ UNCHANGED <<taken, stored>>
Ignore  == file = "canceled" /\ taken' = taken + 1 /\ UNCHANGED <<stored, file>>

Next == Open \/ Take \/ Store \/ Publish \/ Discard \/ Ignore

Spec == Init /\ [][Next]_vars
=============================================================================
