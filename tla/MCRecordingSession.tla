------------------------- MODULE MCRecordingSession -------------------------
(* Small instances of the recording session. *)
EXTENDS RecordingSession
=============================================================================
