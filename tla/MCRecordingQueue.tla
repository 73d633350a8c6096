-------------------------- MODULE MCRecordingQueue --------------------------
(* Small instances of the slice queue. *)
EXTENDS RecordingQueue, TLC

=============================================================================
