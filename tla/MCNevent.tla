------------------------------ MODULE MCNevent ------------------------------
(* Small instances of the event scheduler. *)
EXTENDS Nevent
=============================================================================
