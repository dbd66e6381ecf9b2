---------------------------- MODULE MCSourceDelay ----------------------------
(* Small instances of SourceDelay for TLC. *)
EXTENDS SourceDelay
=============================================================================
