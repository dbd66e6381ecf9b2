----------------------------- MODULE MCChildLink -----------------------------
(* Small instances of ChildLink for TLC. *)
EXTENDS ChildLink

TwoChildren == {1, 2}
=============================================================================
