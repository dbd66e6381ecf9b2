------------------------------ MODULE MCFraming ------------------------------
(***************************************************************************)
(* Instance of Framing for TLC.  A header of two units and payloads of one *)
(* and two, through a send buffer that holds less than two messages.       *)
(***************************************************************************)
EXTENDS Framing

MCPayloads == {1, 2}
=============================================================================
