--------------------------- MODULE MCSubstreamTable ---------------------------
(* Small instances of SubstreamTable for TLC. *)
EXTENDS SubstreamTable, TLC

CONSTANTS s1, s2

OnePeer == {1}
TwoPeers == {1, 2}
OneSubstream == {s1}
TwoSubstreams == {s1, s2}
MCPK == 9

Symmetry == Permutations(TwoSubstreams)
=============================================================================
