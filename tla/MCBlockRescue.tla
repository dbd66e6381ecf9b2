--------------------------- MODULE MCBlockRescue ---------------------------
(* A small instance of BlockRescue for TLC.  *)
EXTENDS BlockRescue

CONSTANTS a, b, c

Three == {a, b, c}

\* Clients are alike, so it is enough to start with the overlays in which
\* parents come first by name.
OrderedInit ==
    /\ Init
    /\ parent[a] = PK /\ parent[b] \in {PK, a} /\ parent[c] \in {PK, a, b}

OrderedSpec == OrderedInit /\ [][Next]_vars /\ Fairness
=============================================================================
