----------------------------- MODULE MCChildRelay -----------------------------
(* Small instances of ChildRelay for TLC. *)
EXTENDS ChildRelay

CONSTANT p1

OnePlayer == {p1}
OneChild == {1}
ThreeChildren == {1, 2, 3}

\* A state of the program in which every child is selected, each by a session
\* of its own that has stopped, and the sessions and sockets that remain are
\* still to come.  Nothing has been asked for or sent.
AllSelected ==
    /\ Init
    /\ conn = [c \in Children |-> "selected"]
    /\ manifest = [c \in Children |-> {}]
    /\ sock = [c \in Children |-> c]
    /\ session = [i \in SessionId |->
           IF i \in Children THEN [NoSession EXCEPT !.phase = "stopped"] ELSE NoSession]
    /\ nonblocking = {}
    /\ link = [l \in Links |-> IF l \in Children THEN "peer" ELSE "none"]
    /\ owner = [l \in Links |-> IF l \in Children THEN l ELSE NoChild]
    /\ queued = Children
    /\ info = Children
    /\ data = [l \in Links |-> <<>>]
    /\ measured = {}
    /\ frozenSeq = [c \in Children |-> 0]
    /\ diagnoseSeq = 1

\* The specifications of ChildRelay from there on.
SelectedSpec == AllSelected /\ [][RelayNext]_relayVars

SelectedFairSpec == SelectedSpec /\ RelayFairness
=============================================================================
