---------------------------- MODULE SharedRecords ----------------------------
(***************************************************************************)
(* What sessions promise about the peers they share.  A session opens with *)
(* a list of candidates and ends by a timer.  There is one record of a     *)
(* peer, however many sessions list it; the first of them makes it.  A     *)
(* record becomes that of a parent or child when the peer is selected, and *)
(* is then no session's business any more.  One that was never selected is *)
(* forgotten with the last session that lists the peer, if not before.     *)
(***************************************************************************)

CONSTANTS
    Peers,
    Sessions

VARIABLES
    record,     \* of each peer
    holders     \* of each peer, the sessions that list it

recordsVars == <<record, holders>>

Init ==
    /\ holders \in [Peers -> SUBSET Sessions]
    /\ record = [p \in Peers |-> IF holders[p] = {} THEN "none" ELSE "candidate"]

Open(i, ps) ==
    /\ \A p \in Peers : i \notin holders[p]
    /\ holders' = [p \in Peers |-> IF p \in ps THEN holders[p] \cup {i} ELSE holders[p]]
    /\ record' = [p \in Peers |-> IF p \in ps /\ record[p] = "none" THEN "candidate" ELSE record[p]]

Select(p) ==
    /\ record[p] # "none"
    /\ record' = [record EXCEPT ![p] = "selected"]
    /\ UNCHANGED holders

\* A connection is lost or of no use any more.
Forget(ps) ==
    /\ record' = [p \in Peers |-> IF p \in ps THEN "none" ELSE record[p]]
    /\ UNCHANGED holders

\* Peers ps, listed by the session, are forgotten, and nobody is left behind.
Close(i, ps) ==
    /\ \A p \in ps : record[p] = "candidate" /\ i \in holders[p]
    /\ holders' = [p \in Peers |-> holders[p] \ {i}]
    /\ record' = [p \in Peers |-> IF p \in ps THEN "none" ELSE record[p]]
    /\ \A p \in Peers : record'[p] = "candidate" => holders'[p] # {}

Next ==
    \/ \E i \in Sessions, ps \in SUBSET Peers : Open(i, ps) \/ Close(i, ps)
    \/ \E p \in Peers : Select(p)
    \/ \E ps \in SUBSET Peers : Forget(ps)

Spec == Init /\ [][Next]_recordsVars
=============================================================================
