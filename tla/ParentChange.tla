---------------------------- MODULE ParentChange ----------------------------
(***************************************************************************)
(* How a sub-stream changes its parent.  The first packet settles the      *)
(* first parent.  From then on there are two ways to another one: back to  *)
(* the source of last resort, at any time, or over a trial, in which a     *)
(* candidate sends the sub-stream beside the parent.  Only a candidate     *)
(* that has been heard in its trial becomes the parent, and a trial ends   *)
(* with every change of parent.                                            *)
(***************************************************************************)

CONSTANTS
    Substreams,
    Peers,
    PK,         \* the source of last resort
    NoPeer

VARIABLES
    parent,
    started,    \* a packet of the sub-stream came
    trial,      \* the candidate that is tried for the sub-stream, or NoPeer
    heard       \* the sub-streams whose candidate has been heard

changeVars == <<parent, started, trial, heard>>

Init ==
    /\ parent = [s \in Substreams |-> NoPeer]
    /\ started = [s \in Substreams |-> FALSE]
    /\ trial = [s \in Substreams |-> NoPeer]
    /\ heard = {}

\* The trials of ss, if there are any, are over.
EndTrials(ss) ==
    /\ trial' = [s \in Substreams |-> IF s \in ss THEN NoPeer ELSE trial[s]]
    /\ heard' = heard \ ss

\* The first packet, from p; the candidate may be the sender.
Start(s, p) ==
    /\ ~started[s]
    /\ started' = [started EXCEPT ![s] = TRUE]
    /\ parent' = [parent EXCEPT ![s] = p]
    /\ \/ p = PK /\ EndTrials({s})
       \/ UNCHANGED <<trial, heard>>
       \/ trial[s] = p /\ p # NoPeer /\ heard' = heard \cup {s} /\ UNCHANGED trial

\* A trial of c begins for ss, whatever was tried before.
Try(ss, c) ==
    /\ trial' = [s \in Substreams |-> IF s \in ss THEN c ELSE trial[s]]
    /\ heard' = heard \ ss
    /\ UNCHANGED <<parent, started>>

Hear(s) ==
    /\ started[s] /\ trial[s] # NoPeer
    /\ heard' = heard \cup {s}
    /\ UNCHANGED <<parent, started, trial>>

\* What has been heard counts no more.
Restart(s) ==
    /\ heard' = heard \ {s}
    /\ UNCHANGED <<parent, started, trial>>

\* The sub-streams stay with their parents.
Keep(ss) == EndTrials(ss) /\ UNCHANGED <<parent, started>>

\* The candidate becomes the parent.
Adopt(s) ==
    /\ started[s] /\ s \in heard
    /\ parent' = [parent EXCEPT ![s] = trial[s]]
    /\ EndTrials({s})
    /\ UNCHANGED started

GoBack(s) ==
    /\ parent' = [parent EXCEPT ![s] = PK]
    /\ EndTrials({s})
    /\ UNCHANGED started

Next ==
    \/ \E s \in Substreams :
         \/ \E p \in Peers \cup {PK} : Start(s, p)
         \/ Hear(s) \/ Restart(s) \/ Adopt(s) \/ GoBack(s)
    \/ \E ss \in SUBSET Substreams : Keep(ss) \/ \E c \in Peers : Try(ss, c)

Spec == Init /\ [][Next]_changeVars
=============================================================================
