--------------------------- MODULE MessageChannel ---------------------------
(***************************************************************************)
(* What a socket between two peers promises to the handlers above it: the  *)
(* messages put into one of its queues come out at the other end whole, in *)
(* the order they went in, each at most once.  Between the queues, control *)
(* and data, nothing is promised.  A message is its payload.               *)
(***************************************************************************)
EXTENDS Naturals, Sequences

CONSTANTS
    Queues,
    Payloads

VARIABLES
    posted,     \* what was put into each queue
    got         \* what was handled at the other end, by queue

Init ==
    /\ posted = [q \in Queues |-> <<>>]
    /\ got = [q \in Queues |-> <<>>]

Post(q, p) ==
    /\ posted' = [posted EXCEPT ![q] = Append(@, p)]
    /\ UNCHANGED got

Deliver(q) ==
    /\ Len(got[q]) < Len(posted[q])
    /\ got' = [got EXCEPT ![q] = Append(@, posted[q][Len(@) + 1])]
    /\ UNCHANGED posted

Next == \E q \in Queues : Deliver(q) \/ \E p \in Payloads : Post(q, p)

Spec == Init /\ [][Next]_<<posted, got>>
=============================================================================
