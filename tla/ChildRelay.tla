----------------------------- MODULE ChildRelay -----------------------------
(***************************************************************************)
(* Chunks on their way to the children: StreamBuffer and ChildLink put     *)
(* together.                                                               *)
(*                                                                         *)
(* A chunk that enters the ring is queued for every child that asked for   *)
(* its sub-stream.  When the queues grow, OverloadedDetection freezes a    *)
(* child, which then gets nothing; when they are short it releases one.    *)
(*                                                                         *)
(* HandleRelayStream2 and OverloadedDetection use the map_udpfd_queue      *)
(* entry of a child without a test; where ChildLink has none for it (see   *)
(* QueueInfoFound) the program crashes, and the steps here do not happen.  *)
(* MaxFreezes bounds my_peer_diagnose.seq.                                 *)
(***************************************************************************)
EXTENDS StreamBuffer, ChildLink, FiniteSets

CONSTANT MaxFreezes

ASSUME MaxFreezesAssumption == MaxFreezes \in Nat

VARIABLES
    data,           \* map_udpfd_out_data: what is queued for each socket
    measured,       \* children with a rtt, from UpdateChildrenInfo
    frozenSeq,      \* frozen_seq of each map_pid_child entry, 0: is_frozen is FALSE
    diagnoseSeq     \* my_peer_diagnose.seq

freezeVars == <<measured, frozenSeq, diagnoseSeq>>
relayVars == <<vars, linkVars, data, freezeVars>>

RelayTypeOK ==
    /\ data \in [Links -> Seq(SeqNo)]
    /\ measured \in SUBSET Children
    /\ frozenSeq \in [Children -> 0..MaxFreezes]
    /\ diagnoseSeq \in 1..(MaxFreezes + 1)

RelayInit ==
    /\ Init /\ LinkInit
    /\ data = [l \in Links |-> <<>>]
    /\ measured = {}
    /\ frozenSeq = [c \in Children |-> 0]
    /\ diagnoseSeq = 1

----------------------------------------------------------------------------
(* HandleRelayStream2 *)

\* Children whose queues count: selected, with a queue for their socket.
Served == {c \in Children : conn[c] = "selected" /\ sock[c] \in queued}

\* The sockets that get chunk n.
Receivers(n) == {sock[c] : c \in {d \in Served : n % SubStreamNum \in manifest[d]}}

\* Mutant of StoreAndRelay: packets are relayed before they are looked at.
StoreAndRelayUntested(n) ==
    /\ Accept(n) \/ Halt(n) \/ Dropped(n)
    /\ Receivers(n) \subseteq info
    /\ data' = [l \in Links |-> IF l \in Receivers(n) THEN Append(data[l], n) ELSE data[l]]
    /\ UNCHANGED <<linkVars, freezeVars>>

\* A chunk is relayed when it is put in its slot, also when the program stops
\* after that, and also to sockets that are broken.
StoreAndRelay(n) ==
    /\ Accept(n) \/ Halt(n)
    /\ Receivers(n) \subseteq info
    /\ data' = [l \in Links |-> IF l \in Receivers(n) THEN Append(data[l], n) ELSE data[l]]
    /\ UNCHANGED <<linkVars, freezeVars>>

\* handle_pkt_out_udp: a chunk goes out if the child is not frozen and the
\* socket has little left to send.
SendChunk(c) ==
    /\ ~halted /\ conn[c] = "selected" /\ link[sock[c]] = "peer" /\ frozenSeq[c] = 0
    /\ data[sock[c]] # <<>>
    /\ data' = [data EXCEPT ![sock[c]] = Tail(@)]
    /\ UNCHANGED <<vars, linkVars, freezeVars>>

----------------------------------------------------------------------------
(* Overload *)

Frozen == {c \in Served : frozenSeq[c] # 0}
Unfrozen == {c \in Served : frozenSeq[c] = 0}

CanDetect == ~halted /\ \A c \in Unfrozen : sock[c] \in info

UpdateChildrenInfo ==
    /\ ~halted
    /\ measured' = measured \cup Served
    /\ UNCHANGED <<vars, linkVars, data, frozenSeq, diagnoseSeq>>

\* Mutant of FreezeChild: also the last one.
FreezeChildLast(c) ==
    /\ CanDetect /\ diagnoseSeq <= MaxFreezes
    /\ c \in Unfrozen \cap measured
    /\ manifest[c] # {}
    /\ frozenSeq' = [frozenSeq EXCEPT ![c] = diagnoseSeq]
    /\ diagnoseSeq' = diagnoseSeq + 1
    /\ UNCHANGED <<vars, linkVars, data, measured>>

\* The queues have grown and are too long in the mean; the child with the
\* largest rtt, here any that has one, is frozen, but never the last one.  The
\* lengths are not modelled: they count bytes, and a chunk that was overwritten
\* while it was queued is subtracted with the length of its successor.
FreezeChild(c) ==
    /\ CanDetect /\ diagnoseSeq <= MaxFreezes
    /\ c \in Unfrozen \cap measured
    /\ Cardinality(Unfrozen) > 1
    /\ \E d \in Unfrozen : manifest[d] # {}
    /\ frozenSeq' = [frozenSeq EXCEPT ![c] = diagnoseSeq]
    /\ diagnoseSeq' = diagnoseSeq + 1
    /\ UNCHANGED <<vars, linkVars, data, measured>>

\* Mutant of ReleaseChild: the children are released one by one only as long as
\* one of them is not frozen.
ReleaseChildNotLast(c) ==
    /\ CanDetect /\ c \in Frozen /\ Unfrozen # {}
    /\ \A d \in Frozen : frozenSeq[d] <= frozenSeq[c]
    /\ frozenSeq' = [frozenSeq EXCEPT ![c] = 0]
    /\ UNCHANGED <<vars, linkVars, data, measured, diagnoseSeq>>

\* The queues are short in the mean; the child with the largest frozen_seq is
\* released.
ReleaseChild(c) ==
    /\ CanDetect /\ c \in Frozen
    /\ \A d \in Frozen : frozenSeq[d] <= frozenSeq[c]
    /\ frozenSeq' = [frozenSeq EXCEPT ![c] = 0]
    /\ UNCHANGED <<vars, linkVars, data, measured, diagnoseSeq>>

----------------------------------------------------------------------------
(* Everything together *)

\* A step of ChildLink: CloseChildUDP deletes the queue of a socket, and a
\* record that is made anew is zero.
LinkOnly ==
    /\ ~halted /\ LinkNext
    /\ data' = [l \in Links |-> IF l \in queued' THEN data[l] ELSE <<>>]
    /\ measured' = {c \in measured : conn'[c] # "none"}
    /\ frozenSeq' = [c \in Children |-> IF conn'[c] = "none" THEN 0 ELSE frozenSeq[c]]
    /\ UNCHANGED <<vars, diagnoseSeq>>

PlayersStep ==
    \/ \E p \in Players : Attach(p) \/ Detach(p) \/ Sent(p)
    \/ \E p \in Players, done \in BOOLEAN : Take(p, done)

\* A step of StreamBuffer that relays nothing.
BufferOnly ==
    /\ (\E n \in SeqNo : Dropped(n)) \/ PlayersStep
    /\ UNCHANGED <<linkVars, data, freezeVars>>

RelayNext ==
    \/ \E n \in SeqNo : StoreAndRelay(n)
    \/ \E c \in Children : SendChunk(c) \/ FreezeChild(c) \/ ReleaseChild(c)
    \/ UpdateChildrenInfo
    \/ LinkOnly
    \/ BufferOnly

RelaySpec == RelayInit /\ [][RelayNext]_relayVars

\* Nobody who is not frozen wants anything: the mean queue length is then a
\* quotient by zero, which becomes the smallest int, and a child is released.
Starved == Frozen # {} /\ \A c \in Unfrozen : manifest[c] = {}

\* time_handle looks at the sockets and calls OverloadedDetection again and again.
RelayFairness ==
    /\ WF_relayVars(Starved /\ \E c \in Children : ReleaseChild(c))
    /\ WF_relayVars(LinkOnly /\ CheckSockets(FALSE))

RelayFairSpec == RelaySpec /\ RelayFairness

----------------------------------------------------------------------------
(* Properties *)

\* No chunk is queued twice for a child, although parents send chunks more than
\* once, and the number of a queued chunk fits its slot, which holds no older one.
QueuedOnce ==
    \A l \in Links :
        /\ \A i, j \in 1..Len(data[l]) : i # j => data[l][i] # data[l][j]
        /\ \A i \in 1..Len(data[l]) : data[l][i] <= slot[data[l][i] % Size]

\* What is queued for a child is still what was queued as long as the newest
\* chunk is less than a ring away: the queues hold pointers into the ring.
RelayIntact ==
    \A l \in Links : \A i \in 1..Len(data[l]) :
        least - data[l][i] < Size => slot[data[l][i] % Size] = data[l][i]

\* A child is released, without being closed, only after all that were frozen later.
ReleasedInStackOrder ==
    [][\A c, d \in Children :
          frozenSeq[c] # 0 /\ frozenSeq'[c] = 0 /\ conn'[c] # "none" /\ d # c
          => frozenSeq[d] < frozenSeq[c]]_relayVars

SelectedChildren == {c \in Children : conn[c] = "selected"}
FrozenChildren == {c \in Children : frozenSeq[c] # 0}
FrozenLater == {pair \in Children \X Children :
    frozenSeq[pair[2]] # 0 /\ frozenSeq[pair[2]] < frozenSeq[pair[1]]}

Stack == INSTANCE FreezeStack WITH
    Children <- Children,
    members <- SelectedChildren, frozen <- FrozenChildren, above <- FrozenLater

\* "Release the largest frozen_seq, to have the effect of a stack": freezing is
\* a stack of children.  Whoever is frozen is put on it while another selected
\* child goes on, is released only when all that were frozen later are gone, and
\* is taken off, wherever it is, when it is closed.
StackSpec == Stack!Spec

\* Freezing never starves all: if nobody who wants something is left to send
\* to, a frozen child is released or leaves.
StarvedReleased == Starved ~> ~Starved \/ halted
=============================================================================
