----------------------------- MODULE ChildLink -----------------------------
(***************************************************************************)
(* The connections a peer has with its children.                           *)
(*                                                                         *)
(* PK tells a peer who may become its child.  This opens a session, and a  *)
(* record of the child if there is none (map_pid_child).  Either side      *)
(* connects to the other; the child picks a connection and says so with    *)
(* PEER_CON; SET_MANIFEST messages then say which sub-streams it wants.    *)
(* Sessions end by timers, and close what was not picked.  A connection of *)
(* one session is taken over by every other session for the same child.    *)
(*                                                                         *)
(* A socket is a number, used once, 0 for none.  Bounds: MaxSessions       *)
(* invitations and MaxLinks connections per behaviour.                     *)
(***************************************************************************)
EXTENDS Integers

CONSTANTS
    Children,       \* pids of possible children; map_pid_child is walked by pid
    NoChild,        \* no pid
    SubStreamNum,   \* sub_stream_num
    MaxSessions,
    MaxLinks

ASSUME ChildrenAssumption == Children \subseteq Nat
ASSUME NoChildAssumption == NoChild \notin Children
ASSUME SubStreamNumAssumption == SubStreamNum \in Nat \ {0}
ASSUME LinkBoundsAssumption == MaxSessions \in Nat /\ MaxLinks \in Nat

VARIABLES
    conn,           \* connection_state of each map_pid_child entry
    manifest,       \* manifest of each map_pid_child entry
    sock,           \* sock of each map_pid_child entry
    session,        \* map_mysession_candidates, the sessions with myrole PARENT_PEER
    nonblocking,    \* the sockets in map_udpfd_NonBlockIO
    link,           \* who handles a socket: peer_communication ("open") or peer;
                    \* "broken" and "closed" are what UDT says of it
    owner,          \* the child at the other end
    queued,         \* the sockets in map_udpfd_out_data and map_udpfd_out_ctrl
    info            \* the sockets in map_udpfd_queue

recordVars == <<conn, manifest, sock>>
linkVars == <<recordVars, session, nonblocking, link, owner, queued, info>>

SubStreams == 0..(SubStreamNum - 1)
Links == 1..MaxLinks
SessionId == 1..MaxSessions
Dir == {"out", "in"}     \* p_candidates_info: we connect; n_candidates_info: the child does

ConnState == {"none", "connecting", "connected", "selected"}
Phase == {"none", "connecting", "selecting", "end", "stopped"}
LinkState == {"none", "open", "peer", "broken", "closed"}
SessionRec == [
    child  : Children \cup {NoChild},
    phase  : Phase,
    sock   : [Dir -> 0..MaxLinks],
    waits  : SUBSET Dir,      \* directions whose connection_state is PEER_CONNECTING
    builds : BOOLEAN]         \* has its own entry in list_build_connection

NoSession == [child |-> NoChild, phase |-> "none", sock |-> [d \in Dir |-> 0],
              waits |-> {}, builds |-> FALSE]

LinkTypeOK ==
    /\ conn \in [Children -> ConnState]
    /\ manifest \in [Children -> SUBSET SubStreams]
    /\ sock \in [Children -> 0..MaxLinks]
    /\ session \in [SessionId -> SessionRec]
    /\ nonblocking \in SUBSET Links
    /\ link \in [Links -> LinkState]
    /\ owner \in [Links -> Children \cup {NoChild}]
    /\ queued \in SUBSET Links
    /\ info \in SUBSET Links

LinkInit ==
    /\ conn = [c \in Children |-> "none"]
    /\ manifest = [c \in Children |-> {}]
    /\ sock = [c \in Children |-> 0]
    /\ session = [i \in SessionId |-> NoSession]
    /\ nonblocking = {}
    /\ link = [l \in Links |-> "none"]
    /\ owner = [l \in Links |-> NoChild]
    /\ queued = {}
    /\ info = {}

Live(i) == session[i].phase \in {"connecting", "selecting", "end"}
Socks(i) == {session[i].sock[d] : d \in Dir} \ {0}
SessionsWith(l) == {i \in SessionId : Live(i) /\ l \in Socks(i)}
Unselected(c) == conn[c] \in {"connecting", "connected"}

\* Session ids and sockets are handed out in order.
NextSession(i) == session[i].phase = "none" /\ \A j \in 1..(i - 1) : session[j].phase # "none"
NextLink(l) == link[l] = "none" /\ \A k \in 1..(l - 1) : link[k] # "none"

----------------------------------------------------------------------------
(* Closing children *)

\* Mutant of CloseChildren: the records stay.
CloseChildrenKeepingRecords(cs) ==
    /\ link' = [l \in Links |-> IF \E c \in cs : sock[c] = l THEN "closed" ELSE link[l]]
    /\ queued' = queued \ {sock[c] : c \in cs}
    /\ UNCHANGED recordVars

\* CloseChildUDP, for the sockets of the records; map_udpfd_queue is left alone.
CloseChildren(cs) ==
    /\ conn' = [c \in Children |-> IF c \in cs THEN "none" ELSE conn[c]]
    /\ manifest' = [c \in Children |-> IF c \in cs THEN {} ELSE manifest[c]]
    /\ sock' = [c \in Children |-> IF c \in cs THEN 0 ELSE sock[c]]
    /\ link' = [l \in Links |-> IF \E c \in cs : sock[c] = l THEN "closed" ELSE link[l]]
    /\ queued' = queued \ {sock[c] : c \in cs}

----------------------------------------------------------------------------
(* Sessions *)

\* SetCandidates with caller PARENT_PEER: only the session that creates the
\* record connects to the child.
Invite(i, c) ==
    /\ NextSession(i)
    /\ session' = [session EXCEPT ![i] =
         [child |-> c, phase |-> "connecting", sock |-> [d \in Dir |-> 0],
          waits |-> IF conn[c] \in {"none", "connecting"} THEN Dir ELSE {"in"},
          builds |-> conn[c] = "none"]]
    /\ conn' = [conn EXCEPT ![c] = IF @ = "none" THEN "connecting" ELSE @]
    /\ UNCHANGED <<manifest, sock, nonblocking, link, owner, queued, info>>

\* A connection of session i is up: in io_connect_udp if we built it, in
\* io_nonblocking_udp, with the ROLE message that names the session, if the
\* child did.  All sessions that wait for this child take its socket.
Connected(i, d, l) ==
    /\ Live(i) /\ NextLink(l)
    /\ d = "out" => session[i].builds /\ "out" \in session[i].waits
    /\ LET c == session[i].child
           Takes(j) == j = i \/ (Live(j) /\ session[j].child = c /\ d \in session[j].waits)
       IN  /\ session' = [j \in SessionId |->
                IF Takes(j) THEN [session[j] EXCEPT !.sock[d] = l, !.waits = @ \ {d}]
                            ELSE session[j]]
           /\ conn' = [conn EXCEPT ![c] = IF @ = "connecting" THEN "connected" ELSE @]
           /\ owner' = [owner EXCEPT ![l] = c]
    /\ link' = [link EXCEPT ![l] = "open"]
    /\ nonblocking' = nonblocking \cup {l}
    /\ UNCHANGED <<manifest, sock, queued, info>>

\* The timers of the session; sessions are older the smaller their number.
ConnectTimeout(i) ==
    /\ session[i].phase = "connecting"
    /\ \A j \in 1..(i - 1) : session[j].phase # "connecting"
    /\ session' = [session EXCEPT ![i].phase = "selecting"]
    /\ UNCHANGED <<recordVars, nonblocking, link, owner, queued, info>>

SelectDone(i) ==
    /\ session[i].phase = "selecting"
    /\ \A j \in 1..(i - 1) : session[j].phase \notin {"connecting", "selecting"}
    /\ session' = [session EXCEPT ![i].phase = "end"]
    /\ UNCHANGED <<recordVars, nonblocking, link, owner, queued, info>>

\* Mutant of ClosesRecord: only a record that is connected.
ClosesRecordConnected(c) == conn[c] = "connected" /\ manifest[c] = {}

\* Mutant of ClosesRecord: never.
ClosesRecordNever(c) == FALSE

\* Mutant of ClosesRecord: whatever its state, if nothing was asked for.
ClosesRecordAsking(c) == conn[c] # "none" /\ manifest[c] = {}

\* A stopping session closes the record of a child that was not selected.
ClosesRecord(c) == Unselected(c) /\ manifest[c] = {}

\* Mutant of ClosesSocks: also the socket of the child.
ClosesSocksAll(i, c) == IF ClosesRecord(c) \/ conn[c] = "selected" THEN Socks(i) ELSE {}

\* The sockets it closes: both, or all but the one the child uses, or none if
\* there is no record any more.
ClosesSocks(i, c) ==
    IF ClosesRecord(c) THEN Socks(i)
    ELSE IF conn[c] = "selected" THEN Socks(i) \ {sock[c]}
    ELSE {}

\* Mutant of StopSession: a session without a record is not erased.
StopSessionWithRecord(i) ==
    /\ session[i].phase = "end"
    /\ \A j \in 1..(i - 1) : session[j].phase # "end"
    /\ LET c == session[i].child IN
         /\ conn[c] # "none"
         /\ link' = [l \in Links |-> IF l \in ClosesSocks(i, c) THEN "closed" ELSE link[l]]
         /\ conn' = [conn EXCEPT ![c] = IF ClosesRecord(c) THEN "none" ELSE @]
    /\ nonblocking' = nonblocking \ Socks(i)
    /\ session' = [session EXCEPT ![i] = [NoSession EXCEPT !.phase = "stopped"]]
    /\ UNCHANGED <<manifest, sock, owner, queued, info>>

\* The loop over the sessions breaks at the first in SESSION_END.  Sockets are
\* closed, what is queued for them stays (CloseSocketUDP).
StopSession(i) ==
    /\ session[i].phase = "end"
    /\ \A j \in 1..(i - 1) : session[j].phase # "end"
    /\ LET c == session[i].child IN
         /\ link' = [l \in Links |-> IF l \in ClosesSocks(i, c) THEN "closed" ELSE link[l]]
         /\ conn' = [conn EXCEPT ![c] = IF ClosesRecord(c) THEN "none" ELSE @]
    /\ nonblocking' = nonblocking \ Socks(i)
    /\ session' = [session EXCEPT ![i] = [NoSession EXCEPT !.phase = "stopped"]]
    /\ UNCHANGED <<manifest, sock, owner, queued, info>>

----------------------------------------------------------------------------
(* Messages of a child *)

\* PEER_CON: the socket gets queues and is handled by peer from now on.  If the
\* record was closed in the meantime, the socket belongs to nobody.
PeerCon(l) ==
    /\ link[l] = "open" /\ SessionsWith(l) # {} /\ l \in nonblocking
    /\ LET c == owner[l] IN
         IF conn[c] # "none"
         THEN /\ conn' = [conn EXCEPT ![c] = "selected"]
              /\ sock' = [sock EXCEPT ![c] = l]
         ELSE UNCHANGED <<conn, sock>>
    /\ link' = [link EXCEPT ![l] = "peer"]
    /\ queued' = queued \cup {l}
    /\ info' = info \cup {l}
    /\ UNCHANGED <<manifest, session, nonblocking, owner>>

\* Any message after a session that shared the socket has stopped.
RefuseShared(l) ==
    /\ link[l] = "open" /\ SessionsWith(l) # {} /\ l \notin nonblocking
    /\ link' = [link EXCEPT ![l] = "closed"]
    /\ UNCHANGED <<recordVars, session, nonblocking, owner, queued, info>>

\* SET_MANIFEST with ADD_OP or MINUS_OP; a message with manifest 0 closes the
\* child, if it came by the socket of the record.  A socket the record does not
\* have is closed before its next message is read (CloseOrphan), unless both
\* were ready in the same round: the child is then still selected.
SetManifest(l, add, m) ==
    /\ link[l] = "peer" /\ conn[owner[l]] = "selected"
    /\ LET c == owner[l] IN
         IF m = {} /\ sock[c] = l
         THEN CloseChildren({c})
         ELSE /\ manifest' = [manifest EXCEPT ![c] = IF add THEN @ \cup m ELSE @ \ m]
              /\ UNCHANGED <<conn, sock, link, queued>>
    /\ UNCHANGED <<session, nonblocking, owner, info>>

----------------------------------------------------------------------------
(* Sockets that break *)

\* The connection is lost, or the child closes it.
Break(l) ==
    /\ link[l] \in {"open", "peer"}
    /\ link' = [link EXCEPT ![l] = IF @ = "open" THEN "closed" ELSE "broken"]
    /\ UNCHANGED <<recordVars, session, nonblocking, owner, queued, info>>

\* UDT closes a broken socket.
Reap(l) ==
    /\ link[l] = "broken"
    /\ link' = [link EXCEPT ![l] = "closed"]
    /\ UNCHANGED <<recordVars, session, nonblocking, owner, queued, info>>

\* The socket takes only a part of a chunk: nonblock_send closes it, and tells
\* nobody.
SendPart(l) ==
    /\ link[l] = "peer" /\ \E c \in Children : sock[c] = l
    /\ link' = [link EXCEPT ![l] = "closed"]
    /\ UNCHANGED <<recordVars, session, nonblocking, owner, queued, info>>

\* A send or receive of peer fails.
Fail(c) ==
    /\ conn[c] = "selected" /\ link[sock[c]] = "broken"
    /\ CloseChildren({c})
    /\ UNCHANGED <<session, nonblocking, owner, info>>

\* Mutant of CloseOrphan: only a broken one.
CloseOrphanBroken(l) ==
    /\ link[l] = "broken" /\ \A c \in Children : sock[c] # l
    /\ link' = [link EXCEPT ![l] = "closed"]
    /\ UNCHANGED <<recordVars, session, nonblocking, owner, queued, info>>

\* handle_pkt_out_udp closes a socket no record has.
CloseOrphan(l) ==
    /\ link[l] \in {"peer", "broken"} /\ \A c \in Children : sock[c] # l
    /\ link' = [link EXCEPT ![l] = "closed"]
    /\ UNCHANGED <<recordVars, session, nonblocking, owner, queued, info>>

----------------------------------------------------------------------------
(* time_handle looks at all sockets *)

\* What a walk over the keys S that erases the entries D erases: after an entry
\* it starts again, at the second one.
Walked(S, D) ==
    {x \in D : \A f \in S \cap D :
        \/ f = x \/ \E y \in S : y < f
        \/ \E y \in S \ {f} : y < x}

\* Mutant of Broken: a broken socket is not tested for, only a closed one.
BrokenClosedOnly(c) == conn[c] = "selected" /\ link[sock[c]] = "closed"

Broken(c) == conn[c] = "selected" /\ link[sock[c]] \in {"broken", "closed"}

\* Once a second the entries of closed sockets are erased from map_udpfd_queue
\* (UDT numbers sockets downwards); every time the children with broken
\* sockets are closed.
CheckSockets(second) ==
    /\ CloseChildren(Walked({c \in Children : conn[c] # "none"}, {c \in Children : Broken(c)}))
    /\ info' = IF second
                THEN info \ {-k : k \in Walked({-l : l \in info}, {-l : l \in {m \in info : link[m] = "closed"}})}
                ELSE info
    /\ UNCHANGED <<session, nonblocking, owner>>

----------------------------------------------------------------------------

SessionTimer(i) == ConnectTimeout(i) \/ SelectDone(i) \/ StopSession(i)

\* One message: a sub-stream less, or the whole manifest of the child.
Message(l) ==
    \/ \E m \in SUBSET SubStreams : SetManifest(l, TRUE, m)
    \/ \E s \in SubStreams : SetManifest(l, FALSE, {s})

Environment(l) == Break(l) \/ Reap(l) \/ SendPart(l)

LinkStep(l) == PeerCon(l) \/ RefuseShared(l) \/ Message(l) \/ Environment(l) \/ CloseOrphan(l)

LinkNext ==
    \/ \E i \in SessionId, c \in Children : Invite(i, c)
    \/ \E i \in SessionId, d \in Dir, l \in Links : Connected(i, d, l)
    \/ \E i \in SessionId : SessionTimer(i)
    \/ \E l \in Links : LinkStep(l)
    \/ \E c \in Children : Fail(c)
    \/ \E second \in BOOLEAN : CheckSockets(second)

LinkSpec == LinkInit /\ [][LinkNext]_linkVars

\* time_handle is called for ever, and a socket without a record is writable.
LinkFairness ==
    /\ \A i \in SessionId : WF_linkVars(SessionTimer(i))
    /\ WF_linkVars(CheckSockets(FALSE))
    /\ \A l \in Links : WF_linkVars(CloseOrphan(l))

LinkFairSpec == LinkSpec /\ LinkFairness

----------------------------------------------------------------------------
(* Safety *)

\* A selected child has queues for its socket, and the socket leads to it: the
\* assertions in time_handle and GetQueueInfo that stop the program
\* ("Found child-peer in map_out_pid_udpfd but not found in map_udpfd_out_data")
\* never fail, although sockets are shared, replaced and closed by sessions.
QueueFound ==
    \A c \in Children :
        conn[c] = "selected" => sock[c] \in queued /\ owner[sock[c]] = c

\* Who is not selected has a live session, whose end will close the record.
RecordOwned ==
    \A c \in Children : Unselected(c) => \E i \in SessionId : Live(i) /\ session[i].child = c

Record == [c \in Children |-> IF Unselected(c) THEN "candidate" ELSE conn[c]]
Holders == [c \in Children |-> {i \in SessionId : Live(i) /\ session[i].child = c}]

Records == INSTANCE SharedRecords WITH
    Peers <- Children, Sessions <- SessionId, record <- Record, holders <- Holders

\* Sessions share the entries of map_pid_child as they share those of parents:
\* the first makes the entry, PEER_CON takes it from all of them for good, and
\* one that was never selected goes with the last session for the child, if not
\* before.
RecordsSpec == Records!Spec

\* Nothing a session does, for whichever child, ends the connection a selected
\* child uses, although sessions share sockets.
SessionsKeepSelected ==
    [][session' # session =>
         \A c \in Children :
            conn[c] = "selected" =>
                /\ conn'[c] = "selected" /\ sock'[c] = sock[c]
                /\ link'[sock[c]] = link[sock[c]]]_linkVars

----------------------------------------------------------------------------
(* Liveness *)

\* Every session ends.
SessionsEnd == \A i \in SessionId : Live(i) ~> ~Live(i)

\* A child that was invited is selected or forgotten.
InvitedSettled == \A c \in Children : Unselected(c) ~> ~Unselected(c)

\* A child whose socket is broken or closed is forgotten, in spite of the walk
\* over the children that may step over one.
BrokenForgotten ==
    \A l \in Links : link[l] \in {"broken", "closed"} ~> \A c \in Children : sock[c] # l

\* A socket that has queues but no child is closed.
OrphansClosed ==
    \A l \in Links : link[l] = "peer" /\ (\A c \in Children : sock[c] # l) ~> link[l] = "closed"

----------------------------------------------------------------------------
(* What the code says and does not do *)

\* "Found child-peer in map_udpfd_queue but not found in map_udpfd_out_data":
\* a selected child with queues has an entry in map_udpfd_queue, which
\* OverloadedDetection and HandleRelayStream2 use without a test.
QueueInfoFound ==
    \A c \in Children : conn[c] = "selected" /\ sock[c] \in queued => sock[c] \in info
=============================================================================
