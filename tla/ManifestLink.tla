---------------------------- MODULE ManifestLink ----------------------------
(***************************************************************************)
(* A child and its parent: both ends of one manifest.                      *)
(*                                                                         *)
(* ChildLink is the parent's end, with messages of its children that come  *)
(* from nowhere.  Here one of the children, Me, is modelled too: its own   *)
(* sessions and its record of the parent, the choice of a connection, the  *)
(* queue of control messages of that connection, and the wires.  The       *)
(* child's manifest is the set of sub-streams it expects, the parent's the *)
(* set it sends; only PEER_CON and SET_MANIFEST messages bring the two     *)
(* together, over several connections and behind several failures.         *)
(*                                                                         *)
(* Left out: other candidates of a session (they show as the choice not to *)
(* pick this one), and connections that only one of the two has a session  *)
(* for.  Sessions of the two are numbered alike, by peercomm_session.      *)
(***************************************************************************)
EXTENDS ChildLink, Sequences

CONSTANT Me         \* the pid of the child

ASSUME MeAssumption == Me \in Children

VARIABLES
    myConn,         \* connection_state of the map_pid_parent entry
    expected,       \* its manifest
    mySock,         \* its sock
    mySession,      \* map_mysession_candidates, the sessions with myrole CHILD_PEER
    myNonblocking,  \* the sockets in map_udpfd_NonBlockIO
    myQueued,       \* the sockets in map_udpfd_out_ctrl
    queue,          \* map_udpfd_out_ctrl[mySock]
    shut,           \* the sockets the child has closed
    wire,           \* messages sent and not yet read, per socket
    lastCon         \* the socket the parent read last, if it read PEER_CON

recVars == <<myConn, expected, mySock>>
childVars == <<recVars, mySession, myNonblocking, myQueued, queue, shut, wire>>
manifestVars == <<linkVars, childVars, lastCon>>

\* A direction a session has for the parent: up is PEER_CONNECTED, with sock 0
\* if the connection was there before the session.
Way == [up : BOOLEAN, sock : 0..MaxLinks]
MySessionRec == [
    phase  : Phase,
    subs   : SUBSET SubStreams,
    way    : [Dir -> Way],
    heard  : BOOLEAN,       \* PS_class of the candidate is known
    builds : BOOLEAN]
Closed == [up |-> FALSE, sock |-> 0]
NoMySession == [phase |-> "none", subs |-> {}, way |-> [d \in Dir |-> Closed],
                heard |-> FALSE, builds |-> FALSE]

Msg == [op : {"con", "add", "minus"}, subs : SUBSET SubStreams]
Con == [op |-> "con", subs |-> {}]
Add(m) == [op |-> "add", subs |-> m]
Minus(s) == [op |-> "minus", subs |-> {s}]

ManifestTypeOK ==
    /\ LinkTypeOK
    /\ myConn \in ConnState
    /\ expected \in SUBSET SubStreams
    /\ mySock \in 0..MaxLinks
    /\ mySession \in [SessionId -> MySessionRec]
    /\ myNonblocking \in SUBSET Links
    /\ myQueued \in SUBSET Links
    /\ queue \in Seq(Msg)
    /\ shut \in SUBSET Links
    /\ wire \in [Links -> Seq(Msg)]
    /\ lastCon \in 0..MaxLinks

ManifestInit ==
    /\ LinkInit
    /\ myConn = "none" /\ expected = {} /\ mySock = 0
    /\ mySession = [i \in SessionId |-> NoMySession]
    /\ myNonblocking = {} /\ myQueued = {} /\ queue = <<>> /\ shut = {}
    /\ wire = [l \in Links |-> <<>>]
    /\ lastCon = 0

MyLive(i) == mySession[i].phase \in {"connecting", "selecting", "end"}
MySocks(i) == {mySession[i].way[d].sock : d \in Dir} \ {0}

\* The socket still works, as far as the child can tell.
Up(l) == l \in Links \ shut /\ link[l] \in {"open", "peer"}

----------------------------------------------------------------------------
(* Sessions of the child *)

\* SetCandidates with caller CHILD_PEER, for the sub-streams ss.
Listed(i, ss) ==
    /\ mySession[i].phase = "none" /\ \A j \in 1..(i - 1) : mySession[j].phase # "none"
    /\ mySession' = [mySession EXCEPT ![i] =
         [NoMySession EXCEPT !.phase = "connecting", !.subs = ss, !.builds = myConn = "none",
                             !.way["out"] = [up |-> myConn \in {"connected", "selected"}, sock |-> 0]]]
    /\ myConn' = IF myConn = "none" THEN "connecting" ELSE myConn
    /\ expected' = expected \cup ss
    /\ UNCHANGED <<linkVars, mySock, myNonblocking, myQueued, queue, shut, wire>>

Opposite(d) == IF d = "out" THEN "in" ELSE "out"

\* A connection is up, between session i of the parent, in its direction d, and
\* session i of the child: io_connect_udp if the child built it (the ROLE reply
\* is for all sessions with the socket), io_nonblocking_udp if the parent did
\* (its ROLE message is for session i).
MyConnected(i, d, l) ==
    /\ MyLive(i) /\ (d = "out" => mySession[i].builds /\ ~mySession[i].way[d].up)
    /\ LET Takes(j) == j = i \/ (MyLive(j) /\ ~mySession[j].way[d].up) IN
       mySession' = [j \in SessionId |->
         IF Takes(j)
         THEN [mySession[j] EXCEPT !.way[d] = [up |-> TRUE, sock |-> l],
                                   !.heard = @ \/ d = "out" \/ j = i,
                                   !.builds = @ /\ d # "out"]
         ELSE mySession[j]]
    /\ myConn' = IF myConn = "connecting" THEN "connected" ELSE myConn
    /\ myNonblocking' = myNonblocking \cup {l}
    /\ UNCHANGED <<expected, mySock, myQueued, queue, shut, wire>>

Linked(i, d, l) == Connected(i, d, l) /\ MyConnected(i, Opposite(d), l)

MyTimeout(i) ==
    /\ mySession[i].phase = "connecting"
    /\ \A j \in 1..(i - 1) : mySession[j].phase # "connecting"
    /\ mySession' = [mySession EXCEPT ![i].phase = "selecting"]
    /\ UNCHANGED <<linkVars, recVars, myNonblocking, myQueued, queue, shut, wire>>

Connects(i) == \E d \in Dir : mySession[i].way[d].up

\* The connection SelectStrategy takes: the child's own first; if the session
\* has no socket for it, the record keeps its own.
Chosen(i) ==
    LET w == IF mySession[i].way["out"].up THEN mySession[i].way["out"]
                                           ELSE mySession[i].way["in"]
    IN  IF w.sock # 0 THEN w.sock ELSE mySock

Selecting(i) ==
    /\ mySession[i].phase = "selecting"
    /\ \A j \in 1..(i - 1) : mySession[j].phase \notin {"connecting", "selecting"}
    /\ mySession' = [mySession EXCEPT ![i].phase = "end"]

\* Mutant of Announce: the manifest is queued, then the queue made.
AnnounceBeforeQueue(l) ==
    /\ wire' = IF Up(l) THEN [wire EXCEPT ![l] = Append(@, Con)] ELSE wire
    /\ myQueued' = myQueued \cup {l}
    /\ queue' = <<>>

\* Mutant of Announce: no PEER_CON from a parent that is selected already.
AnnounceOnce(l) ==
    /\ wire' = IF Up(l) /\ myConn # "selected" THEN [wire EXCEPT ![l] = Append(@, Con)] ELSE wire
    /\ myQueued' = myQueued \cup {l}
    /\ queue' = <<Add(expected)>>

\* SendPeerCon, for a socket that is in map_udpfd_NonBlockIO: PEER_CON goes out
\* at once, past all that is queued, and is lost if the socket is; InitPeerInfo
\* makes new queues; the whole manifest is queued.
Announce(l) ==
    /\ wire' = IF Up(l) THEN [wire EXCEPT ![l] = Append(@, Con)] ELSE wire
    /\ myQueued' = myQueued \cup {l}
    /\ queue' = <<Add(expected)>>

\* SelectStrategy picks the parent, and SendPeerCon tells it so, or gives up.
Select(i) ==
    /\ Selecting(i) /\ Connects(i)
    /\ myConn = "selected" \/ (myConn # "none" /\ mySession[i].heard)
    /\ myConn' = "selected"
    /\ mySock' = Chosen(i)
    /\ IF Chosen(i) \in myNonblocking THEN Announce(Chosen(i))
                                      ELSE UNCHANGED <<wire, myQueued, queue>>
    /\ UNCHANGED <<linkVars, expected, myNonblocking, shut>>

\* It picks another candidate, or none: what the session was for is not
\* expected of this parent, unless it is selected already.
Pass(i) ==
    /\ Selecting(i)
    /\ expected' = IF myConn = "selected" THEN expected ELSE expected \ mySession[i].subs
    /\ UNCHANGED <<linkVars, myConn, mySock, myNonblocking, myQueued, queue, shut, wire>>

\* CloseParent: the socket of the record and its queues go with the record.
MyClose ==
    /\ myConn' = "none" /\ expected' = {} /\ mySock' = 0
    /\ myQueued' = myQueued \ {mySock}
    /\ queue' = <<>>

MyStop(i) ==
    /\ mySession[i].phase = "end"
    /\ \A j \in 1..(i - 1) : mySession[j].phase # "end"
    /\ mySession' = [mySession EXCEPT ![i] = [NoMySession EXCEPT !.phase = "stopped"]]
    /\ CASE myConn \in {"connecting", "connected"} /\ expected = {} ->
              /\ MyClose
              /\ shut' = shut \cup MySocks(i)
              /\ myNonblocking' = myNonblocking \ MySocks(i)
         [] myConn = "selected" ->
              /\ shut' = shut \cup (MySocks(i) \ {mySock})
              /\ UNCHANGED <<recVars, myNonblocking, myQueued, queue>>
         [] OTHER -> UNCHANGED <<recVars, shut, myNonblocking, myQueued, queue>>
    /\ UNCHANGED <<linkVars, wire>>

----------------------------------------------------------------------------
(* The record of the parent, in use *)

\* send_manifest_to_parent: without queues for the socket nothing is said.
Tell(m) == queue' = IF mySock \in myQueued THEN Append(queue, m) ELSE queue

\* Sub-stream s is not taken from this parent any more, and a parent that is
\* of no use is closed.
Drop(s) ==
    /\ myConn # "none" /\ s \in expected
    /\ IF expected = {s}
       THEN MyClose /\ shut' = shut \cup ({mySock} \ {0})
       ELSE /\ expected' = expected \ {s}
            /\ Tell(Minus(s))
            /\ UNCHANGED <<myConn, mySock, myQueued, shut>>
    /\ UNCHANGED <<linkVars, mySession, myNonblocking, wire>>

\* Mutant of DropMoved: the parent is not told.
DropMovedSilently(s) ==
    /\ myConn = "selected" /\ s \in expected
    /\ expected' = expected \ {s}
    /\ UNCHANGED <<linkVars, myConn, mySock, mySession, myNonblocking, myQueued, queue, shut, wire>>

\* s has moved to another parent: this one is not closed, for the socket
\* CloseParent is given is the other one's.
DropMoved(s) ==
    /\ myConn = "selected" /\ s \in expected
    /\ expected' = expected \ {s}
    /\ Tell(Minus(s))
    /\ UNCHANGED <<linkVars, myConn, mySock, mySession, myNonblocking, myQueued, shut, wire>>

\* handle_pkt_out_udp sends the queue of the record's socket.
Send ==
    /\ mySock \in myQueued /\ queue # <<>> /\ Up(mySock)
    /\ wire' = [wire EXCEPT ![mySock] = Append(@, Head(queue))]
    /\ queue' = Tail(queue)
    /\ UNCHANGED <<linkVars, recVars, mySession, myNonblocking, myQueued, shut>>

\* It closes a socket that no record has.
CloseReplaced(l) ==
    /\ l \in myQueued \ shut /\ l # mySock
    /\ shut' = shut \cup {l}
    /\ UNCHANGED <<linkVars, recVars, mySession, myNonblocking, myQueued, queue, wire>>

\* A send or receive fails, or time_handle sees the broken socket.
MyFail ==
    /\ mySock \in myQueued /\ link[mySock] \in {"broken", "closed"}
    /\ MyClose
    /\ shut' = shut \cup {mySock}
    /\ UNCHANGED <<linkVars, mySession, myNonblocking, wire>>

----------------------------------------------------------------------------
(* The parent reads *)

\* The parent reads one message of each readable socket, and only then closes
\* the sockets no record has: a replaced socket can be read once more.
Readable(l) == sock[Me] = l \/ (lastCon # 0 /\ lastCon = sock[Me])

\* What is unread on a socket that is closed or broken is lost.
Unread(w) == [l \in Links |-> IF link'[l] \in {"open", "peer"} THEN w[l] ELSE <<>>]

Deliver(l) ==
    /\ wire[l] # <<>>
    /\ LET m == Head(wire[l]) IN
         \/ /\ m.op = "con"
            /\ PeerCon(l) \/ RefuseShared(l)
            /\ lastCon' = l
         \/ /\ m.op = "con" /\ link[l] = "peer"
            /\ lastCon' = 0
            /\ UNCHANGED linkVars
         \/ /\ m.op # "con" /\ Readable(l)
            /\ SetManifest(l, m.op = "add", m.subs)
            /\ lastCon' = 0
    /\ wire' = Unread([wire EXCEPT ![l] = Tail(@)])
    /\ UNCHANGED <<recVars, mySession, myNonblocking, myQueued, queue, shut>>

----------------------------------------------------------------------------

MySessionTimer(i) == MyTimeout(i) \/ Select(i) \/ Pass(i) \/ MyStop(i)

\* What the parent does without the child.
Alone == wire' = Unread(wire) /\ UNCHANGED <<recVars, mySession, myNonblocking, myQueued, queue, shut, lastCon>>
ParentTimer(i) == SessionTimer(i) /\ Alone
ParentChecks == CheckSockets(FALSE) /\ Alone
ParentCloses(l) == CloseOrphan(l) /\ Alone
ParentStep ==
    \/ \E i \in SessionId : Invite(i, Me) /\ Alone
    \/ \E i \in SessionId : ParentTimer(i)
    \/ \E l \in Links : Break(l) /\ Alone
    \/ \E l \in Links : ParentCloses(l)
    \/ Fail(Me) /\ Alone
    \/ ParentChecks

ChildStep ==
    \/ \E i \in SessionId : (\E ss \in SUBSET SubStreams \ {{}} : Listed(i, ss)) \/ MySessionTimer(i)
    \/ \E s \in SubStreams : Drop(s) \/ DropMoved(s)
    \/ Send
    \/ \E l \in Links : CloseReplaced(l)
    \/ MyFail

ManifestNext ==
    \/ ParentStep
    \/ ChildStep /\ UNCHANGED lastCon
    \/ \E i \in SessionId, d \in Dir, l \in Links : Linked(i, d, l) /\ UNCHANGED lastCon
    \/ \E l \in Links : Deliver(l)

ManifestSpec == ManifestInit /\ [][ManifestNext]_manifestVars

\* Sockets that are readable and writable are served for ever.
ManifestFairness ==
    /\ WF_manifestVars(Send /\ UNCHANGED lastCon)
    /\ \A l \in Links : WF_manifestVars(Deliver(l)) /\ WF_manifestVars(ParentCloses(l))

ManifestFairSpec == ManifestSpec /\ ManifestFairness

----------------------------------------------------------------------------
(* What the two ends know of each other *)

\* The child's connection, as long as the parent answers it: a parent that has
\* not read PEER_CON yet has a session and a record that wait for it.
Answers(l) ==
    \/ link[l] = "peer" /\ sock[Me] = l
    \/ link[l] = "open" /\ SessionsWith(l) # {} /\ l \in nonblocking /\ conn[Me] # "none"

Talking == myConn = "selected" /\ mySock \in myQueued /\ Up(mySock) /\ Answers(mySock)

\* What the child has told the parent by its connection, and the parent not read.
Talk == wire[mySock] \o queue

\* The sockets the parent may read before it reads that one.
Others == {l \in Links \ {mySock} : sock[Me] # mySock \/ lastCon = mySock}

\* What messages q say of sub-stream s: something of this kind; this last;
\* nothing.
Mentions(q, s, op) == \E k \in 1..Len(q) : q[k].op = op /\ s \in q[k].subs
LastSays(q, s, op) ==
    \E k \in 1..Len(q) :
        /\ q[k].op = op /\ s \in q[k].subs
        /\ \A j \in k + 1..Len(q) : s \notin q[j].subs
Silent(q, s) == \A k \in 1..Len(q) : s \notin q[k].subs

\* The parent can be one that sends s ("add"), or does not ("minus"), once it
\* has read all the child has sent and queued.
Outcome(s, op) ==
    \/ LastSays(Talk, s, op)
    \/ /\ Silent(Talk, s)
       /\ \/ op = "add" <=> s \in manifest[Me]
          \/ \E l \in Others : Mentions(wire[l], s, op)

Missing == IF Talking THEN {s \in expected : Outcome(s, "minus")} ELSE {}
Excess == IF Talking THEN {s \in SubStreams \ expected : Outcome(s, "add")} ELSE {}

Lists == \E i \in SessionId : mySession[i].phase = "none" /\ mySession'[i].phase # "none"
Ends == \E i \in SessionId : mySession[i].phase = "selecting" /\ mySession'[i].phase = "end"

\* A sub-stream the child expects and the parent will not send, for all that is
\* on its way, comes of one step only: a list that names a parent in use.  No
\* message, whichever connection it takes and whatever it passes, no choice of
\* a connection and no timer of either end makes one (send_manifest_to_parent,
\* SendPeerCon, handle_manifestSet).
MissingOnlyByListing ==
    [][(Talking \/ Ends) /\ ~Lists => Missing' \subseteq Missing]_manifestVars

\* A sub-stream the parent will send and the child does not expect any more
\* comes of one step only: a session that picks the parent in use once more,
\* and throws away the MINUS that is still queued (InitPeerInfo).
ExcessOnlyBySelection ==
    [][Talking /\ ~Ends => Excess' \subseteq Excess]_manifestVars

\* PEER_CON settles which connection the two use, also when both connected and
\* the child changes its mind: in the end the parent's is the child's, or the
\* child's is dead, or it comes too late for any session of the parent's, which
\* then never reads it.
Answered ==
    mySock \in myQueued ~>
        \/ mySock \notin myQueued \/ ~Up(mySock)
        \/ sock[Me] = mySock
        \/ link[mySock] = "open" /\ SessionsWith(mySock) = {}

----------------------------------------------------------------------------
(* What the code says and does not do *)

\* "What becomes PEER_SELECTED will be a true parent, the others lose in this
\* peercomm_session": a parent that a session picks is asked for what the
\* session is for.  But who loses in one session is stripped of its sub-streams
\* in the record all sessions share, and is picked by another with an empty
\* manifest, which the parent takes for a farewell.
SelectedIsAsked ==
    [][\A i \in SessionId : Select(i) => mySession[i].subs \subseteq expected']_manifestVars
=============================================================================
