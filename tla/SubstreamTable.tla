--------------------------- MODULE SubstreamTable ---------------------------
(***************************************************************************)
(* Where one peer gets each sub-stream from.                               *)
(*                                                                         *)
(* pk_mgr keeps, per sub-stream, the parent it plays from, a state and the *)
(* parent under test (ss_table), and per parent a manifest, the set of     *)
(* sub-streams it expects from that parent (map_pid_parent).  PK, the      *)
(* tracker that is also the source of last resort, is one of the parents.  *)
(* Lists of candidate parents open sessions; a session connects, selects   *)
(* one candidate, tests it, and the test keeps it or falls back to PK.     *)
(* The state here is the one after CHNK_CMD_PEER_REG was handled.          *)
(*                                                                         *)
(* Bounds: MaxSessions candidate lists and MaxBlocks BLOCK_RESCUE messages *)
(* per behaviour.                                                          *)
(***************************************************************************)
EXTENDS Integers, FiniteSets

CONSTANTS
    Peers,          \* pids of the peers that can be parents
    PK,             \* PK_PID
    NoPeer,         \* the pid -1 of an empty table entry
    Substreams,     \* sub-stream ids
    MaxSessions,
    MaxBlocks

ASSUME PeersAssumption == Peers \subseteq Nat
ASSUME PKAssumption == PK \in Nat /\ \A p \in Peers : p < PK
ASSUME NoPeerAssumption == NoPeer \notin Peers \cup {PK}
ASSUME BoundsAssumption == MaxSessions \in Nat \ {0} /\ MaxBlocks \in Nat

VARIABLES
    pkManifest,       \* pkDownInfoPtr->peerInfo.manifest
    asked,            \* sub-streams PK was asked to send, by a message or as seed
    conn,             \* connection_state of each map_pid_parent entry
    manifest,         \* manifest of each map_pid_parent entry
    parent,           \* ss_table[].current_parent_pid
    state,            \* ss_table[].state.state
    tester,           \* ss_table[].testing_parent_pid
    rescueAfterFail,  \* ss_table[].state.rescue_after_fail
    started,          \* ss_table[].first_pkt_received
    heard,            \* ss_table[].inTest.pkt_count is not zero
    idle,             \* DATA_TIMEOUT ms have passed on ss_table[].timer
    blocked,          \* ss_table[].block_rescue
    blocks,           \* BLOCK_RESCUE messages received so far
    session,          \* map_mysession_candidates
    mySession         \* my_session, the id of the next session

subVars  == <<parent, state, tester, rescueAfterFail, started, heard, idle, blocked>>
vars == <<pkManifest, asked, conn, manifest, subVars, blocks, session, mySession>>

SubState == {"init", "stable", "connecting", "rescue", "test"}
ConnState == {"none", "connecting", "connected", "selected"}
Phase == {"none", "connecting", "selecting", "end", "stopped"}
\* "reused": connected through a record another session had connected, so
\* this session never learns the candidate's PS_class.
Link == {"none", "connecting", "reused", "connected"}
SessionId == 1..MaxSessions
SessionRec == [phase : Phase, subs : SUBSET Substreams, link : [Peers -> Link]]

TypeOK ==
    /\ pkManifest \in SUBSET Substreams
    /\ asked \in SUBSET Substreams
    /\ conn \in [Peers -> ConnState]
    /\ manifest \in [Peers -> SUBSET Substreams]
    /\ parent \in [Substreams -> Peers \cup {PK, NoPeer}]
    /\ state \in [Substreams -> SubState]
    /\ tester \in [Substreams -> Peers \cup {NoPeer}]
    /\ rescueAfterFail \in [Substreams -> BOOLEAN]
    /\ started \in [Substreams -> BOOLEAN]
    /\ heard \in [Substreams -> BOOLEAN]
    /\ idle \in [Substreams -> BOOLEAN]
    /\ blocked \in [Substreams -> BOOLEAN]
    /\ blocks \in 0..MaxBlocks
    /\ session \in [SessionId -> SessionRec]
    /\ mySession \in 1..(MaxSessions + 1)

----------------------------------------------------------------------------
(* The parent table *)

Table == {p \in Peers : conn[p] # "none"}

\* Mutant of DropFrom: the parent is never closed.
DropFromKeepingOpen(p, s) ==
    /\ manifest' = [manifest EXCEPT ![p] = @ \ {s}]
    /\ UNCHANGED conn

\* Mutant of DropFrom: the parent is closed whatever else it sends.
DropFromAlwaysClosing(p, s) ==
    /\ manifest' = [manifest EXCEPT ![p] = {}]
    /\ conn' = [conn EXCEPT ![p] = "none"]

\* Take s out of the manifest of p, tell p (MINUS_OP), and close p if nothing
\* is left.
DropFrom(p, s) ==
    /\ manifest' = [manifest EXCEPT ![p] = @ \ {s}]
    /\ conn' = [conn EXCEPT ![p] = IF manifest[p] \subseteq {s} THEN "none" ELSE @]

\* The same when p may have left the table in the meantime.
DropIfPresent(p, s) ==
    IF p \in Table THEN DropFrom(p, s) ELSE UNCHANGED <<manifest, conn>>

\* The data timer of s and the packet count of its test start again.
ResetDetection(s) ==
    /\ idle' = [idle EXCEPT ![s] = FALSE]
    /\ heard' = [heard EXCEPT ![s] = FALSE]

\* The rescue every failure ends in: take s from PK again and ask it for a
\* new list of candidates.
RescueFromPK(s) ==
    /\ pkManifest' = pkManifest \cup {s}
    /\ asked' = asked \cup {s}
    /\ parent' = [parent EXCEPT ![s] = PK]
    /\ state' = [state EXCEPT ![s] = "rescue"]
    /\ ResetDetection(s)

----------------------------------------------------------------------------
(* Sessions *)

NoSession == [phase |-> "none", subs |-> {}, link |-> [p \in Peers |-> "none"]]

Candidates(i) == {p \in Peers : session[i].link[p] # "none"}

Live(i) == session[i].phase \in {"connecting", "selecting", "end"}

\* The map_mysession_candidates entry of candidates cs for the sub-streams ss,
\* and what it does to the parent table: an unknown candidate gets a record, a
\* known one has its manifest extended.
NewSession(ss, cs) ==
    [phase |-> "connecting", subs |-> ss,
     link |-> [p \in Peers |->
                 IF p \notin cs THEN "none"
                 ELSE IF conn[p] \in {"connected", "selected"} THEN "reused"
                 ELSE "connecting"]]

SetCandidates(ss, cs) ==
    /\ session' = [session EXCEPT ![mySession] = NewSession(ss, cs)]
    /\ mySession' = mySession + 1
    /\ conn' = [p \in Peers |-> IF p \in cs /\ conn[p] = "none"
                                THEN "connecting" ELSE conn[p]]
    /\ manifest' = [p \in Peers |-> IF p \in cs THEN manifest[p] \cup ss
                                    ELSE manifest[p]]

\* CHNK_CMD_PEER_REG: PK answers the registration with a first list of
\* candidates for every sub-stream; a seed takes everything from PK at once.
Init ==
    \E cs \in SUBSET Peers, seed \in BOOLEAN :
        /\ pkManifest = IF seed THEN Substreams ELSE {}
        /\ asked = pkManifest
        /\ conn = [p \in Peers |-> IF p \in cs THEN "connecting" ELSE "none"]
        /\ manifest = [p \in Peers |-> IF p \in cs THEN Substreams ELSE {}]
        /\ parent = [s \in Substreams |-> NoPeer]
        /\ state = [s \in Substreams |-> IF cs # {} THEN "connecting" ELSE "init"]
        /\ tester = [s \in Substreams |-> NoPeer]
        /\ rescueAfterFail = [s \in Substreams |-> TRUE]
        /\ started = [s \in Substreams |-> FALSE]
        /\ heard = [s \in Substreams |-> FALSE]
        /\ idle = [s \in Substreams |-> FALSE]
        /\ blocked = [s \in Substreams |-> FALSE]
        /\ blocks = 0
        /\ session = [i \in SessionId |->
             IF i = 1 /\ cs # {}
             THEN [phase |-> "connecting", subs |-> Substreams,
                   link |-> [p \in Peers |-> IF p \in cs THEN "connecting" ELSE "none"]]
             ELSE NoSession]
        /\ mySession = IF cs # {} THEN 2 ELSE 1

\* CHNK_CMD_PEER_RESCUE_LIST: candidates for one sub-stream.  The operation
\* only decides what a failure of the session or of its test leads to, and
\* does so even when the list is empty.
RescueList(s, cs, move) ==
    /\ mySession <= MaxSessions
    /\ rescueAfterFail' = [rescueAfterFail EXCEPT ![s] = ~move]
    /\ IF cs # {}
       THEN /\ SetCandidates({s}, cs)
            /\ state' = [state EXCEPT ![s] = "connecting"]
       ELSE UNCHANGED <<session, mySession, conn, manifest, state>>
    /\ UNCHANGED <<pkManifest, asked, parent, tester, started, heard, idle, blocked, blocks>>

\* A connection to or from candidate p is up: every session waiting for p has
\* it from now on.
Connected(p) ==
    /\ \E i \in SessionId : Live(i) /\ session[i].link[p] = "connecting"
    /\ session' = [i \in SessionId |->
         IF Live(i) /\ session[i].link[p] = "connecting"
         THEN [session[i] EXCEPT !.link[p] = "connected"] ELSE session[i]]
    /\ conn' = [conn EXCEPT ![p] = IF @ = "connecting" THEN "connected" ELSE @]
    /\ UNCHANGED <<pkManifest, asked, manifest, subVars, blocks, mySession>>

\* CONNECT_TIME_OUT of session i; older sessions time out first.
ConnectTimeout(i) ==
    /\ session[i].phase = "connecting"
    /\ \A j \in SessionId : j < i => session[j].phase # "connecting"
    /\ session' = [session EXCEPT ![i].phase = "selecting"]
    /\ UNCHANGED <<pkManifest, asked, conn, manifest, subVars, blocks, mySession>>

\* SelectStrategy can pick a candidate whose PS_class it heard, or one that is
\* already a parent of another sub-stream.  If the latter is not connected in
\* this session, picking it selects nobody; if it is, but its PS_class is still
\* to come, it is selected.
Eligible(i) ==
    {p \in Table : \/ session[i].link[p] = "connected"
                   \/ session[i].link[p] \in {"reused", "connecting"} /\ conn[p] = "selected"}

MayPickNobody(i) ==
    LET parents == {p \in Candidates(i) : conn[p] = "selected"} IN
    parents = {} \/ \E p \in parents : session[i].link[p] = "connecting"

\* Mutant of Select: the candidates that were not picked keep their manifests.
SelectKeepingManifests(i, c) ==
    /\ conn' = [p \in Peers |-> IF p = c THEN "selected" ELSE conn[p]]
    /\ UNCHANGED manifest

\* Candidates whose connection is not the selected one lose the sub-streams
\* of the session.
Select(i, c) ==
    /\ conn' = [p \in Peers |-> IF p = c THEN "selected" ELSE conn[p]]
    /\ manifest' = [p \in Peers |->
         IF p \in Candidates(i) /\ p # c /\ conn[p] # "selected"
         THEN manifest[p] \ session[i].subs ELSE manifest[p]]

\* Mutant of SelectParent: the packets of the test before still count.
SelectParentCounting(i, c) ==
    /\ session[i].phase = "selecting"
    /\ \A j \in SessionId : j < i => session[j].phase \notin {"connecting", "selecting"}
    /\ c \in Eligible(i)
    /\ Select(i, c)
    /\ state' = [s \in Substreams |-> IF s \in session[i].subs THEN "test" ELSE state[s]]
    /\ tester' = [s \in Substreams |-> IF s \in session[i].subs THEN c ELSE tester[s]]
    /\ session' = [session EXCEPT ![i].phase = "end"]
    /\ UNCHANGED <<pkManifest, asked, parent, rescueAfterFail, started, heard, idle, blocked,
                   blocks, mySession>>

\* SelectStrategy, SendPeerCon and SendParentTestToPK when a candidate is
\* picked: it is tested for every sub-stream of the session.
SelectParent(i, c) ==
    /\ session[i].phase = "selecting"
    /\ \A j \in SessionId : j < i => session[j].phase \notin {"connecting", "selecting"}
    /\ c \in Eligible(i)
    /\ Select(i, c)
    /\ state' = [s \in Substreams |-> IF s \in session[i].subs THEN "test" ELSE state[s]]
    /\ tester' = [s \in Substreams |-> IF s \in session[i].subs THEN c ELSE tester[s]]
    /\ heard' = [s \in Substreams |-> s \notin session[i].subs /\ heard[s]]
    /\ session' = [session EXCEPT ![i].phase = "end"]
    /\ UNCHANGED <<pkManifest, asked, parent, rescueAfterFail, started, idle, blocked,
                   blocks, mySession>>

\* Mutant of SelectNobody: the state after a MOVE that found nobody is forgotten.
SelectNobodyStuck(i) ==
    /\ session[i].phase = "selecting"
    /\ \A j \in SessionId : j < i => session[j].phase \notin {"connecting", "selecting"}
    /\ MayPickNobody(i)
    /\ Select(i, NoPeer)
    /\ state' = [s \in Substreams |->
         IF s \in session[i].subs /\ rescueAfterFail[s] THEN "rescue" ELSE state[s]]
    /\ asked' = asked \cup {s \in session[i].subs : rescueAfterFail[s]}
    /\ rescueAfterFail' = [s \in Substreams |-> s \in session[i].subs \/ rescueAfterFail[s]]
    /\ session' = [session EXCEPT ![i].phase = "end"]
    /\ UNCHANGED <<pkManifest, parent, tester, started, heard, idle, blocked, blocks,
                   mySession>>

\* The same when nobody is picked: a RESCUE or MERGE session asks PK for a
\* rescue, without taking the sub-stream from PK; a MOVE session stays where it was.
SelectNobody(i) ==
    /\ session[i].phase = "selecting"
    /\ \A j \in SessionId : j < i => session[j].phase \notin {"connecting", "selecting"}
    /\ MayPickNobody(i)
    /\ Select(i, NoPeer)
    /\ state' = [s \in Substreams |->
         IF s \notin session[i].subs THEN state[s]
         ELSE IF rescueAfterFail[s] THEN "rescue" ELSE "stable"]
    /\ asked' = asked \cup {s \in session[i].subs : rescueAfterFail[s]}
    /\ rescueAfterFail' = [s \in Substreams |->
         s \in session[i].subs \/ rescueAfterFail[s]]
    /\ session' = [session EXCEPT ![i].phase = "end"]
    /\ UNCHANGED <<pkManifest, parent, tester, started, heard, idle, blocked, blocks,
                   mySession>>

\* Mutant of StopSession: nobody is closed.
StopSessionKeepingAll(i) ==
    /\ session[i].phase = "end"
    /\ \A j \in SessionId : j < i => session[j].phase \in {"none", "stopped"}
    /\ session' = [session EXCEPT ![i] = [NoSession EXCEPT !.phase = "stopped"]]
    /\ UNCHANGED <<pkManifest, asked, conn, manifest, subVars, blocks, mySession>>

\* StopSession: candidates that were never selected and serve no other
\* session are closed.
StopSession(i) ==
    /\ session[i].phase = "end"
    /\ \A j \in SessionId : j < i => session[j].phase \in {"none", "stopped"}
    /\ conn' = [p \in Peers |->
         IF p \in Candidates(i) /\ conn[p] # "selected" /\ manifest[p] = {}
         THEN "none" ELSE conn[p]]
    /\ session' = [session EXCEPT ![i] = [NoSession EXCEPT !.phase = "stopped"]]
    /\ UNCHANGED <<pkManifest, asked, manifest, subVars, blocks, mySession>>

----------------------------------------------------------------------------
(* Packets: HandleStream and SourceDelayDetection *)

\* A packet can come from PK or over the socket of a selected parent.
Senders == {PK} \cup {p \in Peers : conn[p] = "selected"}

ManifestOf(p) == IF p = PK THEN pkManifest ELSE manifest[p]

\* A packet of s from q: the data timer starts again if q is the parent of s,
\* the test of s counts it if q is the parent under test.
Counted(s, p, q) ==
    /\ idle' = [idle EXCEPT ![s] = @ /\ p # q]
    /\ heard' = [heard EXCEPT ![s] = @ \/ (state[s] = "test" /\ tester[s] = q)]

\* The first packet of s makes its sender the parent, before the check that
\* drops packets of sub-streams the sender is not asked for.
FirstPacket(s, p) ==
    /\ ~started[s]
    /\ p \in Senders
    /\ p = PK => s \in asked
    /\ started' = [started EXCEPT ![s] = TRUE]
    /\ parent' = [parent EXCEPT ![s] = p]
    /\ state' = [state EXCEPT ![s] = IF p = PK THEN "stable" ELSE @]
    /\ IF s \in ManifestOf(p) THEN Counted(s, p, p) ELSE UNCHANGED <<idle, heard>>
    /\ UNCHANGED <<pkManifest, asked, conn, manifest, tester, rescueAfterFail, blocked,
                   blocks, session, mySession>>

Packet(s, p) ==
    /\ started[s]
    /\ p \in Senders /\ s \in ManifestOf(p)
    /\ Counted(s, parent[s], p)
    /\ UNCHANGED <<pkManifest, asked, conn, manifest, parent, state, tester, rescueAfterFail,
                   started, blocked, blocks, session, mySession>>

\* One late packet too many of s, from p, judged by SourceDelayDetection
\* (packets of the parent under test are not).
Judged(s, p) ==
    /\ started[s]
    /\ p \in Senders /\ s \in ManifestOf(p)
    /\ ~(state[s] = "test" /\ tester[s] = p)

LateRescue(s, p) ==
    /\ p \in Peers /\ Judged(s, p) /\ ~blocked[s] /\ state[s] = "stable"
    /\ RescueFromPK(s)
    /\ DropFrom(p, s)
    /\ UNCHANGED <<tester, rescueAfterFail, started, blocked, blocks, session, mySession>>

LateBlocked(s, p) ==
    /\ Judged(s, p) /\ blocked[s]
    /\ ResetDetection(s)
    /\ rescueAfterFail' = [rescueAfterFail EXCEPT ![s] = TRUE]
    /\ UNCHANGED <<pkManifest, asked, conn, manifest, parent, state, tester, started, blocked,
                   blocks, session, mySession>>

----------------------------------------------------------------------------
(* Timers of time_handle *)

\* DATA_TIMEOUT ms pass without a packet of s from its parent.
Silence(s) ==
    /\ ~idle[s]
    /\ idle' = [idle EXCEPT ![s] = TRUE]
    /\ UNCHANGED <<pkManifest, asked, conn, manifest, parent, state, tester, rescueAfterFail,
                   started, heard, blocked, blocks, session, mySession>>

\* Mutant of DataTimeout: only a stable sub-stream is repaired, as in LateRescue.
DataTimeoutIfStable(s) ==
    /\ idle[s] /\ ~blocked[s] /\ state[s] = "stable"
    /\ RescueFromPK(s)
    /\ DropIfPresent(parent[s], s)
    /\ UNCHANGED <<tester, rescueAfterFail, started, blocked, blocks, session, mySession>>

\* The data timeout of s in any state: drop a parent that is still in the
\* table and go back to PK.
DataTimeout(s) ==
    /\ idle[s] /\ ~blocked[s]
    /\ RescueFromPK(s)
    /\ DropIfPresent(parent[s], s)
    /\ UNCHANGED <<tester, rescueAfterFail, started, blocked, blocks, session, mySession>>

DataTimeoutBlocked(s) ==
    /\ idle[s] /\ blocked[s]
    /\ ResetDetection(s)
    /\ rescueAfterFail' = [rescueAfterFail EXCEPT ![s] = TRUE]
    /\ UNCHANGED <<pkManifest, asked, conn, manifest, parent, state, tester, started, blocked,
                   blocks, session, mySession>>

\* BLOCK_RESCUE of an ancestor: it is repairing s, wait for it.
BlockRescue(s) ==
    /\ blocks < MaxBlocks
    /\ blocks' = blocks + 1
    /\ blocked' = [blocked EXCEPT ![s] = TRUE]
    /\ UNCHANGED <<pkManifest, asked, conn, manifest, parent, state, tester, rescueAfterFail,
                   started, heard, idle, session, mySession>>

\* BLOCK_RESCUE_TIME ms later.
Unblock(s) ==
    /\ blocked[s]
    /\ blocked' = [blocked EXCEPT ![s] = FALSE]
    /\ ResetDetection(s)
    /\ UNCHANGED <<pkManifest, asked, conn, manifest, parent, state, tester, rescueAfterFail,
                   started, blocks, session, mySession>>

----------------------------------------------------------------------------
(* The end of a test, TEST_DELAY_TIME ms after the parent was picked.  The  *)
(* test passed when enough packets came and few of them late: once a packet *)
(* came, either outcome is possible.                                        *)

TestEnded(s) ==
    /\ state[s] = "test"
    /\ rescueAfterFail' = [rescueAfterFail EXCEPT ![s] = TRUE]
    /\ UNCHANGED <<tester, started, blocked, blocks, session, mySession>>

InTable(p) == p = PK \/ p \in Table

\* Passed, RESCUE or MERGE: the tested parent takes s over from PK.
TestPassed(s) ==
    /\ TestEnded(s) /\ heard[s] /\ rescueAfterFail[s]
    /\ IF tester[s] \in Table
       THEN /\ pkManifest' = pkManifest \ {s}
            /\ UNCHANGED asked
            /\ parent' = [parent EXCEPT ![s] = tester[s]]
            /\ state' = [state EXCEPT ![s] = "stable"]
            /\ ResetDetection(s)
       ELSE RescueFromPK(s)
    /\ UNCHANGED <<conn, manifest>>

\* The socket of an entry is set when it is selected.
SameSocket(p, q) == p = q \/ (conn[p] # "selected" /\ conn[q] # "selected")

\* Passed, MOVE: the tested parent takes s over from the old one.  CloseParent
\* is given the socket of the new parent, and closes nothing unless it is the
\* socket of the old one too.
MovePassed(s) ==
    /\ TestEnded(s) /\ heard[s] /\ ~rescueAfterFail[s]
    /\ IF InTable(parent[s]) /\ tester[s] \in Table
       THEN LET old == parent[s] IN
            /\ parent' = [parent EXCEPT ![s] = tester[s]]
            /\ state' = [state EXCEPT ![s] = "stable"]
            /\ ResetDetection(s)
            /\ UNCHANGED asked
            /\ IF old = PK
               THEN /\ pkManifest' = pkManifest \ {s}
                    /\ UNCHANGED <<conn, manifest>>
               ELSE /\ manifest' = [manifest EXCEPT ![old] = @ \ {s}]
                    /\ conn' = [conn EXCEPT ![old] =
                         IF manifest[old] \subseteq {s} /\ SameSocket(old, tester[s])
                         THEN "none" ELSE @]
                    /\ UNCHANGED pkManifest
       ELSE RescueFromPK(s) /\ UNCHANGED <<conn, manifest>>

\* Failed, RESCUE or MERGE.
TestFailed(s) ==
    /\ TestEnded(s) /\ rescueAfterFail[s]
    /\ DropIfPresent(tester[s], s)
    /\ RescueFromPK(s)

\* Failed, MOVE: s stays with its parent, whether or not that is still there.
MoveFailed(s) ==
    /\ TestEnded(s) /\ ~rescueAfterFail[s]
    /\ DropIfPresent(tester[s], s)
    /\ state' = [state EXCEPT ![s] = "stable"]
    /\ ResetDetection(s)
    /\ UNCHANGED <<pkManifest, asked, parent>>

----------------------------------------------------------------------------
(* PK and the network *)

\* HandleCMDSeed walks the parents in pid order and starts over, one entry
\* too far, each time it closes one: if the first entry is closed, the second
\* one is never looked at.
Skipped(s) ==
    {q \in Table : \E f \in Table :
        /\ manifest[f] = {s} /\ f < q
        /\ \A r \in Table : r = f \/ q <= r}

Detached(s) == {p \in Table \ Skipped(s) : s \in manifest[p]}

\* Mutant of Seed: the manifest of PK is not extended.
SeedUnmarked(s) ==
    /\ UNCHANGED pkManifest
    /\ asked' = asked \cup {s}
    /\ parent' = [parent EXCEPT ![s] = PK]
    /\ state' = [state EXCEPT ![s] = "stable"]
    /\ manifest' = [p \in Peers |-> IF p \in Detached(s) THEN manifest[p] \ {s}
                                    ELSE manifest[p]]
    /\ conn' = [p \in Peers |-> IF p \in Detached(s) /\ manifest[p] = {s}
                                THEN "none" ELSE conn[p]]
    /\ ResetDetection(s)
    /\ UNCHANGED <<tester, rescueAfterFail, started, blocked, blocks, session, mySession>>

Seed(s) ==
    /\ pkManifest' = pkManifest \cup {s}
    /\ asked' = asked \cup {s}
    /\ parent' = [parent EXCEPT ![s] = PK]
    /\ state' = [state EXCEPT ![s] = "stable"]
    /\ manifest' = [p \in Peers |-> IF p \in Detached(s) THEN manifest[p] \ {s}
                                    ELSE manifest[p]]
    /\ conn' = [p \in Peers |-> IF p \in Detached(s) /\ manifest[p] = {s}
                                THEN "none" ELSE conn[p]]
    /\ ResetDetection(s)
    /\ UNCHANGED <<tester, rescueAfterFail, started, blocked, blocks, session, mySession>>

\* The socket of a selected parent breaks: CloseParent.
ParentLost(p) ==
    /\ conn[p] = "selected"
    /\ conn' = [conn EXCEPT ![p] = "none"]
    /\ manifest' = [manifest EXCEPT ![p] = {}]
    /\ UNCHANGED <<pkManifest, asked, subVars, blocks, session, mySession>>

----------------------------------------------------------------------------

SessionStep(i) ==
    \/ ConnectTimeout(i)
    \/ \E c \in Peers : SelectParent(i, c)
    \/ SelectNobody(i)
    \/ StopSession(i)

TestStep(s) == TestPassed(s) \/ MovePassed(s) \/ TestFailed(s) \/ MoveFailed(s)

PacketStep(s) ==
    \E p \in Peers \cup {PK} :
        FirstPacket(s, p) \/ Packet(s, p) \/ LateRescue(s, p) \/ LateBlocked(s, p)

TimerStep(s) == DataTimeout(s) \/ DataTimeoutBlocked(s) \/ Unblock(s)

Next ==
    \/ \E s \in Substreams, cs \in SUBSET Peers, move \in BOOLEAN : RescueList(s, cs, move)
    \/ \E i \in SessionId : SessionStep(i)
    \/ \E s \in Substreams :
         PacketStep(s) \/ Silence(s) \/ TimerStep(s) \/ BlockRescue(s) \/ TestStep(s) \/ Seed(s)
    \/ \E p \in Peers : Connected(p) \/ ParentLost(p)

Spec == Init /\ [][Next]_vars

----------------------------------------------------------------------------
(* Safety *)

\* p is a selected parent that is asked for s.
Serves(p, s) == p \in Peers /\ conn[p] = "selected" /\ s \in manifest[p]

\* s comes from PK, or from a parent that serves it.
Served(s) == (parent[s] = PK /\ s \in pkManifest) \/ Serves(parent[s], s)

Unselected(p) == conn[p] \in {"connecting", "connected"}

\* A candidate that was never selected is listed by a session that has not
\* been stopped: StopSession, which closes only candidates with an empty
\* manifest, forgets no connection when sessions share candidates.
CandidateOwned ==
    \A p \in Peers : Unselected(p) =>
        \E i \in SessionId : Live(i) /\ p \in Candidates(i)

Record == [p \in Peers |-> IF Unselected(p) THEN "candidate" ELSE conn[p]]
Holders == [p \in Peers |-> {i \in SessionId : Live(i) /\ p \in Candidates(i)}]

Records == INSTANCE SharedRecords WITH
    Peers <- Peers, Sessions <- SessionId, record <- Record, holders <- Holders

\* Sessions share the entries of map_pid_parent: the first to list a candidate
\* makes the entry, selecting it takes it from all of them, and one that was
\* never selected goes with the last session that lists it, if not before.
RecordsSpec == Records!Spec

Tried == [s \in Substreams |-> IF state[s] = "test" THEN tester[s] ELSE NoPeer]
HeardInTest == {s \in Substreams : state[s] = "test" /\ heard[s]}

Change == INSTANCE ParentChange WITH
    Substreams <- Substreams, Peers <- Peers, PK <- PK, NoPeer <- NoPeer,
    parent <- parent, started <- started, trial <- Tried, heard <- HeardInTest

\* A sub-stream leaves its parent for PK, or for a candidate whose packets came
\* in the test that is on: lists, silence, blocks and late packets in between
\* never let the packets of one test count for the candidate of another.
ChangeSpec == Change!Spec

\* After the first packet of s, no step makes PK the parent of s, or leaves it
\* the parent, without s in the manifest of PK (whose packets of s would all
\* be dropped by HandleStream).
PKAsked(s) == parent[s] = PK => s \in pkManifest

PKSourceKept == [][\A s \in Substreams : started[s] /\ PKAsked(s) => PKAsked(s)']_vars

\* What may cost s its source: the loss of its parent, its first packet, a MOVE
\* onto the parent it already has, or the end of the test of a parent that does
\* not serve it (lost, and listed again, since its last packet).
MayLose(s) ==
    \/ \E p \in Peers : p = parent[s] /\ ParentLost(p)
    \/ ~started[s]
    \/ state[s] = "test" /\ ~rescueAfterFail[s] /\ tester[s] = parent[s]
    \/ state[s] = "test" /\ ~Serves(tester[s], s)

\* A sub-stream that has a source loses it in no other way.  No repair, seed,
\* session or test of another sub-stream takes it away.
SourceKept == [][\A s \in Substreams : Served(s) /\ ~Served(s)' => MayLose(s)]_vars

\* A selected parent is left in the table with nothing to send only by the end
\* of a MOVE; every other step that empties its manifest closes it.
EmptiedOnlyByMove ==
    [][\A p \in Peers :
          conn[p] = "selected" /\ conn'[p] = "selected" /\ manifest[p] # {} /\ manifest'[p] = {}
          => \E s \in Substreams : MovePassed(s)]_vars

----------------------------------------------------------------------------
(* Liveness.  The timers of time_handle run for ever, and a sub-stream whose *)
(* parent cannot refresh its data timer runs into DATA_TIMEOUT.              *)

Starve(s) == ~Served(s) /\ Silence(s)

Fairness ==
    /\ \A i \in SessionId :
         /\ WF_vars(ConnectTimeout(i))
         /\ WF_vars(SelectNobody(i) \/ \E c \in Peers : SelectParent(i, c))
         /\ WF_vars(StopSession(i))
    /\ \A s \in Substreams :
         /\ WF_vars(Starve(s))
         /\ WF_vars(DataTimeout(s) \/ DataTimeoutBlocked(s))
         /\ WF_vars(Unblock(s))
         /\ WF_vars(TestStep(s))

FairSpec == Spec /\ Fairness

\* Every sub-stream without a source gets one: whatever went wrong, lost
\* parent, failed session or test, packets filtered by a stale manifest, the
\* data timeout ends it, unless ancestors block rescues for ever.
Repaired == \A s \in Substreams : ~Served(s) ~> Served(s)

\* Every session and test comes to an end: a sub-stream does not stay in the
\* middle of a change of parent.
Settled == \A s \in Substreams :
    state[s] \in {"connecting", "test"} ~> state[s] \in {"stable", "rescue"}

\* Every candidate connection is either selected or closed.
CandidatesSettled == \A p \in Peers : Unselected(p) ~> ~Unselected(p)

----------------------------------------------------------------------------
(* What a comment in the code promises and the code does not keep *)

\* HandleCMDSeed clears every parent related to the sub-stream.
SeedDetachesAll ==
    [][\A s \in Substreams : Seed(s) => \A p \in Peers : s \notin manifest'[p]]_vars
=============================================================================
