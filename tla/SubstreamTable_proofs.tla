----------------------- MODULE SubstreamTable_proofs -----------------------
(***************************************************************************)
(* Theorems about SubstreamTable, for any set of parents and sub-streams   *)
(* and any number of sessions.                                             *)
(***************************************************************************)
EXTENDS SubstreamTable, TLAPS

----------------------------------------------------------------------------
(* Typing *)

\* What the helpers the actions share do to the types of what they assign.
LEMMA DropFromType ==
    ASSUME TypeOK, NEW p \in Peers, NEW s \in Substreams, DropFrom(p, s)
    PROVE  conn' \in [Peers -> ConnState] /\ manifest' \in [Peers -> SUBSET Substreams]
  BY DEF TypeOK, DropFrom, ConnState

LEMMA DropIfPresentType ==
    ASSUME TypeOK, NEW p, NEW s \in Substreams, DropIfPresent(p, s)
    PROVE  conn' \in [Peers -> ConnState] /\ manifest' \in [Peers -> SUBSET Substreams]
  <1>1. CASE p \in Table
    BY <1>1, DropFromType DEF DropIfPresent, Table
  <1>2. CASE p \notin Table
    BY <1>2 DEF DropIfPresent, TypeOK
  <1> QED BY <1>1, <1>2

LEMMA RescueFromPKType ==
    ASSUME TypeOK, NEW s \in Substreams, RescueFromPK(s)
    PROVE  /\ pkManifest' \in SUBSET Substreams
           /\ asked' \in SUBSET Substreams
           /\ parent' \in [Substreams -> Peers \cup {PK, NoPeer}]
           /\ state' \in [Substreams -> SubState]
           /\ idle' \in [Substreams -> BOOLEAN]
           /\ heard' \in [Substreams -> BOOLEAN]
  BY DEF TypeOK, RescueFromPK, ResetDetection, SubState

LEMMA ResetDetectionType ==
    ASSUME TypeOK, NEW s \in Substreams, ResetDetection(s)
    PROVE  idle' \in [Substreams -> BOOLEAN] /\ heard' \in [Substreams -> BOOLEAN]
  BY DEF TypeOK, ResetDetection

\* The variables start with values of their types.
LEMMA InitType == Init => TypeOK
  <1> SUFFICES ASSUME NEW cs \in SUBSET Peers, NEW seed \in BOOLEAN,
                      /\ pkManifest = IF seed THEN Substreams ELSE {}
                      /\ asked = pkManifest
                      /\ conn = [p \in Peers |-> IF p \in cs THEN "connecting" ELSE "none"]
                      /\ manifest = [p \in Peers |-> IF p \in cs THEN Substreams ELSE {}]
                      /\ parent = [s \in Substreams |-> NoPeer]
                      /\ state = [s \in Substreams |-> IF cs # {} THEN "connecting" ELSE "init"]
                      /\ tester = [s \in Substreams |-> NoPeer]
                      /\ rescueAfterFail = [s \in Substreams |-> TRUE]
                      /\ started = [s \in Substreams |-> FALSE]
                      /\ heard = [s \in Substreams |-> FALSE]
                      /\ idle = [s \in Substreams |-> FALSE]
                      /\ blocked = [s \in Substreams |-> FALSE]
                      /\ blocks = 0
                      /\ session = [i \in SessionId |->
                           IF i = 1 /\ cs # {}
                           THEN [phase |-> "connecting", subs |-> Substreams,
                                 link |-> [p \in Peers |-> IF p \in cs THEN "connecting" ELSE "none"]]
                           ELSE NoSession]
                      /\ mySession = IF cs # {} THEN 2 ELSE 1
               PROVE  TypeOK
    BY DEF Init
  <1>1. session \in [SessionId -> SessionRec]
    BY DEF SessionRec, NoSession, Phase, Link
  <1>2. mySession \in 1..(MaxSessions + 1) /\ blocks \in 0..MaxBlocks
    BY BoundsAssumption
  <1>3. conn \in [Peers -> ConnState] /\ manifest \in [Peers -> SUBSET Substreams]
    BY DEF ConnState
  <1>4. state \in [Substreams -> SubState]
    BY DEF SubState
  <1> QED BY <1>1, <1>2, <1>3, <1>4 DEF TypeOK

\* RescueList, with or without candidates, keeps the types.
LEMMA RescueListType ==
    ASSUME TypeOK, NEW s \in Substreams, NEW cs \in SUBSET Peers, NEW move \in BOOLEAN,
           RescueList(s, cs, move)
    PROVE  TypeOK'
  <1>1. mySession \in SessionId
    BY BoundsAssumption DEF RescueList, TypeOK, SessionId
  <1>2. CASE cs # {}
    <2>1. NewSession({s}, cs) \in SessionRec
      BY DEF NewSession, SessionRec, Phase, Link
    <2>2. session' \in [SessionId -> SessionRec]
      BY <1>1, <1>2, <2>1 DEF RescueList, SetCandidates, TypeOK
    <2>3. mySession' \in 1..(MaxSessions + 1)
      BY <1>1, <1>2, BoundsAssumption DEF RescueList, SetCandidates, TypeOK, SessionId
    <2>4. conn' \in [Peers -> ConnState] /\ manifest' \in [Peers -> SUBSET Substreams]
      BY <1>2 DEF RescueList, SetCandidates, TypeOK, ConnState
    <2>5. state' \in [Substreams -> SubState] /\ rescueAfterFail' \in [Substreams -> BOOLEAN]
      BY <1>2 DEF RescueList, TypeOK, SubState
    <2> QED BY <1>2, <2>2, <2>3, <2>4, <2>5 DEF RescueList, TypeOK
  <1>3. CASE cs = {}
    BY <1>3 DEF RescueList, TypeOK
  <1> QED BY <1>2, <1>3

\* So do the steps of a session.
LEMMA SessionStepType ==
    ASSUME TypeOK, NEW i \in SessionId, SessionStep(i)
    PROVE  TypeOK'
  <1>1. CASE ConnectTimeout(i)
    BY <1>1 DEF ConnectTimeout, TypeOK, SessionRec, Phase, subVars
  <1>2. ASSUME NEW c \in Peers, SelectParent(i, c)
        PROVE  TypeOK'
    <2>1. conn' \in [Peers -> ConnState] /\ manifest' \in [Peers -> SUBSET Substreams]
      BY <1>2 DEF SelectParent, Select, TypeOK, ConnState
    <2>2. session' \in [SessionId -> SessionRec]
      BY <1>2 DEF SelectParent, TypeOK, SessionRec, Phase
    <2>3. /\ state' \in [Substreams -> SubState]
          /\ tester' \in [Substreams -> Peers \cup {NoPeer}]
          /\ heard' \in [Substreams -> BOOLEAN]
      BY <1>2 DEF SelectParent, TypeOK, SubState
    <2> QED BY <1>2, <2>1, <2>2, <2>3 DEF SelectParent, TypeOK
  <1>3. CASE SelectNobody(i)
    <2>1. conn' \in [Peers -> ConnState] /\ manifest' \in [Peers -> SUBSET Substreams]
      BY <1>3 DEF SelectNobody, Select, TypeOK, ConnState
    <2>2. session' \in [SessionId -> SessionRec]
      BY <1>3 DEF SelectNobody, TypeOK, SessionRec, Phase
    <2>3. state' \in [Substreams -> SubState] /\ asked' \in SUBSET Substreams
      BY <1>3 DEF SelectNobody, TypeOK, SubState, SessionRec
    <2>4. rescueAfterFail' \in [Substreams -> BOOLEAN]
      BY <1>3, Zenon DEF SelectNobody
    <2> QED BY <1>3, <2>1, <2>2, <2>3, <2>4 DEF SelectNobody, TypeOK
  <1>4. CASE StopSession(i)
    <2>1. conn' \in [Peers -> ConnState]
      BY <1>4 DEF StopSession, TypeOK, ConnState
    <2>2. session' \in [SessionId -> SessionRec]
      BY <1>4 DEF StopSession, NoSession, TypeOK, SessionRec, Phase, Link
    <2> QED BY <1>4, <2>1, <2>2 DEF StopSession, TypeOK, subVars
  <1> QED BY <1>1, <1>2, <1>3, <1>4 DEF SessionStep

\* So do packets and late packets.
LEMMA PacketStepType ==
    ASSUME TypeOK, NEW s \in Substreams, PacketStep(s)
    PROVE  TypeOK'
  <1> PICK p \in Peers \cup {PK} :
        FirstPacket(s, p) \/ Packet(s, p) \/ LateRescue(s, p) \/ LateBlocked(s, p)
    BY DEF PacketStep
  <1>1. CASE FirstPacket(s, p)
    BY <1>1 DEF FirstPacket, Counted, TypeOK, SubState
  <1>2. CASE Packet(s, p)
    BY <1>2 DEF Packet, Counted, TypeOK
  <1>3. CASE LateRescue(s, p)
    BY <1>3, RescueFromPKType, DropFromType DEF LateRescue, TypeOK
  <1>4. CASE LateBlocked(s, p)
    BY <1>4, ResetDetectionType DEF LateBlocked, TypeOK
  <1> QED BY <1>1, <1>2, <1>3, <1>4

\* So do the timers and the BLOCK_RESCUE messages.
LEMMA TimerStepType ==
    ASSUME TypeOK, NEW s \in Substreams, Silence(s) \/ TimerStep(s) \/ BlockRescue(s)
    PROVE  TypeOK'
  <1>1. CASE Silence(s)
    BY <1>1 DEF Silence, TypeOK
  <1>2. CASE DataTimeout(s)
    BY <1>2, RescueFromPKType, DropIfPresentType DEF DataTimeout, TypeOK
  <1>3. CASE DataTimeoutBlocked(s)
    BY <1>3, ResetDetectionType DEF DataTimeoutBlocked, TypeOK
  <1>4. CASE Unblock(s)
    BY <1>4, ResetDetectionType DEF Unblock, TypeOK
  <1>5. CASE BlockRescue(s)
    BY <1>5, BoundsAssumption DEF BlockRescue, TypeOK
  <1> QED BY <1>1, <1>2, <1>3, <1>4, <1>5 DEF TimerStep

\* So do the four ends of a test.
LEMMA TestStepType ==
    ASSUME TypeOK, NEW s \in Substreams, TestStep(s)
    PROVE  TypeOK'
  <1> TestEnded(s) /\ rescueAfterFail' \in [Substreams -> BOOLEAN]
    BY DEF TestStep, TestPassed, MovePassed, TestFailed, MoveFailed, TestEnded, TypeOK
  <1>1. CASE TestPassed(s)
    <2>1. CASE tester[s] \in Table
      BY <1>1, <2>1, ResetDetectionType DEF TestPassed, TestEnded, TypeOK, SubState
    <2>2. CASE tester[s] \notin Table
      BY <1>1, <2>2, RescueFromPKType DEF TestPassed, TestEnded, TypeOK
    <2> QED BY <2>1, <2>2
  <1>2. CASE MovePassed(s)
    <2>1. CASE InTable(parent[s]) /\ tester[s] \in Table
      BY <1>2, <2>1, ResetDetectionType
      DEF MovePassed, TestEnded, InTable, Table, TypeOK, SubState, ConnState
    <2>2. CASE ~(InTable(parent[s]) /\ tester[s] \in Table)
      BY <1>2, <2>2, RescueFromPKType DEF MovePassed, TestEnded, TypeOK
    <2> QED BY <2>1, <2>2
  <1>3. CASE TestFailed(s)
    BY <1>3, RescueFromPKType, DropIfPresentType DEF TestFailed, TestEnded, TypeOK
  <1>4. CASE MoveFailed(s)
    BY <1>4, ResetDetectionType, DropIfPresentType
    DEF MoveFailed, TestEnded, TypeOK, SubState
  <1> QED BY <1>1, <1>2, <1>3, <1>4 DEF TestStep

\* And the steps of PK and of the network.
LEMMA NetworkStepType ==
    ASSUME TypeOK,
           \/ \E s \in Substreams : Seed(s)
           \/ \E p \in Peers : Connected(p) \/ ParentLost(p)
    PROVE  TypeOK'
  <1>1. ASSUME NEW s \in Substreams, Seed(s)
        PROVE  TypeOK'
    BY <1>1, ResetDetectionType DEF Seed, TypeOK, SubState, ConnState
  <1>2. ASSUME NEW p \in Peers, Connected(p)
        PROVE  TypeOK'
    <2>1. session' \in [SessionId -> SessionRec]
      BY <1>2 DEF Connected, TypeOK, SessionRec, Link
    <2> QED BY <1>2, <2>1 DEF Connected, TypeOK, ConnState, subVars
  <1>3. ASSUME NEW p \in Peers, ParentLost(p)
        PROVE  TypeOK'
    BY <1>3 DEF ParentLost, TypeOK, ConnState, subVars
  <1> QED BY <1>1, <1>2, <1>3

\* Together: every step keeps the types.
LEMMA NextType == TypeOK /\ [Next]_vars => TypeOK'
  <1> SUFFICES ASSUME TypeOK, [Next]_vars
               PROVE  TypeOK'
    OBVIOUS
  <1>1. CASE UNCHANGED vars
    BY <1>1 DEF vars, subVars, TypeOK
  <1>2. CASE Next
    BY <1>2, RescueListType, SessionStepType, PacketStepType, TimerStepType,
       TestStepType, NetworkStepType DEF Next
  <1> QED BY <1>1, <1>2

\* The parent table, the sub-stream table and the sessions hold, in every
\* reachable state, values of the types the code declares for them.
THEOREM TypeCorrect == Spec => []TypeOK
  <1>1. Init => TypeOK
    BY InitType
  <1>2. TypeOK /\ [Next]_vars => TypeOK'
    BY NextType
  <1> QED BY <1>1, <1>2, PTL DEF Spec

----------------------------------------------------------------------------
(* CandidateOwned.  It is not inductive as it stands: StopSession would lose  *)
(* a candidate that still has sub-streams in its manifest and no other        *)
(* session.  So the invariant also says that every such sub-stream belongs to *)
(* a session that has not selected yet, and that ids of sessions are fresh.   *)

NoneEmpty == \A p \in Peers : conn[p] = "none" => manifest[p] = {}

Choosing(i) == session[i].phase \in {"connecting", "selecting"}

BitsOwned ==
    \A p \in Peers : Unselected(p) =>
        \A s \in manifest[p] :
            \E i \in SessionId : Choosing(i) /\ p \in Candidates(i) /\ s \in session[i].subs

FreshSessions == \A i \in SessionId : i >= mySession => session[i].phase = "none"

Owners == NoneEmpty /\ BitsOwned /\ CandidateOwned /\ FreshSessions

IInv == TypeOK /\ Owners

\* What a step does to the manifests and connections when it only takes
\* sub-streams from parents and closes those it leaves with none.
OnlyShrinks ==
    \A p \in Peers : /\ manifest'[p] \subseteq manifest[p]
                     /\ \/ conn'[p] = conn[p]
                        \/ conn'[p] = "none" /\ manifest'[p] = {}

\* A step that leaves the sessions alone and only takes sub-streams from
\* parents, or closes them, keeps every owner.
LEMMA Shrinking ==
    ASSUME TypeOK, TypeOK', Owners,
           OnlyShrinks, UNCHANGED <<session, mySession>>
    PROVE  Owners'
  <1>1. NoneEmpty'
    BY DEF Owners, NoneEmpty, OnlyShrinks, TypeOK
  <1>2. \A p \in Peers : Unselected(p)' => Unselected(p)
    BY DEF Unselected, OnlyShrinks
  <1>3. \A i : /\ Choosing(i)' <=> Choosing(i)
               /\ Live(i)' <=> Live(i)
               /\ Candidates(i)' = Candidates(i)
    BY DEF Choosing, Live, Candidates
  <1>4. BitsOwned'
    BY <1>2, <1>3 DEF Owners, BitsOwned, OnlyShrinks
  <1>5. CandidateOwned'
    BY <1>2, <1>3 DEF Owners, CandidateOwned
  <1>6. FreshSessions'
    BY DEF Owners, FreshSessions
  <1> QED BY <1>1, <1>4, <1>5, <1>6 DEF Owners

\* Both ways of dropping a sub-stream are of that kind.
LEMMA DropFromShrinks ==
    ASSUME TypeOK, NEW p \in Peers, NEW s \in Substreams, DropFrom(p, s)
    PROVE  OnlyShrinks
  BY DEF TypeOK, DropFrom, OnlyShrinks

LEMMA DropIfPresentShrinks ==
    ASSUME TypeOK, NEW p, NEW s \in Substreams, DropIfPresent(p, s)
    PROVE  OnlyShrinks
  <1>1. CASE p \in Table
    BY <1>1, DropFromShrinks DEF DropIfPresent, Table
  <1>2. CASE p \notin Table
    BY <1>2 DEF DropIfPresent, OnlyShrinks
  <1> QED BY <1>1, <1>2

\* Packets, timers, tests, seeds and lost parents are steps of that kind.
LEMMA SubstreamStepShrinks ==
    ASSUME TypeOK, NEW s \in Substreams,
           \/ PacketStep(s) \/ Silence(s) \/ TimerStep(s) \/ BlockRescue(s)
           \/ TestStep(s) \/ Seed(s)
    PROVE  OnlyShrinks /\ UNCHANGED <<session, mySession>>
  <1>1. CASE PacketStep(s)
    <2> PICK p \in Peers \cup {PK} :
          FirstPacket(s, p) \/ Packet(s, p) \/ LateRescue(s, p) \/ LateBlocked(s, p)
      BY <1>1 DEF PacketStep
    <2>1. CASE LateRescue(s, p)
      BY <2>1, DropFromShrinks DEF LateRescue
    <2>2. CASE FirstPacket(s, p) \/ Packet(s, p) \/ LateBlocked(s, p)
      BY <2>2 DEF FirstPacket, Packet, LateBlocked, OnlyShrinks
    <2> QED BY <2>1, <2>2
  <1>2. CASE DataTimeout(s)
    BY <1>2, DropIfPresentShrinks DEF DataTimeout
  <1>3. CASE Silence(s) \/ DataTimeoutBlocked(s) \/ Unblock(s) \/ BlockRescue(s)
    BY <1>3 DEF Silence, DataTimeoutBlocked, Unblock, BlockRescue, OnlyShrinks
  <1>4. CASE TestPassed(s)
    BY <1>4 DEF TestPassed, TestEnded, OnlyShrinks
  <1>5. CASE MovePassed(s)
    BY <1>5 DEF MovePassed, TestEnded, OnlyShrinks, TypeOK, InTable, Table
  <1>6. CASE TestFailed(s)
    BY <1>6, DropIfPresentShrinks DEF TestFailed, TestEnded
  <1>7. CASE MoveFailed(s)
    BY <1>7, DropIfPresentShrinks DEF MoveFailed, TestEnded
  <1>8. CASE Seed(s)
    BY <1>8 DEF Seed, OnlyShrinks, TypeOK, Detached, Table
  <1> QED BY <1>1, <1>2, <1>3, <1>4, <1>5, <1>6, <1>7, <1>8 DEF TimerStep, TestStep

\* A parent lost is a step of that kind too.
LEMMA ParentLostShrinks ==
    ASSUME TypeOK, NEW p \in Peers, ParentLost(p)
    PROVE  OnlyShrinks /\ UNCHANGED <<session, mySession>>
  BY DEF ParentLost, OnlyShrinks, TypeOK, subVars

\* A connection that comes up changes no owner: the candidates of a session
\* stay the same, and no candidate becomes, or ceases to be, unselected.
LEMMA ConnectedOwners ==
    ASSUME TypeOK, Owners, NEW p \in Peers, Connected(p)
    PROVE  Owners'
  <1>1. \A q \in Peers : /\ Unselected(q)' <=> Unselected(q)
                         /\ conn'[q] = "none" <=> conn[q] = "none"
    BY DEF Connected, Unselected, TypeOK
  <1>2. \A i \in SessionId : /\ session'[i].phase = session[i].phase
                             /\ session'[i].subs = session[i].subs
                             /\ \A q \in Peers : session'[i].link[q] = "none"
                                                 <=> session[i].link[q] = "none"
    BY DEF Connected, TypeOK, SessionRec
  <1>3. \A i \in SessionId : /\ Choosing(i)' <=> Choosing(i)
                             /\ Live(i)' <=> Live(i)
                             /\ Candidates(i)' = Candidates(i)
    BY <1>2 DEF Choosing, Live, Candidates
  <1>4. UNCHANGED <<manifest, mySession>>
    BY DEF Connected
  <1>5. NoneEmpty'
    BY <1>1, <1>4 DEF Owners, NoneEmpty
  <1>6. BitsOwned'
    BY <1>1, <1>2, <1>3, <1>4 DEF Owners, BitsOwned
  <1>7. CandidateOwned'
    BY <1>1, <1>3 DEF Owners, CandidateOwned
  <1>8. FreshSessions'
    BY <1>2, <1>4 DEF Owners, FreshSessions
  <1> QED BY <1>5, <1>6, <1>7, <1>8 DEF Owners

\* A new session owns its candidates, for its own sub-stream; the bits they
\* had before keep their owners, since the id of the session is fresh.
LEMMA RescueListOwners ==
    ASSUME TypeOK, Owners, NEW s \in Substreams, NEW cs \in SUBSET Peers,
           NEW move \in BOOLEAN, RescueList(s, cs, move)
    PROVE  Owners'
  <1>1. CASE cs = {}
    BY <1>1, RescueListType, Shrinking DEF RescueList, OnlyShrinks
  <1>2. CASE cs # {}
    <2> PICK new : new = mySession
      OBVIOUS
    <2>1. new \in SessionId /\ mySession' = new + 1
      BY <1>2, BoundsAssumption DEF RescueList, SetCandidates, TypeOK, SessionId
    <2>2. session[new].phase = "none"
      BY <2>1 DEF Owners, FreshSessions, SessionId
    <2>3. /\ session'[new].phase = "connecting" /\ session'[new].subs = {s}
          /\ \A p \in Peers : session'[new].link[p] # "none" <=> p \in cs
      BY <1>2, <2>1 DEF RescueList, SetCandidates, NewSession, TypeOK
    <2>4. \A i \in SessionId : i # new => session'[i] = session[i]
      BY <1>2, <2>1 DEF RescueList, SetCandidates, TypeOK
    <2>5. Choosing(new)' /\ Live(new)' /\ Candidates(new)' = cs
      BY <2>3 DEF Choosing, Live, Candidates
    <2>6. \A i \in SessionId : Live(i) \/ Choosing(i) =>
            /\ i # new /\ session'[i].subs = session[i].subs
            /\ Live(i)' <=> Live(i)
            /\ Choosing(i)' <=> Choosing(i)
            /\ Candidates(i)' = Candidates(i)
      BY <2>2, <2>4 DEF Live, Choosing, Candidates
    <2>7. \A p \in Peers :
            /\ conn'[p] = IF p \in cs /\ conn[p] = "none" THEN "connecting" ELSE conn[p]
            /\ manifest'[p] = IF p \in cs THEN manifest[p] \cup {s} ELSE manifest[p]
      BY <1>2 DEF RescueList, SetCandidates
    <2>8. NoneEmpty'
      BY <2>7 DEF Owners, NoneEmpty
    <2>9. BitsOwned'
      <3> SUFFICES ASSUME NEW p \in Peers, Unselected(p)', NEW t \in manifest'[p]
                   PROVE  \E i \in SessionId : /\ Choosing(i)' /\ p \in Candidates(i)'
                                               /\ t \in session'[i].subs
        BY DEF BitsOwned
      <3>1. CASE p \in cs /\ t = s
        BY <2>1, <2>3, <2>5, <3>1
      <3>2. CASE ~(p \in cs /\ t = s)
        <4>1. t \in manifest[p] /\ Unselected(p)
          BY <2>7, <3>2 DEF Unselected, Owners, NoneEmpty, BitsOwned, TypeOK, ConnState
        <4>2. PICK i \in SessionId : Choosing(i) /\ p \in Candidates(i) /\ t \in session[i].subs
          BY <4>1 DEF Owners, BitsOwned
        <4> QED BY <2>6, <4>2
      <3> QED BY <3>1, <3>2
    <2>10. CandidateOwned'
      <3> SUFFICES ASSUME NEW p \in Peers, Unselected(p)'
                   PROVE  \E i \in SessionId : Live(i)' /\ p \in Candidates(i)'
        BY DEF CandidateOwned
      <3>1. CASE p \in cs
        BY <2>1, <2>5, <3>1
      <3>2. CASE p \notin cs
        <4>1. PICK i \in SessionId : Live(i) /\ p \in Candidates(i)
          BY <2>7, <3>2 DEF Unselected, Owners, CandidateOwned
        <4> QED BY <2>6, <4>1
      <3> QED BY <3>1, <3>2
    <2>11. FreshSessions'
      BY <2>1, <2>4 DEF Owners, FreshSessions, TypeOK, SessionId
    <2> QED BY <2>8, <2>9, <2>10, <2>11 DEF Owners
  <1> QED BY <1>1, <1>2

\* A step of session i to its end, or to the choice of a candidate, keeps the
\* owners: what is left unselected was not session i's alone.
LEMMA SelectOwners ==
    ASSUME TypeOK, Owners, NEW i \in SessionId, NEW c, Select(i, c),
           session' = [session EXCEPT ![i].phase = "end"], mySession' = mySession,
           Choosing(i)
    PROVE  Owners'
  <1>1. \A p \in Peers :
          /\ conn'[p] = IF p = c THEN "selected" ELSE conn[p]
          /\ manifest'[p] = IF p \in Candidates(i) /\ p # c /\ conn[p] # "selected"
                            THEN manifest[p] \ session[i].subs ELSE manifest[p]
    BY DEF Select
  <1>2. \A j \in SessionId :
          /\ session'[j].subs = session[j].subs /\ session'[j].link = session[j].link
          /\ session'[j].phase = IF j = i THEN "end" ELSE session[j].phase
    BY DEF TypeOK, SessionRec
  <1>3. \A j \in SessionId : /\ Candidates(j)' = Candidates(j)
                             /\ Live(j) => Live(j)'
                             /\ Choosing(j) /\ j # i => Choosing(j)'
    BY <1>2 DEF Candidates, Live, Choosing
  <1>4. NoneEmpty'
    BY <1>1 DEF Owners, NoneEmpty
  <1>5. BitsOwned'
    <2> SUFFICES ASSUME NEW p \in Peers, Unselected(p)', NEW s \in manifest'[p]
                 PROVE  \E j \in SessionId : /\ Choosing(j)' /\ p \in Candidates(j)'
                                             /\ s \in session'[j].subs
      BY DEF BitsOwned
    <2>1. Unselected(p) /\ s \in manifest[p]
      BY <1>1 DEF Unselected
    <2>2. PICK j \in SessionId : Choosing(j) /\ p \in Candidates(j) /\ s \in session[j].subs
      BY <2>1 DEF Owners, BitsOwned
    <2>3. j # i
      <3> SUFFICES ASSUME j = i PROVE FALSE
        OBVIOUS
      <3> QED BY <1>1, <2>1, <2>2 DEF Unselected
    <2> QED BY <1>2, <1>3, <2>2, <2>3
  <1>6. CandidateOwned'
    BY <1>1, <1>3 DEF Owners, CandidateOwned, Unselected
  <1>7. FreshSessions'
    BY <1>2 DEF Owners, FreshSessions, Choosing
  <1> QED BY <1>4, <1>5, <1>6, <1>7 DEF Owners

\* Stopping session i closes only candidates without sub-streams; one it shares
\* with another session still has sub-streams, and so an owner.
LEMMA StopSessionOwners ==
    ASSUME TypeOK, Owners, NEW i \in SessionId, StopSession(i)
    PROVE  Owners'
  <1>1. \A p \in Peers :
          conn'[p] = IF p \in Candidates(i) /\ conn[p] # "selected" /\ manifest[p] = {}
                     THEN "none" ELSE conn[p]
    BY DEF StopSession
  <1>2. UNCHANGED <<manifest, mySession>>
    BY DEF StopSession
  <1>3. \A j \in SessionId : j # i => session'[j] = session[j]
    BY DEF StopSession, TypeOK
  <1>4. session'[i].phase = "stopped" /\ session[i].phase = "end"
    BY DEF StopSession, TypeOK, NoSession
  <1>5. \A j \in SessionId : j # i => /\ Candidates(j)' = Candidates(j)
                                      /\ Live(j)' <=> Live(j)
                                      /\ Choosing(j)' <=> Choosing(j)
    BY <1>3 DEF Candidates, Live, Choosing
  <1>6. \A p \in Peers : Unselected(p)' => /\ Unselected(p)
                                           /\ p \in Candidates(i) => manifest[p] # {}
    BY <1>1 DEF Unselected
  <1>7. ~Choosing(i)
    BY <1>4 DEF Choosing
  <1>8. NoneEmpty'
    BY <1>1, <1>2 DEF Owners, NoneEmpty
  <1>9. BitsOwned'
    BY <1>2, <1>3, <1>5, <1>6, <1>7 DEF Owners, BitsOwned
  <1>10. CandidateOwned'
    <2> SUFFICES ASSUME NEW p \in Peers, Unselected(p)'
                 PROVE  \E j \in SessionId : Live(j)' /\ p \in Candidates(j)'
      BY DEF CandidateOwned
    <2>1. CASE p \in Candidates(i)
      <3>1. PICK s : s \in manifest[p]
        BY <1>6, <2>1
      <3>2. PICK j \in SessionId : Choosing(j) /\ p \in Candidates(j)
        BY <1>6, <3>1 DEF Owners, BitsOwned
      <3>3. Live(j)
        BY <3>2 DEF Choosing, Live
      <3> QED BY <1>5, <1>7, <3>2, <3>3
    <2>2. CASE p \notin Candidates(i)
      BY <1>5, <1>6, <2>2 DEF Owners, CandidateOwned
    <2> QED BY <2>1, <2>2
  <1>11. FreshSessions'
    BY <1>2, <1>3, <1>4 DEF Owners, FreshSessions
  <1> QED BY <1>8, <1>9, <1>10, <1>11 DEF Owners

\* The steps of a session, together.
LEMMA SessionStepOwners ==
    ASSUME TypeOK, Owners, NEW i \in SessionId, SessionStep(i)
    PROVE  Owners'
  <1>1. CASE ConnectTimeout(i)
    <2>1. \A j \in SessionId : session'[j].phase = IF j = i THEN "selecting" ELSE session[j].phase
      BY <1>1 DEF ConnectTimeout, TypeOK, SessionRec
    <2>2. \A j \in SessionId :
            session'[j].subs = session[j].subs /\ session'[j].link = session[j].link
      BY <1>1 DEF ConnectTimeout, TypeOK, SessionRec
    <2>3. session[i].phase = "connecting" /\ UNCHANGED <<manifest, conn, mySession>>
      BY <1>1 DEF ConnectTimeout
    <2>4. \A j \in SessionId : /\ Candidates(j)' = Candidates(j)
                               /\ Live(j)' <=> Live(j)
                               /\ Choosing(j)' <=> Choosing(j)
      BY <2>1, <2>2, <2>3 DEF Candidates, Live, Choosing
    <2>5. NoneEmpty' /\ CandidateOwned'
      BY <2>3, <2>4 DEF Owners, NoneEmpty, CandidateOwned, Unselected
    <2>6. BitsOwned'
      BY <2>2, <2>3, <2>4 DEF Owners, BitsOwned, Unselected
    <2>7. FreshSessions'
      BY <2>1, <2>3 DEF Owners, FreshSessions
    <2> QED BY <2>5, <2>6, <2>7 DEF Owners
  <1>2. ASSUME NEW c \in Peers, SelectParent(i, c)
        PROVE  Owners'
    BY <1>2, SelectOwners DEF SelectParent, Choosing
  <1>3. CASE SelectNobody(i)
    BY <1>3, SelectOwners DEF SelectNobody, Choosing
  <1>4. CASE StopSession(i)
    BY <1>4, StopSessionOwners
  <1> QED BY <1>1, <1>2, <1>3, <1>4 DEF SessionStep

\* The first session owns the candidates of the registration.
LEMMA InitOwners == Init => Owners
  <1> SUFFICES ASSUME NEW cs \in SUBSET Peers,
                      /\ conn = [p \in Peers |-> IF p \in cs THEN "connecting" ELSE "none"]
                      /\ manifest = [p \in Peers |-> IF p \in cs THEN Substreams ELSE {}]
                      /\ session = [i \in SessionId |->
                           IF i = 1 /\ cs # {}
                           THEN [phase |-> "connecting", subs |-> Substreams,
                                 link |-> [p \in Peers |-> IF p \in cs THEN "connecting" ELSE "none"]]
                           ELSE NoSession]
                      /\ mySession = IF cs # {} THEN 2 ELSE 1
               PROVE  Owners
    BY DEF Init
  <1>1. 1 \in SessionId
    BY BoundsAssumption DEF SessionId
  <1>2. cs # {} => Choosing(1) /\ Live(1) /\ Candidates(1) = cs /\ session[1].subs = Substreams
    BY <1>1 DEF Choosing, Live, Candidates
  <1>3. NoneEmpty
    BY DEF NoneEmpty
  <1>4. BitsOwned /\ CandidateOwned
    BY <1>1, <1>2 DEF BitsOwned, CandidateOwned, Unselected
  <1>5. FreshSessions
    BY DEF FreshSessions, NoSession, SessionId
  <1> QED BY <1>3, <1>4, <1>5 DEF Owners

\* Every step keeps the inductive invariant.
LEMMA NextOwners ==
    ASSUME IInv, [Next]_vars
    PROVE  IInv'
  <1>1. TypeOK'
    BY NextType DEF IInv
  <1>2. CASE UNCHANGED vars
    BY <1>1, <1>2, Shrinking DEF IInv, vars, OnlyShrinks
  <1>3. ASSUME NEW s \in Substreams, NEW cs \in SUBSET Peers, NEW move \in BOOLEAN,
               RescueList(s, cs, move)
        PROVE  IInv'
    BY <1>1, <1>3, RescueListOwners DEF IInv
  <1>4. ASSUME NEW i \in SessionId, SessionStep(i)
        PROVE  IInv'
    BY <1>1, <1>4, SessionStepOwners DEF IInv
  <1>5. ASSUME NEW s \in Substreams,
               \/ PacketStep(s) \/ Silence(s) \/ TimerStep(s) \/ BlockRescue(s)
               \/ TestStep(s) \/ Seed(s)
        PROVE  IInv'
    BY <1>1, <1>5, SubstreamStepShrinks, Shrinking DEF IInv
  <1>6. ASSUME NEW p \in Peers, Connected(p)
        PROVE  IInv'
    BY <1>1, <1>6, ConnectedOwners DEF IInv
  <1>7. ASSUME NEW p \in Peers, ParentLost(p)
        PROVE  IInv'
    BY <1>1, <1>7, ParentLostShrinks, Shrinking DEF IInv
  <1> QED BY <1>2, <1>3, <1>4, <1>5, <1>6, <1>7 DEF Next

\* No candidate connection is forgotten: one that was never selected belongs
\* to a session that is not stopped yet.
THEOREM CandidatesOwned == Spec => []CandidateOwned
  <1>1. Init => IInv
    BY InitType, InitOwners DEF IInv
  <1>2. IInv /\ [Next]_vars => IInv'
    BY NextOwners
  <1>3. IInv => CandidateOwned
    BY DEF IInv, Owners
  <1> QED BY <1>1, <1>2, <1>3, PTL DEF Spec

----------------------------------------------------------------------------
(* What a step may not do *)

\* No step but the first packet of s makes PK its parent, or leaves it the
\* parent, unless PK is asked for s.
THEOREM PKSource == Spec => PKSourceKept
  <1>1. TypeOK /\ [Next]_vars
        => [\A s \in Substreams : started[s] /\ PKAsked(s) => PKAsked(s)']_vars
    <2> SUFFICES ASSUME TypeOK, Next, NEW t \in Substreams, started[t], PKAsked(t)
                 PROVE  PKAsked(t)'
      BY DEF PKAsked
    <2>1. PK \notin Peers
      BY PKAssumption, PeersAssumption
    <2>2. ASSUME NEW s \in Substreams, RescueFromPK(s)
          PROVE  PKAsked(t)'
      BY <2>2 DEF RescueFromPK, PKAsked, TypeOK
    <2>3. CASE UNCHANGED <<pkManifest, parent>>
      BY <2>3 DEF PKAsked
    <2>4. ASSUME NEW s \in Substreams, NEW cs \in SUBSET Peers, NEW move \in BOOLEAN,
                 RescueList(s, cs, move)
          PROVE  PKAsked(t)'
      BY <2>3, <2>4 DEF RescueList
    <2>5. ASSUME NEW i \in SessionId, SessionStep(i)
          PROVE  PKAsked(t)'
      BY <2>3, <2>5
      DEF SessionStep, ConnectTimeout, SelectParent, SelectNobody, StopSession, subVars
    <2>6. ASSUME NEW s \in Substreams, PacketStep(s)
          PROVE  PKAsked(t)'
      <3> PICK p \in Peers \cup {PK} :
            FirstPacket(s, p) \/ Packet(s, p) \/ LateRescue(s, p) \/ LateBlocked(s, p)
        BY <2>6 DEF PacketStep
      <3>1. CASE FirstPacket(s, p)
        BY <3>1 DEF FirstPacket, PKAsked, TypeOK
      <3>2. CASE Packet(s, p) \/ LateBlocked(s, p)
        BY <2>3, <3>2 DEF Packet, LateBlocked
      <3>3. CASE LateRescue(s, p)
        BY <2>2, <3>3 DEF LateRescue
      <3> QED BY <3>1, <3>2, <3>3
    <2>7. ASSUME NEW s \in Substreams, Silence(s) \/ TimerStep(s) \/ BlockRescue(s)
          PROVE  PKAsked(t)'
      BY <2>2, <2>3, <2>7
      DEF Silence, TimerStep, DataTimeout, DataTimeoutBlocked, Unblock, BlockRescue
    <2>8. ASSUME NEW s \in Substreams, TestStep(s)
          PROVE  PKAsked(t)'
      <3>1. CASE TestPassed(s)
        BY <2>1, <2>2, <3>1 DEF TestPassed, PKAsked, TypeOK, Table
      <3>2. CASE MovePassed(s)
        BY <2>1, <2>2, <3>2 DEF MovePassed, PKAsked, TypeOK, Table
      <3>3. CASE TestFailed(s)
        BY <2>2, <3>3 DEF TestFailed
      <3>4. CASE MoveFailed(s)
        BY <2>3, <3>4 DEF MoveFailed
      <3> QED BY <2>8, <3>1, <3>2, <3>3, <3>4 DEF TestStep
    <2>9. ASSUME NEW s \in Substreams, Seed(s)
          PROVE  PKAsked(t)'
      BY <2>9 DEF Seed, PKAsked, TypeOK
    <2>10. ASSUME NEW p \in Peers, Connected(p) \/ ParentLost(p)
           PROVE  PKAsked(t)'
      BY <2>3, <2>10 DEF Connected, ParentLost, subVars
    <2> QED BY <2>4, <2>5, <2>6, <2>7, <2>8, <2>9, <2>10 DEF Next
  <1> QED BY <1>1, TypeCorrect, PTL DEF Spec, PKSourceKept

\* A step that leaves parent[t] alone, and neither closes a parent that serves
\* t nor takes t from it or from PK, leaves t its source.
LEMMA SourceUntouched ==
    ASSUME NEW t \in Substreams, Served(t),
           parent'[t] = parent[t],
           t \in pkManifest => t \in pkManifest',
           \A p \in Peers : Serves(p, t) => conn'[p] = "selected" /\ t \in manifest'[p]
    PROVE  Served(t)'
  BY DEF Served, Serves

\* Dropping one sub-stream from a parent does not touch the others: the parent
\* is closed only when the dropped one was its last.
LEMMA DropFromOthers ==
    ASSUME TypeOK, NEW s \in Substreams, NEW t \in Substreams, s # t, NEW q,
           DropIfPresent(q, s)
    PROVE  \A p \in Peers : Serves(p, t) => conn'[p] = "selected" /\ t \in manifest'[p]
  BY DEF DropIfPresent, DropFrom, Serves, TypeOK, Table

\* A rescue gives s the source PK and leaves the parents of the others alone.
LEMMA RescueSource ==
    ASSUME TypeOK, NEW s \in Substreams, RescueFromPK(s)
    PROVE  /\ Served(s)'
           /\ \A t \in Substreams : t # s => parent'[t] = parent[t]
           /\ pkManifest \subseteq pkManifest'
  BY DEF RescueFromPK, Served, TypeOK

\* The end of a test takes no source away, but for the two exceptions of
\* SourceKept.
LEMMA TestSource ==
    ASSUME TypeOK, NEW s \in Substreams, NEW t \in Substreams, Served(t), TestStep(s),
           state[t] = "test" => /\ Serves(tester[t], t)
                                /\ rescueAfterFail[t] \/ tester[t] # parent[t]
    PROVE  Served(t)'
  <1> state[s] = "test"
    BY DEF TestStep, TestPassed, MovePassed, TestFailed, MoveFailed, TestEnded
  <1> PK \notin Peers
    BY PKAssumption, PeersAssumption
  <1>1. CASE TestPassed(s)
    <2>1. CASE tester[s] \in Table
      <3>1. CASE s = t
        BY <1>1, <2>1, <3>1 DEF TestPassed, TypeOK, Served, Serves
      <3>2. CASE s # t
        BY <1>1, <2>1, <3>2, SourceUntouched DEF TestPassed, TypeOK, Serves
      <3> QED BY <3>1, <3>2
    <2>2. CASE tester[s] \notin Table
      <3>1. RescueFromPK(s) /\ UNCHANGED <<conn, manifest>>
        BY <1>1, <2>2 DEF TestPassed
      <3> QED BY <3>1, RescueSource, SourceUntouched DEF Serves
    <2> QED BY <2>1, <2>2
  <1>2. CASE MovePassed(s)
    <2>1. CASE InTable(parent[s]) /\ tester[s] \in Table
      <3>1. CASE s = t
        <4>1. parent'[t] = tester[t] /\ tester[t] # parent[t] /\ Serves(tester[t], t)
          BY <1>2, <2>1, <3>1 DEF MovePassed, TypeOK
        <4>2. conn'[tester[t]] = conn[tester[t]] /\ manifest'[tester[t]] = manifest[tester[t]]
          BY <1>2, <2>1, <3>1, <4>1 DEF MovePassed, TypeOK, Serves, InTable, Table
        <4> QED BY <4>1, <4>2 DEF Served, Serves
      <3>2. CASE s # t
        <4>1. parent'[t] = parent[t] /\ (t \in pkManifest => t \in pkManifest')
          BY <1>2, <2>1, <3>2 DEF MovePassed, TypeOK
        <4>2. \A p \in Peers : Serves(p, t) => conn'[p] = "selected" /\ t \in manifest'[p]
          BY <1>2, <2>1, <3>2 DEF MovePassed, TypeOK, Serves, InTable, Table
        <4> QED BY <4>1, <4>2, SourceUntouched
      <3> QED BY <3>1, <3>2
    <2>2. CASE ~(InTable(parent[s]) /\ tester[s] \in Table)
      <3>1. RescueFromPK(s) /\ UNCHANGED <<conn, manifest>>
        BY <1>2, <2>2 DEF MovePassed
      <3> QED BY <3>1, RescueSource, SourceUntouched DEF Serves
    <2> QED BY <2>1, <2>2
  <1>3. CASE TestFailed(s)
    BY <1>3, RescueSource, DropFromOthers, SourceUntouched DEF TestFailed
  <1>4. CASE MoveFailed(s)
    <2>1. CASE s = t
      <3>1. UNCHANGED <<pkManifest, parent>> /\ parent[t] # tester[t] /\ DropIfPresent(tester[t], t)
        BY <1>4, <2>1 DEF MoveFailed, TestEnded
      <3>2. \A p \in Peers : p # tester[t] => conn'[p] = conn[p] /\ manifest'[p] = manifest[p]
        BY <3>1 DEF DropIfPresent, DropFrom, TypeOK
      <3> QED BY <3>1, <3>2 DEF Served, Serves
    <2>2. CASE s # t
      BY <1>4, <2>2, DropFromOthers, SourceUntouched DEF MoveFailed
    <2> QED BY <2>1, <2>2
  <1> QED BY <1>1, <1>2, <1>3, <1>4 DEF TestStep

\* A sub-stream that has a source keeps it in every step but the loss of its
\* parent, its first packet, and the two kinds of test SourceKept names.
THEOREM SourceIsKept == Spec => SourceKept
  <1>1. TypeOK /\ [Next]_vars
        => [\A s \in Substreams : Served(s) /\ ~Served(s)' => MayLose(s)]_vars
    <2> SUFFICES ASSUME TypeOK, Next, NEW t \in Substreams, Served(t), ~MayLose(t)
                 PROVE  Served(t)'
      BY DEF Served, Serves, MayLose, ParentLost
    <2> PK \notin Peers
      BY PKAssumption, PeersAssumption
    <2>1. ASSUME UNCHANGED <<pkManifest, parent, conn, manifest>>
          PROVE  Served(t)'
      BY <2>1 DEF Served, Serves
    <2>2. ASSUME NEW s \in Substreams, NEW cs \in SUBSET Peers, NEW move \in BOOLEAN,
                 RescueList(s, cs, move)
          PROVE  Served(t)'
      BY <2>2, SourceUntouched DEF RescueList, SetCandidates, Serves
    <2>3. ASSUME NEW i \in SessionId, SessionStep(i)
          PROVE  Served(t)'
      <3>1. CASE ConnectTimeout(i)
        BY <2>1, <3>1 DEF ConnectTimeout, subVars
      <3>2. ASSUME NEW c \in Peers, SelectParent(i, c)
            PROVE  Served(t)'
        BY <3>2, SourceUntouched DEF SelectParent, Select, Serves
      <3>3. CASE SelectNobody(i)
        BY <3>3, SourceUntouched DEF SelectNobody, Select, Serves
      <3>4. CASE StopSession(i)
        BY <3>4, SourceUntouched DEF StopSession, Serves, subVars
      <3> QED BY <2>3, <3>1, <3>2, <3>3, <3>4 DEF SessionStep
    <2>4. ASSUME NEW s \in Substreams, PacketStep(s)
          PROVE  Served(t)'
      <3> PICK p \in Peers \cup {PK} :
            FirstPacket(s, p) \/ Packet(s, p) \/ LateRescue(s, p) \/ LateBlocked(s, p)
        BY <2>4 DEF PacketStep
      <3>1. CASE FirstPacket(s, p)
        BY <3>1, SourceUntouched DEF FirstPacket, Serves, TypeOK, MayLose
      <3>2. CASE Packet(s, p) \/ LateBlocked(s, p)
        BY <2>1, <3>2 DEF Packet, LateBlocked
      <3>3. CASE LateRescue(s, p)
        <4>1. RescueFromPK(s) /\ DropIfPresent(p, s)
          BY <3>3 DEF LateRescue, Judged, Senders, DropIfPresent, Table
        <4> QED BY <4>1, RescueSource, DropFromOthers, SourceUntouched
      <3> QED BY <3>1, <3>2, <3>3
    <2>5. ASSUME NEW s \in Substreams, Silence(s) \/ TimerStep(s) \/ BlockRescue(s)
          PROVE  Served(t)'
      <3>1. CASE DataTimeout(s)
        BY <3>1, RescueSource, DropFromOthers, SourceUntouched DEF DataTimeout
      <3>2. CASE Silence(s) \/ DataTimeoutBlocked(s) \/ Unblock(s) \/ BlockRescue(s)
        BY <2>1, <3>2 DEF Silence, DataTimeoutBlocked, Unblock, BlockRescue
      <3> QED BY <2>5, <3>1, <3>2 DEF TimerStep
    <2>6. ASSUME NEW s \in Substreams, TestStep(s)
          PROVE  Served(t)'
      <3>1. state[t] = "test" => /\ Serves(tester[t], t)
                                 /\ rescueAfterFail[t] \/ tester[t] # parent[t]
        BY DEF MayLose
      <3> QED BY <2>6, <3>1, TestSource
    <2>7. ASSUME NEW s \in Substreams, Seed(s)
          PROVE  Served(t)'
      <3>1. CASE s = t
        BY <2>7, <3>1 DEF Seed, Served, TypeOK
      <3>2. CASE s # t
        BY <2>7, <3>2, SourceUntouched DEF Seed, Serves, TypeOK
      <3> QED BY <3>1, <3>2
    <2>8. ASSUME NEW p \in Peers, Connected(p)
          PROVE  Served(t)'
      BY <2>8, SourceUntouched DEF Connected, Serves, subVars, TypeOK
    <2>9. ASSUME NEW p \in Peers, ParentLost(p)
          PROVE  Served(t)'
      <3>1. p # parent[t]
        BY <2>9 DEF MayLose
      <3> QED BY <2>9, <3>1 DEF ParentLost, Served, Serves, subVars, TypeOK
    <2> QED BY <2>2, <2>3, <2>4, <2>5, <2>6, <2>7, <2>8, <2>9 DEF Next
  <1> QED BY <1>1, TypeCorrect, PTL DEF Spec, SourceKept

\* Dropping a sub-stream closes the parent it leaves with none.
LEMMA DropFromCloses ==
    ASSUME TypeOK, NEW s \in Substreams, NEW q, DropIfPresent(q, s), NEW p \in Peers,
           manifest[p] # {}, manifest'[p] = {}, conn[p] = "selected"
    PROVE  conn'[p] = "none"
  BY DEF DropIfPresent, DropFrom, TypeOK, Table

\* A selected parent is left with nothing to send only by the end of a MOVE.
THEOREM OnlyMoveEmpties == Spec => EmptiedOnlyByMove
  <1>1. TypeOK /\ [Next]_vars
        => [\A p \in Peers :
              conn[p] = "selected" /\ conn'[p] = "selected" /\ manifest[p] # {} /\ manifest'[p] = {}
              => \E s \in Substreams : MovePassed(s)]_vars
    <2> SUFFICES ASSUME TypeOK, Next, NEW p \in Peers, conn[p] = "selected",
                        conn'[p] = "selected", manifest[p] # {}, manifest'[p] = {},
                        \A s \in Substreams : ~MovePassed(s)
                 PROVE  FALSE
      BY DEF MovePassed
    <2>1. ASSUME NEW s \in Substreams, NEW cs \in SUBSET Peers, NEW move \in BOOLEAN,
                 RescueList(s, cs, move)
          PROVE  FALSE
      BY <2>1 DEF RescueList, SetCandidates
    <2>2. ASSUME NEW i \in SessionId, SessionStep(i)
          PROVE  FALSE
      BY <2>2 DEF SessionStep, ConnectTimeout, SelectParent, SelectNobody, Select, StopSession
    <2>3. ASSUME NEW s \in Substreams,
                 \/ PacketStep(s) \/ Silence(s) \/ TimerStep(s) \/ BlockRescue(s) \/ TestStep(s)
          PROVE  FALSE
      <3> DEFINE Dropped == (\E q : DropIfPresent(q, s)) \/ UNCHANGED <<manifest, conn>>
      <3>1. ASSUME NEW q \in Peers \cup {PK}, LateRescue(s, q)
            PROVE  Dropped
        BY <3>1, PKAssumption, PeersAssumption
        DEF LateRescue, Judged, Senders, DropIfPresent, Table
      <3>2. ASSUME NEW q \in Peers \cup {PK}, FirstPacket(s, q) \/ Packet(s, q) \/ LateBlocked(s, q)
            PROVE  Dropped
        BY <3>2 DEF FirstPacket, Packet, LateBlocked
      <3>3. ASSUME Silence(s) \/ TimerStep(s) \/ BlockRescue(s)
            PROVE  Dropped
        BY <3>3 DEF Silence, TimerStep, DataTimeout, DataTimeoutBlocked, Unblock, BlockRescue
      <3>4. ASSUME TestStep(s)
            PROVE  Dropped
        BY <3>4 DEF TestStep, TestPassed, TestFailed, MoveFailed
      <3>5. Dropped
        BY <2>3, <3>1, <3>2, <3>3, <3>4 DEF PacketStep
      <3> QED BY <3>5, DropFromCloses
    <2>4. ASSUME NEW s \in Substreams, Seed(s)
          PROVE  FALSE
      BY <2>4 DEF Seed, TypeOK
    <2>5. ASSUME NEW q \in Peers, Connected(q) \/ ParentLost(q)
          PROVE  FALSE
      BY <2>5 DEF Connected, ParentLost, TypeOK
    <2> QED BY <2>1, <2>2, <2>3, <2>4, <2>5 DEF Next
  <1> QED BY <1>1, TypeCorrect, PTL DEF Spec, EmptiedOnlyByMove

----------------------------------------------------------------------------
(* SubstreamTable implements SharedRecords *)

\* What the abstract record and holders of a peer are.
LEMMA RecordIs ==
    ASSUME TypeOK, NEW p \in Peers
    PROVE  /\ Record[p] = "none" <=> conn[p] = "none"
           /\ Record[p] = "candidate" <=> Unselected(p)
           /\ Record[p] = "selected" <=> conn[p] = "selected"
  BY DEF TypeOK, ConnState, Record, Unselected

\* A step that leaves the sessions and only closes parents forgets them.
LEMMA ShrinkingForgets ==
    ASSUME OnlyShrinks, UNCHANGED <<session, mySession>>
    PROVE  Records!Next
  <1> DEFINE gone == {p \in Peers : conn'[p] = "none"}
  <1>1. Holders' = Holders
    BY DEF Holders, Live, Candidates
  <1>2. Record' = [p \in Peers |-> IF p \in gone THEN "none" ELSE Record[p]]
    BY DEF OnlyShrinks, Record, Unselected
  <1>3. gone \in SUBSET Peers
    OBVIOUS
  <1> HIDE DEF gone
  <1> QED BY <1>1, <1>2, <1>3 DEF Records!Next, Records!Forget

\* A step that moves a session on, or brings a connection up, is no step of the
\* records.
LEMMA NothingShared ==
    ASSUME \A p \in Peers : \/ conn'[p] = conn[p]
                            \/ Unselected(p) /\ Unselected(p)',
           \A i \in SessionId : (Live(i)' <=> Live(i)) /\ Candidates(i)' = Candidates(i)
    PROVE  UNCHANGED Records!recordsVars
  <1>1. Record' = Record
    BY DEF Record, Unselected
  <1>2. Holders' = Holders
    BY DEF Holders
  <1> QED BY <1>1, <1>2 DEF Records!recordsVars

\* A list of candidates opens a session.
LEMMA RescueListOpens ==
    ASSUME TypeOK, FreshSessions, NEW s \in Substreams, NEW cs \in SUBSET Peers,
           NEW move \in BOOLEAN, RescueList(s, cs, move)
    PROVE  [Records!Next]_(Records!recordsVars)
  <1>1. CASE cs = {}
    BY <1>1 DEF RescueList, Records!recordsVars, Record, Holders, Unselected, Live, Candidates
  <1>2. CASE cs # {}
    <2> PICK new : new = mySession
      OBVIOUS
    <2>1. new \in SessionId /\ session[new].phase = "none"
      BY BoundsAssumption DEF RescueList, TypeOK, SessionId, FreshSessions
    <2>2. \A p \in Peers : new \notin Holders[p]
      BY <2>1 DEF Holders, Live
    <2>3. session' = [session EXCEPT ![new] = NewSession({s}, cs)]
      BY <1>2 DEF RescueList, SetCandidates
    <2>4. Live(new)' /\ \A p \in Peers : p \in Candidates(new)' <=> p \in cs
      BY <2>1, <2>3 DEF TypeOK, Live, Candidates, NewSession
    <2>5. \A i \in SessionId \ {new} : (Live(i)' <=> Live(i)) /\ Candidates(i)' = Candidates(i)
      BY <2>3 DEF TypeOK, Live, Candidates
    <2>6. ASSUME NEW p \in Peers
          PROVE  Holders'[p] = IF p \in cs THEN Holders[p] \cup {new} ELSE Holders[p]
      <3>1. /\ Holders[p] = {i \in SessionId : Live(i) /\ p \in Candidates(i)}
            /\ Holders'[p] = {i \in SessionId : Live(i)' /\ p \in Candidates(i)'}
        BY DEF Holders
      <3> QED BY <2>1, <2>2, <2>4, <2>5, <3>1
    <2>7. Holders' = [p \in Peers |-> IF p \in cs THEN Holders[p] \cup {new} ELSE Holders[p]]
      <3>1. Holders' = [p \in Peers |-> Holders'[p]]
        BY DEF Holders
      <3> QED BY <2>6, <3>1
    <2>8. conn' = [p \in Peers |-> IF p \in cs /\ conn[p] = "none" THEN "connecting" ELSE conn[p]]
      BY <1>2 DEF RescueList, SetCandidates
    <2>9. Record' = [p \in Peers |-> IF p \in cs /\ Record[p] = "none" THEN "candidate" ELSE Record[p]]
      BY <2>8, RecordIs DEF Record, Unselected
    <2> QED BY <2>1, <2>2, <2>7, <2>9 DEF Records!Next, Records!Open
  <1> QED BY <1>1, <1>2

\* The choice of a candidate selects its record; that of nobody does nothing.
LEMMA SelectSelects ==
    ASSUME TypeOK, NEW i \in SessionId, NEW c, Select(i, c), c \in Table \/ c \notin Peers,
           session' = [session EXCEPT ![i].phase = "end"], Live(i)
    PROVE  [Records!Next]_(Records!recordsVars)
  <1>1. \A j \in SessionId : (Live(j)' <=> Live(j)) /\ Candidates(j)' = Candidates(j)
    BY DEF TypeOK, SessionRec, Live, Candidates
  <1>2. conn' = [p \in Peers |-> IF p = c THEN "selected" ELSE conn[p]]
    BY DEF Select
  <1>3. CASE c \notin Peers
    BY <1>1, <1>2, <1>3, NothingShared
  <1>4. CASE c \in Table
    <2>1. c \in Peers /\ Record[c] # "none"
      BY <1>4, RecordIs DEF Table
    <2>2. Holders' = Holders
      BY <1>1 DEF Holders
    <2>3. Record' = [Record EXCEPT ![c] = "selected"]
      BY <1>2, <2>1 DEF Record, Unselected
    <2> QED BY <2>1, <2>2, <2>3 DEF Records!Next, Records!Select
  <1> QED BY <1>3, <1>4

\* Stopping a session closes it, and nobody is left behind.
LEMMA StopSessionCloses ==
    ASSUME TypeOK, TypeOK', CandidateOwned', NEW i \in SessionId, StopSession(i)
    PROVE  Records!Next
  <1> DEFINE ps == {p \in Candidates(i) : Unselected(p) /\ manifest[p] = {}}
  <1>1. Live(i) /\ ~Live(i)'
    BY DEF StopSession, TypeOK, NoSession, Live
  <1>2. \A j \in SessionId \ {i} : (Live(j)' <=> Live(j)) /\ Candidates(j)' = Candidates(j)
    BY DEF StopSession, TypeOK, Live, Candidates
  <1>3. ps \in SUBSET Peers /\ \A p \in ps : Unselected(p) /\ p \in Candidates(i)
    BY DEF Candidates
  <1>4. \A p \in ps : Record[p] = "candidate" /\ i \in Holders[p]
    BY <1>1, <1>3, RecordIs DEF Holders
  <1>5. Holders' = [p \in Peers |-> Holders[p] \ {i}]
    BY <1>1, <1>2 DEF Holders
  <1>6. conn' = [p \in Peers |-> IF p \in Candidates(i) /\ conn[p] # "selected" /\ manifest[p] = {}
                                 THEN "none" ELSE conn[p]]
    BY DEF StopSession
  <1>7. Record' = [p \in Peers |-> IF p \in ps THEN "none" ELSE Record[p]]
    BY <1>6 DEF Record, Unselected, TypeOK, ConnState
  <1>8. ASSUME NEW p \in Peers, Record'[p] = "candidate"
        PROVE  Holders'[p] # {}
    <2>1. Unselected(p)'
      BY <1>8 DEF TypeOK, ConnState, Record, Unselected
    <2> QED BY <2>1 DEF CandidateOwned, Holders
  <1> HIDE DEF ps
  <1> QED BY <1>3, <1>4, <1>5, <1>7, <1>8 DEF Records!Next, Records!Close

\* Every step is one of the shared records, or leaves them alone.
LEMMA RecordsStep ==
    IInv /\ IInv' /\ [Next]_vars => [Records!Next]_(Records!recordsVars)
  <1> SUFFICES ASSUME IInv, IInv', [Next]_vars
               PROVE  [Records!Next]_(Records!recordsVars)
    OBVIOUS
  <1> TypeOK /\ TypeOK' /\ FreshSessions /\ CandidateOwned'
    BY DEF IInv, Owners
  <1>1. ASSUME NEW s \in Substreams, NEW cs \in SUBSET Peers, NEW move \in BOOLEAN,
               RescueList(s, cs, move)
        PROVE  [Records!Next]_(Records!recordsVars)
    BY <1>1, RescueListOpens
  <1>2. ASSUME NEW i \in SessionId, SessionStep(i)
        PROVE  [Records!Next]_(Records!recordsVars)
    <2>1. CASE ConnectTimeout(i)
      <3>1. UNCHANGED conn
        BY <2>1 DEF ConnectTimeout
      <3>2. \A j \in SessionId : (Live(j)' <=> Live(j)) /\ Candidates(j)' = Candidates(j)
        BY <2>1 DEF ConnectTimeout, TypeOK, SessionRec, Live, Candidates
      <3> QED BY <3>1, <3>2, NothingShared
    <2>2. ASSUME NEW c \in Peers, SelectParent(i, c)
          PROVE  [Records!Next]_(Records!recordsVars)
      BY <2>2, SelectSelects DEF SelectParent, Eligible, Live
    <2>3. CASE SelectNobody(i)
      BY <2>3, SelectSelects, NoPeerAssumption DEF SelectNobody, Live
    <2>4. CASE StopSession(i)
      BY <2>4, StopSessionCloses
    <2> QED BY <1>2, <2>1, <2>2, <2>3, <2>4 DEF SessionStep
  <1>3. ASSUME NEW s \in Substreams,
               \/ PacketStep(s) \/ Silence(s) \/ TimerStep(s) \/ BlockRescue(s)
               \/ TestStep(s) \/ Seed(s)
        PROVE  Records!Next
    BY <1>3, SubstreamStepShrinks, ShrinkingForgets
  <1>4. ASSUME NEW p \in Peers, Connected(p)
        PROVE  [Records!Next]_(Records!recordsVars)
    <2>1. \A q \in Peers : conn'[q] = conn[q] \/ (Unselected(q) /\ Unselected(q)')
      BY <1>4 DEF Connected, TypeOK, Unselected
    <2>2. \A i \in SessionId : /\ session'[i].phase = session[i].phase
                               /\ \A q \in Peers : session'[i].link[q] = "none"
                                                   <=> session[i].link[q] = "none"
      BY <1>4 DEF Connected, TypeOK, SessionRec
    <2>3. \A j \in SessionId : (Live(j)' <=> Live(j)) /\ Candidates(j)' = Candidates(j)
      BY <2>2 DEF Live, Candidates
    <2> QED BY <2>1, <2>3, NothingShared
  <1>5. ASSUME NEW p \in Peers, ParentLost(p)
        PROVE  Records!Next
    BY <1>5, ParentLostShrinks, ShrinkingForgets
  <1>6. CASE UNCHANGED vars
    BY <1>6 DEF vars, Records!recordsVars, Record, Holders, Unselected, Live, Candidates
  <1> QED BY <1>1, <1>2, <1>3, <1>4, <1>5, <1>6 DEF Next

\* The entries of map_pid_parent are shared by sessions as SharedRecords says.
THEOREM ParentsAreShared == Spec => RecordsSpec
  <1>1. Init => IInv
    BY InitType, InitOwners DEF IInv
  <1>2. IInv /\ [Next]_vars => IInv'
    BY NextOwners, NextType DEF IInv
  <1>3. Init => Records!Init
    <2> SUFFICES ASSUME Init PROVE Records!Init
      OBVIOUS
    <2>1. CandidateOwned /\ \A p \in Peers : conn[p] \in {"none", "connecting"}
      <3>1. CandidateOwned
        BY <1>1 DEF IInv, Owners
      <3>2. \A p \in Peers : conn[p] \in {"none", "connecting"}
        BY DEF Init
      <3> QED BY <3>1, <3>2
    <2>2. Holders \in [Peers -> SUBSET SessionId]
      BY DEF Holders
    <2>3. ASSUME NEW p \in Peers
          PROVE  conn[p] = "none" <=> Holders[p] = {}
      <3>1. \A i \in SessionId : Live(i) /\ p \in Candidates(i) => conn[p] # "none"
        BY DEF Init, Live, Candidates, NoSession
      <3>2. conn[p] # "none" => Unselected(p)
        BY <2>1 DEF Unselected
      <3> QED BY <2>1, <3>1, <3>2 DEF Holders, CandidateOwned
    <2>4. Record = [p \in Peers |-> IF Holders[p] = {} THEN "none" ELSE "candidate"]
      BY <2>1, <2>3 DEF Record, Unselected
    <2> QED BY <2>2, <2>4 DEF Records!Init
  <1> QED BY <1>1, <1>2, <1>3, RecordsStep, PTL DEF Spec, RecordsSpec, Records!Spec

----------------------------------------------------------------------------
(* SubstreamTable implements ParentChange *)

\* A test has a candidate, and packets are counted in it only after the first
\* packet of the sub-stream.
TestsNamed == \A s \in Substreams : state[s] = "test" => tester[s] \in Peers
HeardStarted == \A s \in Substreams : heard[s] => started[s]

ChangeInv == TypeOK /\ TestsNamed /\ HeardStarted

\* A step that leaves s in no test ends its trial.
LEMMA TrialEnds ==
    ASSUME TypeOK, NEW s \in Substreams, NEW x \in SubState \ {"test"},
           state' = [state EXCEPT ![s] = x], UNCHANGED tester,
           \A t \in Substreams \ {s} : heard'[t] = heard[t]
    PROVE  Change!EndTrials({s})
  <1>1. Tried' = [t \in Substreams |-> IF t \in {s} THEN NoPeer ELSE Tried[t]]
    BY DEF TypeOK, Tried
  <1>2. HeardInTest' = HeardInTest \ {s}
    BY DEF TypeOK, HeardInTest
  <1> QED BY <1>1, <1>2 DEF Change!EndTrials

\* Every repair from PK goes back to it.
LEMMA RescueGoesBack ==
    ASSUME TypeOK, NEW s \in Substreams, RescueFromPK(s), UNCHANGED <<tester, started>>
    PROVE  Change!GoBack(s)
  <1>1. Change!EndTrials({s})
    BY TrialEnds DEF RescueFromPK, ResetDetection, SubState, TypeOK
  <1> QED BY <1>1 DEF Change!GoBack, RescueFromPK

\* So does a seed.
LEMMA SeedGoesBack ==
    ASSUME TypeOK, NEW s \in Substreams, Seed(s)
    PROVE  Change!GoBack(s)
  <1>1. Change!EndTrials({s})
    BY TrialEnds DEF Seed, ResetDetection, SubState, TypeOK
  <1> QED BY <1>1 DEF Change!GoBack, Seed

\* Detection that starts again, with the parent and the state as they are,
\* forgets what the test has counted.
LEMMA DetectionRestarts ==
    ASSUME TypeOK, NEW s \in Substreams, ResetDetection(s),
           UNCHANGED <<parent, started, state, tester>>
    PROVE  Change!Restart(s)
  <1>1. Tried' = Tried
    BY DEF Tried
  <1>2. HeardInTest' = HeardInTest \ {s}
    BY DEF ResetDetection, TypeOK, HeardInTest
  <1> QED BY <1>1, <1>2 DEF Change!Restart

\* What a packet of s from p does to its test.
LEMMA CountedHears ==
    ASSUME TypeOK, TestsNamed, NEW s \in Substreams, NEW q, NEW p, Counted(s, q, p),
           UNCHANGED <<state, tester>>
    PROVE  /\ Tried' = Tried
           /\ \/ HeardInTest' = HeardInTest
              \/ /\ HeardInTest' = HeardInTest \cup {s}
                 /\ Tried[s] = p /\ p # NoPeer
  <1>1. Tried' = Tried
    BY DEF Tried
  <1>2. CASE state[s] = "test" /\ tester[s] = p
    <2>1. HeardInTest' = HeardInTest \cup {s}
      BY <1>2 DEF Counted, TypeOK, HeardInTest
    <2>2. Tried[s] = p /\ p # NoPeer
      BY <1>2, NoPeerAssumption DEF Tried, TestsNamed
    <2> QED BY <1>1, <2>1, <2>2
  <1>3. CASE ~(state[s] = "test" /\ tester[s] = p)
    <2>1. heard' = heard
      BY <1>3 DEF Counted, TypeOK
    <2> QED BY <1>1, <2>1 DEF HeardInTest
  <1> QED BY <1>2, <1>3

\* The first packet starts the sub-stream.
LEMMA FirstPacketStarts ==
    ASSUME TypeOK, TestsNamed, NEW s \in Substreams, NEW p \in Peers \cup {PK}, FirstPacket(s, p)
    PROVE  Change!Start(s, p)
  <1>1. CASE p = PK
    <2>1. \A t \in Substreams \ {s} : heard'[t] = heard[t]
      BY DEF FirstPacket, Counted, TypeOK
    <2>2. state' = [state EXCEPT ![s] = "stable"] /\ UNCHANGED tester
      BY <1>1 DEF FirstPacket
    <2>3. Change!EndTrials({s})
      BY <2>1, <2>2, TrialEnds DEF SubState
    <2> QED BY <1>1, <2>3 DEF FirstPacket, Change!Start
  <1>2. CASE p # PK
    <2>1. UNCHANGED <<state, tester>>
      BY <1>2 DEF FirstPacket, TypeOK
    <2>2. CASE Counted(s, p, p)
      BY <1>2, <2>1, <2>2, CountedHears DEF FirstPacket, Change!Start
    <2>3. CASE UNCHANGED heard
      BY <1>2, <2>1, <2>3 DEF FirstPacket, Change!Start, Tried, HeardInTest
    <2> QED BY <2>2, <2>3 DEF FirstPacket
  <1> QED BY <1>1, <1>2

\* The choice of a candidate tries it for the sub-streams of its session.
LEMMA SelectTries ==
    ASSUME TypeOK, NEW i \in SessionId, NEW c \in Peers, SelectParent(i, c)
    PROVE  \E ss \in SUBSET Substreams : Change!Try(ss, c)
  <1> DEFINE ss == session[i].subs
  <1>1. ss \in SUBSET Substreams
    BY DEF TypeOK, SessionRec
  <1>2. Tried' = [s \in Substreams |-> IF s \in ss THEN c ELSE Tried[s]]
    BY DEF SelectParent, Tried
  <1>3. HeardInTest' = HeardInTest \ ss
    BY DEF SelectParent, HeardInTest
  <1>4. UNCHANGED <<parent, started>>
    BY DEF SelectParent
  <1> HIDE DEF ss
  <1> QED BY <1>1, <1>2, <1>3, <1>4 DEF Change!Try

\* The choice of nobody, and a new list, keep the parents.
LEMMA NobodyKeeps ==
    ASSUME TypeOK, NEW i \in SessionId, SelectNobody(i)
    PROVE  \E ss \in SUBSET Substreams : Change!Keep(ss)
  <1> DEFINE ss == session[i].subs
  <1>1. ss \in SUBSET Substreams
    BY DEF TypeOK, SessionRec
  <1>2. Tried' = [s \in Substreams |-> IF s \in ss THEN NoPeer ELSE Tried[s]]
    BY DEF SelectNobody, Tried
  <1>3. HeardInTest' = HeardInTest \ ss
    BY DEF SelectNobody, HeardInTest
  <1>4. UNCHANGED <<parent, started>>
    BY DEF SelectNobody
  <1> HIDE DEF ss
  <1> QED BY <1>1, <1>2, <1>3, <1>4 DEF Change!Keep, Change!EndTrials

LEMMA ListKeeps ==
    ASSUME TypeOK, NEW s \in Substreams, NEW cs \in SUBSET Peers, NEW move \in BOOLEAN,
           RescueList(s, cs, move)
    PROVE  Change!Keep({s}) \/ UNCHANGED Change!changeVars
  <1>1. CASE cs # {}
    <2>1. Change!EndTrials({s})
      BY <1>1, TrialEnds DEF RescueList, SubState
    <2> QED BY <2>1 DEF RescueList, Change!Keep
  <1>2. CASE cs = {}
    BY <1>2 DEF RescueList, Change!changeVars, Tried, HeardInTest
  <1> QED BY <1>1, <1>2

\* A test that passed adopts its candidate, or goes back to PK if that is gone;
\* one that failed keeps the parent or goes back to PK.
LEMMA TestDecides ==
    ASSUME ChangeInv, NEW s \in Substreams, TestStep(s)
    PROVE  Change!Adopt(s) \/ Change!GoBack(s) \/ Change!Keep({s})
  <1> TypeOK /\ state[s] = "test"
    BY DEF ChangeInv, TestStep, TestPassed, MovePassed, TestFailed, MoveFailed, TestEnded
  <1> UNCHANGED <<tester, started>>
    BY DEF TestStep, TestPassed, MovePassed, TestFailed, MoveFailed, TestEnded
  <1>1. CASE RescueFromPK(s)
    BY <1>1, RescueGoesBack
  <1>2. ASSUME heard[s], parent' = [parent EXCEPT ![s] = tester[s]],
               state' = [state EXCEPT ![s] = "stable"], ResetDetection(s)
        PROVE  Change!Adopt(s)
    <2>1. Change!EndTrials({s})
      BY <1>2, TrialEnds DEF ResetDetection, SubState, TypeOK
    <2>2. started[s] /\ s \in HeardInTest /\ Tried[s] = tester[s]
      BY <1>2 DEF ChangeInv, HeardStarted, HeardInTest, Tried
    <2> QED BY <1>2, <2>1, <2>2 DEF Change!Adopt
  <1>3. CASE MoveFailed(s)
    <2>1. Change!EndTrials({s})
      BY <1>3, TrialEnds DEF MoveFailed, ResetDetection, SubState, TypeOK
    <2> QED BY <1>3, <2>1 DEF MoveFailed, Change!Keep
  <1>4. CASE TestPassed(s)
    BY <1>1, <1>2, <1>4 DEF TestPassed
  <1>5. CASE MovePassed(s)
    BY <1>1, <1>2, <1>5 DEF MovePassed
  <1>6. CASE TestFailed(s)
    BY <1>1, <1>6 DEF TestFailed
  <1> QED BY <1>3, <1>4, <1>5, <1>6 DEF TestStep

\* Every step is one of a change of parent, or leaves that alone.
LEMMA ChangeStep ==
    ChangeInv /\ [Next]_vars => [Change!Next]_(Change!changeVars)
  <1> SUFFICES ASSUME ChangeInv, [Next]_vars
               PROVE  [Change!Next]_(Change!changeVars)
    OBVIOUS
  <1> TypeOK /\ TestsNamed
    BY DEF ChangeInv
  <1>1. ASSUME UNCHANGED <<parent, started, state, tester, heard>>
        PROVE  UNCHANGED Change!changeVars
    BY <1>1 DEF Change!changeVars, Tried, HeardInTest
  <1>2. ASSUME NEW s \in Substreams, NEW cs \in SUBSET Peers, NEW move \in BOOLEAN,
               RescueList(s, cs, move)
        PROVE  [Change!Next]_(Change!changeVars)
    BY <1>2, ListKeeps DEF Change!Next
  <1>3. ASSUME NEW i \in SessionId, SessionStep(i)
        PROVE  [Change!Next]_(Change!changeVars)
    <2>1. CASE ConnectTimeout(i) \/ StopSession(i)
      BY <1>1, <2>1 DEF ConnectTimeout, StopSession, subVars
    <2>2. ASSUME NEW c \in Peers, SelectParent(i, c)
          PROVE  Change!Next
      BY <2>2, SelectTries DEF Change!Next
    <2>3. CASE SelectNobody(i)
      BY <2>3, NobodyKeeps DEF Change!Next
    <2> QED BY <1>3, <2>1, <2>2, <2>3 DEF SessionStep
  <1>4. ASSUME NEW s \in Substreams, PacketStep(s)
        PROVE  [Change!Next]_(Change!changeVars)
    <2> PICK p \in Peers \cup {PK} :
          FirstPacket(s, p) \/ Packet(s, p) \/ LateRescue(s, p) \/ LateBlocked(s, p)
      BY <1>4 DEF PacketStep
    <2>1. CASE FirstPacket(s, p)
      BY <2>1, FirstPacketStarts DEF Change!Next
    <2>2. CASE Packet(s, p)
      <3>1. /\ Tried' = Tried
            /\ \/ HeardInTest' = HeardInTest
               \/ HeardInTest' = HeardInTest \cup {s} /\ Tried[s] = p /\ p # NoPeer
        BY <2>2, CountedHears DEF Packet
      <3> QED BY <2>2, <3>1 DEF Packet, Change!Next, Change!Hear, Change!changeVars
    <2>3. CASE LateRescue(s, p)
      BY <2>3, RescueGoesBack DEF LateRescue, Change!Next
    <2>4. CASE LateBlocked(s, p)
      BY <2>4, DetectionRestarts DEF LateBlocked, Change!Next
    <2> QED BY <2>1, <2>2, <2>3, <2>4
  <1>5. ASSUME NEW s \in Substreams, Silence(s) \/ TimerStep(s) \/ BlockRescue(s)
        PROVE  [Change!Next]_(Change!changeVars)
    <2>1. CASE Silence(s) \/ BlockRescue(s)
      BY <1>1, <2>1 DEF Silence, BlockRescue
    <2>2. CASE DataTimeout(s)
      BY <2>2, RescueGoesBack DEF DataTimeout, Change!Next
    <2>3. CASE DataTimeoutBlocked(s) \/ Unblock(s)
      BY <2>3, DetectionRestarts DEF DataTimeoutBlocked, Unblock, Change!Next
    <2> QED BY <1>5, <2>1, <2>2, <2>3 DEF TimerStep
  <1>6. ASSUME NEW s \in Substreams, TestStep(s) \/ Seed(s)
        PROVE  Change!Next
    BY <1>6, TestDecides, SeedGoesBack DEF Change!Next
  <1>7. ASSUME NEW p \in Peers, Connected(p) \/ ParentLost(p)
        PROVE  UNCHANGED Change!changeVars
    BY <1>1, <1>7 DEF Connected, ParentLost, subVars
  <1>8. CASE UNCHANGED vars
    BY <1>1, <1>8 DEF vars, subVars
  <1> QED BY <1>2, <1>3, <1>4, <1>5, <1>6, <1>7, <1>8 DEF Next

\* A test is only ever started with a candidate.
LEMMA TestsStayNamed == TypeOK /\ TestsNamed /\ [Next]_vars => TestsNamed'
  <1> SUFFICES ASSUME TypeOK, TestsNamed, [Next]_vars, NEW t \in Substreams, state'[t] = "test"
               PROVE  tester'[t] \in Peers
    BY DEF TestsNamed
  <1>1. ASSUME UNCHANGED tester, state'[t] = state[t]
        PROVE  tester'[t] \in Peers
    BY <1>1 DEF TestsNamed
  <1>2. ASSUME NEW s \in Substreams, NEW x, x # "test", state' = [state EXCEPT ![s] = x]
        PROVE  state'[t] = state[t]
    BY <1>2 DEF TypeOK
  <1>3. ASSUME NEW s \in Substreams, NEW cs \in SUBSET Peers, NEW move \in BOOLEAN,
               RescueList(s, cs, move)
        PROVE  tester'[t] \in Peers
    BY <1>1, <1>2, <1>3 DEF RescueList
  <1>4. ASSUME NEW i \in SessionId, SessionStep(i)
        PROVE  tester'[t] \in Peers
    <2>1. CASE ConnectTimeout(i) \/ StopSession(i)
      BY <1>1, <2>1 DEF ConnectTimeout, StopSession, subVars
    <2>2. ASSUME NEW c \in Peers, SelectParent(i, c)
          PROVE  tester'[t] \in Peers
      BY <2>2 DEF SelectParent, TestsNamed
    <2>3. CASE SelectNobody(i)
      <3>1. state'[t] = state[t]
        BY <2>3 DEF SelectNobody
      <3> QED BY <1>1, <2>3, <3>1 DEF SelectNobody
    <2> QED BY <1>4, <2>1, <2>2, <2>3 DEF SessionStep
  <1>5. ASSUME NEW s \in Substreams, PacketStep(s)
        PROVE  tester'[t] \in Peers
    <2>1. UNCHANGED tester
      BY <1>5 DEF PacketStep, FirstPacket, Packet, LateRescue, LateBlocked
    <2>2. state'[t] = state[t]
      BY <1>2, <1>5 DEF PacketStep, FirstPacket, Packet, LateRescue, LateBlocked, RescueFromPK, TypeOK
    <2> QED BY <1>1, <2>1, <2>2
  <1>6. ASSUME NEW s \in Substreams, Silence(s) \/ TimerStep(s) \/ BlockRescue(s) \/ Seed(s)
        PROVE  tester'[t] \in Peers
    <2>1. UNCHANGED tester
      BY <1>6 DEF Silence, TimerStep, BlockRescue, DataTimeout, DataTimeoutBlocked, Unblock, Seed
    <2>2. state'[t] = state[t]
      BY <1>2, <1>6
      DEF Silence, TimerStep, BlockRescue, DataTimeout, DataTimeoutBlocked, Unblock, Seed,
          RescueFromPK
    <2> QED BY <1>1, <2>1, <2>2
  <1>7. ASSUME NEW s \in Substreams, TestStep(s)
        PROVE  tester'[t] \in Peers
    <2>1. UNCHANGED tester
      BY <1>7 DEF TestStep, TestPassed, MovePassed, TestFailed, MoveFailed, TestEnded
    <2>2. \E x : x # "test" /\ state' = [state EXCEPT ![s] = x]
      BY <1>7 DEF TestStep, TestPassed, MovePassed, TestFailed, MoveFailed, RescueFromPK
    <2> QED BY <1>1, <1>2, <2>1, <2>2
  <1>8. ASSUME NEW p \in Peers, Connected(p) \/ ParentLost(p)
        PROVE  tester'[t] \in Peers
    BY <1>1, <1>8 DEF Connected, ParentLost, subVars
  <1>9. CASE UNCHANGED vars
    BY <1>1, <1>9 DEF vars, subVars
  <1> QED BY <1>3, <1>4, <1>5, <1>6, <1>7, <1>8, <1>9 DEF Next

\* Packets count only once the sub-stream has started, which it stays.
LEMMA HeardStaysStarted == TypeOK /\ HeardStarted /\ [Next]_vars => HeardStarted'
  <1> SUFFICES ASSUME TypeOK, HeardStarted, [Next]_vars, NEW t \in Substreams
               PROVE  heard'[t] => started'[t]
    BY DEF HeardStarted
  <1>1. ASSUME UNCHANGED started, heard'[t] => heard[t]
        PROVE  heard'[t] => started'[t]
    BY <1>1 DEF HeardStarted
  <1>2. ASSUME NEW s \in Substreams, ResetDetection(s)
        PROVE  heard'[t] => heard[t]
    BY <1>2 DEF ResetDetection, TypeOK
  <1>3. ASSUME NEW s \in Substreams, NEW cs \in SUBSET Peers, NEW move \in BOOLEAN,
               RescueList(s, cs, move)
        PROVE  heard'[t] => started'[t]
    BY <1>1, <1>3 DEF RescueList
  <1>4. ASSUME NEW i \in SessionId, SessionStep(i)
        PROVE  heard'[t] => started'[t]
    BY <1>1, <1>4
    DEF SessionStep, ConnectTimeout, SelectParent, SelectNobody, StopSession, subVars
  <1>5. ASSUME NEW s \in Substreams, PacketStep(s)
        PROVE  heard'[t] => started'[t]
    <2> PICK p \in Peers \cup {PK} :
          FirstPacket(s, p) \/ Packet(s, p) \/ LateRescue(s, p) \/ LateBlocked(s, p)
      BY <1>5 DEF PacketStep
    <2>1. CASE FirstPacket(s, p)
      BY <2>1 DEF FirstPacket, Counted, TypeOK, HeardStarted
    <2>2. CASE Packet(s, p)
      BY <2>2 DEF Packet, Counted, TypeOK, HeardStarted
    <2>3. CASE LateRescue(s, p) \/ LateBlocked(s, p)
      BY <1>1, <1>2, <2>3 DEF LateRescue, LateBlocked, RescueFromPK
    <2> QED BY <2>1, <2>2, <2>3
  <1>6. ASSUME NEW s \in Substreams,
               Silence(s) \/ TimerStep(s) \/ BlockRescue(s) \/ TestStep(s) \/ Seed(s)
        PROVE  heard'[t] => started'[t]
    <2>1. UNCHANGED started
      BY <1>6 DEF Silence, TimerStep, BlockRescue, DataTimeout, DataTimeoutBlocked, Unblock, Seed,
                  TestStep, TestPassed, MovePassed, TestFailed, MoveFailed, TestEnded
    <2>2. UNCHANGED heard \/ ResetDetection(s)
      BY <1>6 DEF Silence, TimerStep, BlockRescue, DataTimeout, DataTimeoutBlocked, Unblock, Seed,
                  TestStep, TestPassed, MovePassed, TestFailed, MoveFailed, RescueFromPK
    <2> QED BY <1>1, <1>2, <2>1, <2>2
  <1>7. ASSUME NEW p \in Peers, Connected(p) \/ ParentLost(p)
        PROVE  heard'[t] => started'[t]
    BY <1>1, <1>7 DEF Connected, ParentLost, subVars
  <1>8. CASE UNCHANGED vars
    BY <1>1, <1>8 DEF vars, subVars
  <1> QED BY <1>3, <1>4, <1>5, <1>6, <1>7, <1>8 DEF Next

\* A sub-stream changes its parent as ParentChange says: only a candidate heard
\* in the test that is on becomes the parent, everything else leads to PK.
THEOREM ParentsChangeByTest == Spec => ChangeSpec
  <1>1. Init => ChangeInv /\ Change!Init
    <2> SUFFICES ASSUME Init PROVE ChangeInv /\ Change!Init
      OBVIOUS
    <2>1. TestsNamed /\ HeardStarted
      BY DEF Init, TestsNamed, HeardStarted
    <2>2. Change!Init
      BY DEF Init, Change!Init, Tried, HeardInTest
    <2> QED BY <2>1, <2>2, InitType DEF ChangeInv
  <1>2. ChangeInv /\ [Next]_vars => ChangeInv'
    BY NextType, TestsStayNamed, HeardStaysStarted DEF ChangeInv
  <1> QED BY <1>1, <1>2, ChangeStep, PTL DEF Spec, ChangeSpec, Change!Spec
=============================================================================
