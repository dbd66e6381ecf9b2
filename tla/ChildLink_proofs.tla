-------------------------- MODULE ChildLink_proofs --------------------------
(***************************************************************************)
(* Theorems about ChildLink, for any number of children, sub-streams,      *)
(* sessions and connections.                                               *)
(***************************************************************************)
EXTENDS ChildLink, TLAPS

----------------------------------------------------------------------------
(* The inductive invariant *)

\* Only sockets that were connected have queues.
QueuedUsed == \A l \in queued : link[l] # "none"

\* A socket that was connected leads to a child.
OwnerKnown == \A l \in Links : link[l] # "none" => owner[l] \in Children

\* The sockets of a session lead to its child, also those it took over.
SessionSocks ==
    \A i \in SessionId : Live(i) =>
        /\ session[i].child \in Children
        /\ \A d \in Dir : session[i].sock[d] # 0 =>
               /\ link[session[i].sock[d]] # "none"
               /\ owner[session[i].sock[d]] = session[i].child

\* Only selected children have asked for something.
NothingBefore == \A c \in Children : conn[c] # "selected" => manifest[c] = {}

LinkIInv ==
    /\ LinkTypeOK /\ QueueFound /\ RecordOwned
    /\ QueuedUsed /\ OwnerKnown /\ SessionSocks /\ NothingBefore

\* A session that does not exist is a session record too.
LEMMA NoSessionType == NoSession \in SessionRec
  BY LinkBoundsAssumption DEF NoSession, SessionRec, Phase, Dir

\* The invariant holds initially.
LEMMA InitIInv == LinkInit => LinkIInv
  <1> SUFFICES ASSUME LinkInit PROVE LinkIInv
    OBVIOUS
  <1>2. LinkTypeOK
    BY NoSessionType, LinkBoundsAssumption DEF LinkInit, LinkTypeOK, ConnState, LinkState
  <1>3. \A i \in SessionId : ~Live(i)
    BY DEF LinkInit, Live, NoSession
  <1> QED
    BY <1>2, <1>3 DEF LinkInit, LinkIInv, QueueFound, RecordOwned, Unselected, QueuedUsed,
       OwnerKnown, SessionSocks, NothingBefore

----------------------------------------------------------------------------
(* Closing children *)

\* Closing selected children keeps what is said of records and sockets.
LEMMA CloseChildrenInv ==
    ASSUME LinkIInv, NEW cs \in SUBSET Children, \A c \in cs : conn[c] = "selected",
           CloseChildren(cs), UNCHANGED <<session, nonblocking, owner>>, info' \in SUBSET info
    PROVE  LinkIInv'
  <1>1. LinkTypeOK'
    BY LinkBoundsAssumption DEF LinkIInv, LinkTypeOK, CloseChildren, ConnState, LinkState
  <1>2. QueueFound'
    <2> SUFFICES ASSUME NEW c \in Children, conn'[c] = "selected"
                 PROVE  sock'[c] \in queued' /\ owner'[sock'[c]] = c
      BY DEF QueueFound
    <2>1. c \notin cs /\ conn[c] = "selected" /\ sock'[c] = sock[c]
      BY DEF LinkIInv, LinkTypeOK, CloseChildren
    <2>2. sock[c] \in queued /\ owner[sock[c]] = c
      BY <2>1 DEF LinkIInv, QueueFound
    <2>3. \A d \in cs : sock[d] # sock[c]
      BY <2>1, <2>2 DEF LinkIInv, QueueFound
    <2> QED BY <2>1, <2>2, <2>3 DEF CloseChildren
  <1>3. RecordOwned'
    <2>1. \A c \in Children : Unselected(c)' => Unselected(c)
      BY DEF Unselected, CloseChildren, LinkIInv, LinkTypeOK
    <2> QED BY <2>1 DEF RecordOwned, LinkIInv, Live
  <1>4. \A l \in Links : link'[l] = "none" <=> link[l] = "none"
    <2>1. ASSUME NEW l \in Links, NEW c \in cs, sock[c] = l
          PROVE  link[l] # "none"
      BY <2>1 DEF LinkIInv, QueueFound, QueuedUsed
    <2> QED BY <2>1 DEF CloseChildren
  <1>5. QueuedUsed'
    BY <1>4 DEF QueuedUsed, LinkIInv, LinkTypeOK, CloseChildren
  <1>6. OwnerKnown'
    BY <1>4 DEF OwnerKnown, LinkIInv
  <1>7. SessionSocks'
    BY <1>4, LinkBoundsAssumption DEF SessionSocks, LinkIInv, LinkTypeOK, SessionRec, Live, Links
  <1>8. NothingBefore'
    BY DEF NothingBefore, LinkIInv, LinkTypeOK, CloseChildren
  <1> QED BY <1>1, <1>2, <1>3, <1>5, <1>6, <1>7, <1>8 DEF LinkIInv

\* A step that changes only what UDT says of sockets in use keeps it too.
LEMMA SocketStepInv ==
    ASSUME LinkIInv, NEW l \in Links, link[l] # "none",
           \E st \in LinkState \ {"none"} : link' = [link EXCEPT ![l] = st],
           UNCHANGED <<recordVars, session, nonblocking, owner, queued, info>>
    PROVE  LinkIInv'
  <1>1. LinkTypeOK'
    BY DEF LinkIInv, LinkTypeOK, recordVars
  <1>2. \A k \in Links : link'[k] = "none" <=> link[k] = "none"
    BY DEF LinkIInv, LinkTypeOK
  <1>3. QueueFound' /\ RecordOwned' /\ NothingBefore'
    BY DEF LinkIInv, QueueFound, RecordOwned, NothingBefore, Unselected, Live, recordVars
  <1>4. QueuedUsed' /\ OwnerKnown'
    BY <1>2 DEF LinkIInv, LinkTypeOK, QueuedUsed, OwnerKnown
  <1>5. SessionSocks'
    BY <1>2, LinkBoundsAssumption DEF SessionSocks, LinkIInv, LinkTypeOK, SessionRec, Live, Links
  <1> QED BY <1>1, <1>3, <1>4, <1>5 DEF LinkIInv

----------------------------------------------------------------------------
(* The actions *)

LEMMA InviteInv ==
    ASSUME LinkIInv, NEW i \in SessionId, NEW c \in Children, Invite(i, c)
    PROVE  LinkIInv'
  <1>1. ~Live(i)
    BY DEF Invite, NextSession, Live
  <1>2. session'[i] \in SessionRec /\ session'[i].child = c /\ Live(i)'
        /\ \A d \in Dir : session'[i].sock[d] = 0
    BY LinkBoundsAssumption DEF Invite, SessionRec, Phase, Dir, Live, LinkIInv, LinkTypeOK
  <1>3. \A j \in SessionId \ {i} : session'[j] = session[j]
    BY DEF Invite, LinkIInv, LinkTypeOK
  <1>4. LinkTypeOK'
    BY <1>2, <1>3 DEF Invite, LinkIInv, LinkTypeOK, ConnState
  <1>5. QueueFound' /\ NothingBefore' /\ QueuedUsed' /\ OwnerKnown'
    BY DEF Invite, LinkIInv, LinkTypeOK, QueueFound, NothingBefore, QueuedUsed, OwnerKnown
  <1>6. RecordOwned'
    <2> SUFFICES ASSUME NEW d \in Children, Unselected(d)'
                 PROVE  \E j \in SessionId : (Live(j) /\ session[j].child = d)'
      BY DEF RecordOwned
    <2>1. CASE d = c
      BY <1>2, <2>1
    <2>2. CASE d # c
      <3>1. Unselected(d)
        BY <2>2 DEF Unselected, Invite, LinkIInv, LinkTypeOK
      <3>2. PICK j \in SessionId : Live(j) /\ session[j].child = d
        BY <3>1 DEF RecordOwned, LinkIInv
      <3> QED BY <1>1, <1>3, <3>2 DEF Live
    <2> QED BY <2>1, <2>2
  <1>7. SessionSocks'
    <2>1. ASSUME NEW j \in SessionId \ {i}, Live(j)'
          PROVE  /\ session'[j].child \in Children
                 /\ \A d \in Dir : session'[j].sock[d] # 0 =>
                       /\ link'[session'[j].sock[d]] # "none"
                       /\ owner'[session'[j].sock[d]] = session'[j].child
      BY <1>3, <2>1 DEF SessionSocks, LinkIInv, Live, Invite
    <2> QED BY <1>2, <2>1 DEF SessionSocks
  <1> QED BY <1>4, <1>5, <1>6, <1>7 DEF LinkIInv

LEMMA ConnectedInv ==
    ASSUME LinkIInv, NEW i \in SessionId, NEW d \in Dir, NEW l \in Links, Connected(i, d, l)
    PROVE  LinkIInv'
  <1> DEFINE c == session[i].child
             Takes(j) == j = i \/ (Live(j) /\ session[j].child = c /\ d \in session[j].waits)
  <1>1. c \in Children /\ Live(i) /\ link[l] = "none" /\ l \notin queued
    BY DEF Connected, NextLink, LinkIInv, SessionSocks, QueuedUsed
  <1>2. ASSUME NEW j \in SessionId
        PROVE  /\ session'[j] \in SessionRec
               /\ session'[j].child = session[j].child
               /\ session'[j].phase = session[j].phase
               /\ Takes(j) => session'[j].sock = [session[j].sock EXCEPT ![d] = l]
               /\ ~Takes(j) => session'[j].sock = session[j].sock
    <2>1. session[j] \in SessionRec
      BY DEF LinkIInv, LinkTypeOK
    <2>2. session'[j] = IF Takes(j) THEN [session[j] EXCEPT !.sock[d] = l, !.waits = @ \ {d}]
                                    ELSE session[j]
      BY DEF Connected
    <2>3. CASE Takes(j)
      <3>1. session'[j] = [session[j] EXCEPT !.sock = [@ EXCEPT ![d] = l], !.waits = @ \ {d}]
        BY <2>2, <2>3
      <3>2. [session[j].sock EXCEPT ![d] = l] \in [Dir -> 0..MaxLinks]
        BY <2>1, LinkBoundsAssumption DEF SessionRec, Links
      <3>3. session[j].waits \ {d} \in SUBSET Dir
        BY <2>1 DEF SessionRec
      <3> HIDE DEF Takes
      <3> QED BY <2>1, <2>3, <3>1, <3>2, <3>3 DEF SessionRec
    <2>4. CASE ~Takes(j)
      BY <2>1, <2>2, <2>4
    <2> QED BY <2>3, <2>4
  <1> HIDE DEF Takes
  <1>3. \A j \in SessionId : Live(j)' <=> Live(j)
    BY <1>2 DEF Live
  <1>4. LinkTypeOK'
    <2>1. session' \in [SessionId -> SessionRec]
      BY <1>2 DEF Connected
    <2>2. conn' \in [Children -> ConnState]
      BY DEF Connected, LinkIInv, LinkTypeOK, ConnState
    <2>3. link' \in [Links -> LinkState] /\ owner' \in [Links -> Children \cup {NoChild}]
      BY <1>1 DEF Connected, LinkIInv, LinkTypeOK, LinkState
    <2> QED BY <2>1, <2>2, <2>3 DEF Connected, LinkIInv, LinkTypeOK
  <1>5. QueueFound' /\ NothingBefore' /\ QueuedUsed' /\ OwnerKnown'
    BY <1>1 DEF Connected, LinkIInv, LinkTypeOK, QueueFound, NothingBefore, QueuedUsed, OwnerKnown
  <1>6. RecordOwned'
    <2>1. \A e \in Children : Unselected(e)' => Unselected(e)
      BY DEF Unselected, Connected, LinkIInv, LinkTypeOK
    <2> QED BY <1>2, <1>3, <2>1 DEF RecordOwned, LinkIInv
  <1>7. SessionSocks'
    <2> SUFFICES ASSUME NEW j \in SessionId, Live(j)'
                 PROVE  /\ session'[j].child \in Children
                        /\ \A e \in Dir : session'[j].sock[e] # 0 =>
                              /\ link'[session'[j].sock[e]] # "none"
                              /\ owner'[session'[j].sock[e]] = session'[j].child
      BY DEF SessionSocks
    <2>1. Live(j) /\ session[j].child \in Children
      BY <1>3 DEF LinkIInv, SessionSocks
    <2>2. session[j].sock \in [Dir -> 0..MaxLinks]
      BY DEF LinkIInv, LinkTypeOK, SessionRec
    <2>3. link'[l] # "none" /\ owner'[l] = c
      BY <1>1 DEF Connected, LinkIInv, LinkTypeOK
    <2>4. ASSUME NEW e \in Dir, session[j].sock[e] # 0
          PROVE  /\ link'[session[j].sock[e]] # "none"
                 /\ owner'[session[j].sock[e]] = session[j].child
      <3>1. session[j].sock[e] \in Links
        BY <2>2, <2>4, LinkBoundsAssumption DEF Links
      <3>2. link[session[j].sock[e]] # "none" /\ owner[session[j].sock[e]] = session[j].child
        BY <2>1, <2>4 DEF LinkIInv, SessionSocks
      <3> QED BY <1>1, <3>1, <3>2 DEF Connected, LinkIInv, LinkTypeOK
    <2>5. Takes(j) => session[j].child = c
      BY DEF Takes
    <2> QED BY <1>2, <2>1, <2>2, <2>3, <2>4, <2>5
  <1> QED BY <1>4, <1>5, <1>6, <1>7 DEF LinkIInv

\* A timer that only moves a session on.
LEMMA PhaseInv ==
    ASSUME LinkIInv, NEW i \in SessionId, NEW ph \in Phase \ {"none", "stopped"}, Live(i),
           session' = [session EXCEPT ![i].phase = ph],
           UNCHANGED <<recordVars, nonblocking, link, owner, queued, info>>
    PROVE  LinkIInv'
  <1>1. \A j \in SessionId : /\ session'[j] \in SessionRec
                             /\ session'[j].child = session[j].child
                             /\ session'[j].sock = session[j].sock
                             /\ Live(j)' <=> Live(j)
    BY DEF LinkIInv, LinkTypeOK, SessionRec, Live, Phase
  <1>2. LinkTypeOK'
    BY <1>1 DEF LinkIInv, LinkTypeOK, recordVars
  <1>3. QueueFound' /\ NothingBefore' /\ QueuedUsed' /\ OwnerKnown'
    BY DEF LinkIInv, QueueFound, NothingBefore, QueuedUsed, OwnerKnown, recordVars
  <1>4. RecordOwned'
    BY <1>1 DEF LinkIInv, RecordOwned, Unselected, recordVars
  <1>5. SessionSocks'
    BY <1>1 DEF LinkIInv, SessionSocks
  <1> QED BY <1>2, <1>3, <1>4, <1>5 DEF LinkIInv

\* A session that stops leaves no record of its child that was not selected,
\* since its manifest is empty.
LEMMA StopSessionInv ==
    ASSUME LinkIInv, NEW i \in SessionId, StopSession(i)
    PROVE  LinkIInv'
  <1> DEFINE c == session[i].child
  <1>1. Live(i) /\ c \in Children
    BY DEF StopSession, Live, LinkIInv, SessionSocks
  <1>2. ~Live(i)' /\ session'[i] \in SessionRec
    <2>1. session'[i] = [NoSession EXCEPT !.phase = "stopped"]
      BY DEF StopSession, LinkIInv, LinkTypeOK
    <2>2. session'[i].phase = "stopped"
      BY <2>1 DEF NoSession
    <2>3. session'[i] \in SessionRec
      BY <2>1, NoSessionType DEF SessionRec, Phase
    <2> QED BY <2>2, <2>3 DEF Live
  <1>3. \A j \in SessionId \ {i} : session'[j] = session[j]
    BY DEF StopSession, LinkIInv, LinkTypeOK
  <1>4. \A l \in Links : link'[l] = "none" <=> link[l] = "none"
    <2>1. \A l \in Socks(i) : link[l] # "none"
      BY <1>1 DEF Socks, LinkIInv, SessionSocks
    <2>2. ClosesSocks(i, c) \subseteq Socks(i)
      BY DEF ClosesSocks
    <2> QED BY <2>1, <2>2 DEF StopSession
  <1>5. LinkTypeOK'
    BY <1>2, <1>3 DEF StopSession, LinkIInv, LinkTypeOK, ConnState, LinkState
  <1>6. \A e \in Children : conn'[e] = "selected" <=> conn[e] = "selected"
    BY DEF StopSession, ClosesRecord, Unselected, LinkIInv, LinkTypeOK
  <1>7. QueueFound' /\ NothingBefore'
    BY <1>6 DEF StopSession, LinkIInv, QueueFound, NothingBefore
  <1>8. QueuedUsed' /\ OwnerKnown'
    BY <1>4 DEF StopSession, LinkIInv, LinkTypeOK, QueuedUsed, OwnerKnown
  <1>9. RecordOwned'
    <2> SUFFICES ASSUME NEW e \in Children, Unselected(e)'
                 PROVE  \E j \in SessionId : (Live(j) /\ session[j].child = e)'
      BY DEF RecordOwned
    <2>1. e # c /\ Unselected(e)
      BY <1>1 DEF StopSession, ClosesRecord, Unselected, LinkIInv, LinkTypeOK, NothingBefore
    <2>2. PICK j \in SessionId : Live(j) /\ session[j].child = e
      BY <2>1 DEF RecordOwned, LinkIInv
    <2> QED BY <1>3, <2>1, <2>2 DEF Live
  <1>10. SessionSocks'
    <2>1. \A j \in SessionId \ {i} : session[j].sock \in [Dir -> 0..MaxLinks]
      BY DEF LinkIInv, LinkTypeOK, SessionRec
    <2> QED
      BY <1>2, <1>3, <1>4, <2>1, LinkBoundsAssumption
         DEF SessionSocks, LinkIInv, Live, StopSession, Links
  <1> QED BY <1>5, <1>7, <1>8, <1>9, <1>10 DEF LinkIInv

LEMMA PeerConInv ==
    ASSUME LinkIInv, NEW l \in Links, PeerCon(l)
    PROVE  LinkIInv'
  <1>1. owner[l] \in Children /\ link[l] # "none"
    BY DEF PeerCon, LinkIInv, OwnerKnown
  <1>2. LinkTypeOK'
    <2>1. conn' \in [Children -> ConnState] /\ sock' \in [Children -> 0..MaxLinks]
      <3>1. l \in 0..MaxLinks
        BY LinkBoundsAssumption DEF Links
      <3>2. CASE conn[owner[l]] # "none"
        BY <1>1, <3>1, <3>2 DEF PeerCon, LinkIInv, LinkTypeOK, ConnState
      <3>3. CASE conn[owner[l]] = "none"
        BY <3>3 DEF PeerCon, LinkIInv, LinkTypeOK
      <3> QED BY <3>2, <3>3
    <2>2. link' \in [Links -> LinkState] /\ queued' \in SUBSET Links /\ info' \in SUBSET Links
      BY DEF PeerCon, LinkIInv, LinkTypeOK, LinkState
    <2> QED BY <2>1, <2>2 DEF PeerCon, LinkIInv, LinkTypeOK
  <1>3. QueueFound' /\ NothingBefore'
    BY <1>1 DEF PeerCon, LinkIInv, LinkTypeOK, QueueFound, NothingBefore
  <1>4. \A k \in Links : link'[k] = "none" <=> link[k] = "none"
    BY <1>1 DEF PeerCon, LinkIInv, LinkTypeOK
  <1>5. QueuedUsed' /\ OwnerKnown'
    BY <1>1, <1>4 DEF PeerCon, LinkIInv, LinkTypeOK, QueuedUsed, OwnerKnown
  <1>6. RecordOwned'
    <2>1. \A e \in Children : Unselected(e)' => Unselected(e)
      BY DEF Unselected, PeerCon, LinkIInv, LinkTypeOK
    <2> QED BY <2>1 DEF RecordOwned, LinkIInv, PeerCon, Live
  <1>7. SessionSocks'
    BY <1>4, LinkBoundsAssumption
       DEF SessionSocks, LinkIInv, LinkTypeOK, SessionRec, Live, PeerCon, Links
  <1> QED BY <1>2, <1>3, <1>5, <1>6, <1>7 DEF LinkIInv

LEMMA SetManifestInv ==
    ASSUME LinkIInv, NEW l \in Links, NEW add \in BOOLEAN, NEW m \in SUBSET SubStreams,
           SetManifest(l, add, m)
    PROVE  LinkIInv'
  <1> DEFINE c == owner[l]
  <1>1. c \in Children /\ conn[c] = "selected"
    BY DEF SetManifest, LinkIInv, OwnerKnown
  <1>2. CASE m = {} /\ sock[c] = l
    <2>1. CloseChildren({c}) /\ UNCHANGED <<session, nonblocking, owner, info>>
      BY <1>2 DEF SetManifest
    <2> HIDE DEF c
    <2> QED BY <1>1, <2>1, CloseChildrenInv DEF LinkIInv, LinkTypeOK
  <1>3. CASE ~(m = {} /\ sock[c] = l)
    <2>1. /\ manifest' = [manifest EXCEPT ![c] = IF add THEN @ \cup m ELSE @ \ m]
          /\ UNCHANGED <<conn, sock, link, queued, session, nonblocking, owner, info>>
      BY <1>3 DEF SetManifest
    <2> HIDE DEF c
    <2>2. LinkTypeOK' /\ NothingBefore'
      BY <1>1, <2>1 DEF LinkIInv, LinkTypeOK, NothingBefore
    <2> QED
      BY <2>1, <2>2 DEF LinkIInv, QueueFound, RecordOwned, Unselected, Live, QueuedUsed,
         OwnerKnown, SessionSocks
  <1> QED BY <1>2, <1>3

LEMMA CheckSocketsInv ==
    ASSUME LinkIInv, NEW second \in BOOLEAN, CheckSockets(second)
    PROVE  LinkIInv'
  <1> DEFINE cs == Walked({c \in Children : conn[c] # "none"}, {c \in Children : Broken(c)})
  <1>1. cs \in SUBSET Children /\ \A c \in cs : conn[c] = "selected"
    BY DEF Walked, Broken
  <1>2. CloseChildren(cs) /\ UNCHANGED <<session, nonblocking, owner>> /\ info' \in SUBSET info
    BY DEF CheckSockets
  <1> HIDE DEF cs
  <1> QED BY <1>1, <1>2, CloseChildrenInv

\* Steps that change the state of one socket.
LEMMA SocketInv ==
    ASSUME LinkIInv, NEW l \in Links, RefuseShared(l) \/ Environment(l) \/ CloseOrphan(l)
    PROVE  LinkIInv'
  <1>1. link[l] # "none" /\ UNCHANGED <<recordVars, session, nonblocking, owner, queued, info>>
    BY DEF RefuseShared, Environment, Break, Reap, SendPart, CloseOrphan
  <1>2. \E st \in LinkState \ {"none"} : link' = [link EXCEPT ![l] = st]
    <2>1. CASE Break(l)
      BY <2>1 DEF Break, LinkState
    <2>2. CASE ~Break(l)
      BY <2>2 DEF RefuseShared, Environment, Reap, SendPart, CloseOrphan, LinkState
    <2> QED BY <2>1, <2>2
  <1> QED BY <1>1, <1>2, SocketStepInv

LEMMA StepIInv == LinkIInv /\ [LinkNext]_linkVars => LinkIInv'
  <1> SUFFICES ASSUME LinkIInv, [LinkNext]_linkVars PROVE LinkIInv'
    OBVIOUS
  <1>1. ASSUME NEW i \in SessionId, NEW c \in Children, Invite(i, c) PROVE LinkIInv'
    BY <1>1, InviteInv
  <1>2. ASSUME NEW i \in SessionId, NEW d \in Dir, NEW l \in Links, Connected(i, d, l) PROVE LinkIInv'
    BY <1>2, ConnectedInv
  <1>3. ASSUME NEW i \in SessionId, SessionTimer(i) PROVE LinkIInv'
    <2>1. CASE ConnectTimeout(i)
      <3>1. Live(i) /\ "selecting" \in Phase \ {"none", "stopped"}
        BY <2>1 DEF ConnectTimeout, Live, Phase
      <3> QED BY <2>1, <3>1, PhaseInv DEF ConnectTimeout
    <2>2. CASE SelectDone(i)
      <3>1. Live(i) /\ "end" \in Phase \ {"none", "stopped"}
        BY <2>2 DEF SelectDone, Live, Phase
      <3> QED BY <2>2, <3>1, PhaseInv DEF SelectDone
    <2>3. CASE StopSession(i)
      BY <2>3, StopSessionInv
    <2> QED BY <1>3, <2>1, <2>2, <2>3 DEF SessionTimer
  <1>4. ASSUME NEW l \in Links, LinkStep(l) PROVE LinkIInv'
    <2>1. CASE PeerCon(l)
      BY <2>1, PeerConInv
    <2>2. CASE Message(l)
      <3>1. ASSUME NEW s \in SubStreams PROVE {s} \in SUBSET SubStreams
        OBVIOUS
      <3> QED BY <2>2, <3>1, SetManifestInv DEF Message
    <2>3. CASE RefuseShared(l) \/ Environment(l) \/ CloseOrphan(l)
      BY <2>3, SocketInv
    <2> QED BY <1>4, <2>1, <2>2, <2>3 DEF LinkStep
  <1>5. ASSUME NEW c \in Children, Fail(c) PROVE LinkIInv'
    BY <1>5, CloseChildrenInv DEF Fail
  <1>6. ASSUME NEW second \in BOOLEAN, CheckSockets(second) PROVE LinkIInv'
    BY <1>6, CheckSocketsInv
  <1>7. CASE UNCHANGED linkVars
    BY <1>7 DEF linkVars, recordVars, LinkIInv, LinkTypeOK, QueueFound, RecordOwned, Unselected,
       Live, QueuedUsed, OwnerKnown, SessionSocks, NothingBefore
  <1> QED BY <1>1, <1>2, <1>3, <1>4, <1>5, <1>6, <1>7 DEF LinkNext

----------------------------------------------------------------------------
(* Theorems *)

\* The inductive invariant holds always.
THEOREM LinkInvariant == LinkSpec => []LinkIInv
  BY InitIInv, StepIInv, PTL DEF LinkSpec

\* The variables keep their types.
THEOREM LinkTypeCorrect == LinkSpec => []LinkTypeOK
  <1>1. LinkIInv => LinkTypeOK
    BY DEF LinkIInv
  <1> QED BY <1>1, LinkInvariant, PTL

\* The assertions of time_handle and GetQueueInfo on queues never fail.
THEOREM QueuesFound == LinkSpec => []QueueFound
  <1>1. LinkIInv => QueueFound
    BY DEF LinkIInv
  <1> QED BY <1>1, LinkInvariant, PTL

\* Every record of a child that was not selected has a session that will end it.
THEOREM RecordsOwned == LinkSpec => []RecordOwned
  <1>1. LinkIInv => RecordOwned
    BY DEF LinkIInv
  <1> QED BY <1>1, LinkInvariant, PTL

\* No step of a session ends the connection of a selected child.
THEOREM SessionsKeep == LinkSpec => SessionsKeepSelected
  <1> DEFINE A == session' # session =>
                    \A c \in Children :
                      conn[c] = "selected" =>
                        /\ conn'[c] = "selected" /\ sock'[c] = sock[c]
                        /\ link'[sock[c]] = link[sock[c]]
  <1>1. LinkIInv /\ [LinkNext]_linkVars => [A]_linkVars
    <2> SUFFICES ASSUME LinkIInv, LinkNext, session' # session,
                        NEW c \in Children, conn[c] = "selected"
                 PROVE  /\ conn'[c] = "selected" /\ sock'[c] = sock[c]
                        /\ link'[sock[c]] = link[sock[c]]
      OBVIOUS
    <2>1. sock[c] \in Links /\ sock[c] \in queued /\ owner[sock[c]] = c /\ link[sock[c]] # "none"
      BY DEF LinkIInv, LinkTypeOK, QueueFound, QueuedUsed
    <2>2. ASSUME NEW i \in SessionId, NEW d \in Children, Invite(i, d)
          PROVE  conn'[c] = "selected" /\ UNCHANGED <<sock, link>>
      BY <2>2 DEF Invite, LinkIInv, LinkTypeOK
    <2>3. ASSUME NEW i \in SessionId, NEW d \in Dir, NEW l \in Links, Connected(i, d, l)
          PROVE  conn'[c] = "selected" /\ UNCHANGED sock /\ link'[sock[c]] = link[sock[c]]
      BY <2>1, <2>3 DEF Connected, NextLink, LinkIInv, LinkTypeOK
    <2>4. ASSUME NEW i \in SessionId, StopSession(i)
          PROVE  conn'[c] = "selected" /\ UNCHANGED sock /\ link'[sock[c]] = link[sock[c]]
      <3>1. Live(i)
        BY <2>4 DEF StopSession, Live
      <3>2. sock[c] \in Socks(i) => session[i].child = c
        BY <2>1, <3>1 DEF Socks, LinkIInv, SessionSocks
      <3>3. sock[c] \notin ClosesSocks(i, session[i].child)
        BY <3>2 DEF ClosesSocks, ClosesRecord, Unselected
      <3>4. conn'[c] = "selected"
        BY <2>4 DEF StopSession, ClosesRecord, Unselected, LinkIInv, LinkTypeOK
      <3> QED BY <2>1, <2>4, <3>3, <3>4 DEF StopSession
    <2>5. ASSUME NEW i \in SessionId, ConnectTimeout(i) \/ SelectDone(i)
          PROVE  UNCHANGED <<conn, sock, link>>
      BY <2>5 DEF ConnectTimeout, SelectDone, recordVars
    <2>6. ASSUME NEW l \in Links, LinkStep(l) PROVE FALSE
      BY <2>6 DEF LinkStep, PeerCon, RefuseShared, Message, SetManifest, Environment, Break, Reap,
         SendPart, CloseOrphan
    <2>7. ASSUME NEW d \in Children, Fail(d) PROVE FALSE
      BY <2>7 DEF Fail
    <2>8. ASSUME NEW second \in BOOLEAN, CheckSockets(second) PROVE FALSE
      BY <2>8 DEF CheckSockets
    <2> QED BY <2>2, <2>3, <2>4, <2>5, <2>6, <2>7, <2>8 DEF LinkNext, SessionTimer
  <1> QED BY <1>1, LinkInvariant, PTL DEF LinkSpec, SessionsKeepSelected

----------------------------------------------------------------------------
(* ChildLink implements SharedRecords *)

\* A step that changes which sessions there are no more than which records.
LEMMA NothingShared ==
    ASSUME \A c \in Children : \/ conn'[c] = conn[c]
                               \/ Unselected(c) /\ Unselected(c)',
           \A i \in SessionId : /\ Live(i)' <=> Live(i)
                                /\ session'[i].child = session[i].child
    PROVE  UNCHANGED Records!recordsVars
  <1>1. Record' = Record
    BY DEF Record, Unselected
  <1>2. Holders' = Holders
    BY DEF Holders
  <1> QED BY <1>1, <1>2 DEF Records!recordsVars

\* An invitation opens a session for one child.
LEMMA InviteOpens ==
    ASSUME LinkTypeOK, NEW i \in SessionId, NEW c \in Children, Invite(i, c)
    PROVE  Records!Open(i, {c})
  <1>1. ~Live(i)
    BY DEF Invite, NextSession, Live
  <1>2. Live(i)' /\ session'[i].child = c
    BY DEF Invite, LinkTypeOK, Live
  <1>3. \A j \in SessionId \ {i} : session'[j] = session[j]
    BY DEF Invite, LinkTypeOK
  <1>4. \A d \in Children : i \notin Holders[d]
    BY <1>1 DEF Holders
  <1>5. Holders' = [d \in Children |-> IF d \in {c} THEN Holders[d] \cup {i} ELSE Holders[d]]
    <2>1. ASSUME NEW d \in Children
          PROVE  Holders'[d] = IF d \in {c} THEN Holders[d] \cup {i} ELSE Holders[d]
      <3>1. /\ Holders[d] = {j \in SessionId : Live(j) /\ session[j].child = d}
            /\ Holders'[d] = {j \in SessionId : Live(j)' /\ session'[j].child = d}
        BY DEF Holders
      <3>2. \A j \in SessionId \ {i} : Live(j)' <=> Live(j)
        BY <1>3 DEF Live
      <3> QED BY <1>1, <1>2, <1>3, <3>1, <3>2
    <2>2. Holders' = [d \in Children |-> Holders'[d]]
      BY DEF Holders
    <2> QED BY <2>1, <2>2
  <1>6. \A d \in Children : conn'[d] = IF d = c /\ conn[d] = "none" THEN "connecting" ELSE conn[d]
    BY DEF Invite, LinkTypeOK
  <1>7. Record' = [d \in Children |-> IF d \in {c} /\ Record[d] = "none" THEN "candidate"
                                      ELSE Record[d]]
    BY <1>6 DEF Record, Unselected
  <1> QED BY <1>4, <1>5, <1>7 DEF Records!Open

\* A session that stops takes the record of its child along, if that was not
\* selected, even if others still wait for the child.
LEMMA StopSessionCloses ==
    ASSUME LinkIInv, LinkIInv', NEW i \in SessionId, StopSession(i)
    PROVE  Records!Next
  <1> DEFINE c == session[i].child
             ps == IF ClosesRecord(c) THEN {c} ELSE {}
  <1>1. Live(i) /\ c \in Children
    BY DEF StopSession, Live, LinkIInv, SessionSocks
  <1>2. ~Live(i)'
    BY DEF StopSession, LinkIInv, LinkTypeOK, NoSession, Live
  <1>3. \A j \in SessionId \ {i} : session'[j] = session[j]
    BY DEF StopSession, LinkIInv, LinkTypeOK
  <1>4. Holders' = [d \in Children |-> Holders[d] \ {i}]
    <2>1. \A j \in SessionId \ {i} : Live(j)' <=> Live(j)
      BY <1>3 DEF Live
    <2> QED BY <1>2, <1>3, <2>1 DEF Holders
  <1>5. Record' = [d \in Children |-> IF d \in ps THEN "none" ELSE Record[d]]
    <2>1. \A d \in Children : conn'[d] = IF d \in ps THEN "none" ELSE conn[d]
      BY DEF StopSession, LinkIInv, LinkTypeOK
    <2> HIDE DEF ps
    <2> QED BY <2>1 DEF Record, Unselected
  <1>6. ps \in SUBSET Children /\ \A d \in ps : Record[d] = "candidate" /\ i \in Holders[d]
    BY <1>1 DEF ClosesRecord, Record, Holders
  <1>7. ASSUME NEW d \in Children, Record'[d] = "candidate"
        PROVE  Holders'[d] # {}
    <2>1. Unselected(d)'
      BY <1>7 DEF LinkIInv, LinkTypeOK, ConnState, Record, Unselected
    <2> QED BY <2>1 DEF LinkIInv, RecordOwned, Holders
  <1> HIDE DEF ps
  <1> QED BY <1>4, <1>5, <1>6, <1>7 DEF Records!Next, Records!Close

\* Closing children forgets their records.
LEMMA CloseChildrenForgets ==
    ASSUME NEW cs \in SUBSET Children, CloseChildren(cs), UNCHANGED session
    PROVE  Records!Next
  <1>1. Holders' = Holders
    BY DEF Holders, Live
  <1>2. Record' = [c \in Children |-> IF c \in cs THEN "none" ELSE Record[c]]
    BY DEF CloseChildren, Record, Unselected
  <1> QED BY <1>1, <1>2 DEF Records!Next, Records!Forget

\* PEER_CON selects a child, if it has a record.
LEMMA PeerConSelects ==
    ASSUME LinkIInv, NEW l \in Links, PeerCon(l)
    PROVE  [Records!Next]_(Records!recordsVars)
  <1> DEFINE c == owner[l]
  <1>1. c \in Children
    BY DEF PeerCon, LinkIInv, OwnerKnown
  <1>2. \A i \in SessionId : (Live(i)' <=> Live(i)) /\ session'[i].child = session[i].child
    BY DEF PeerCon, Live
  <1>3. CASE conn[c] = "none"
    <2>1. conn' = conn
      BY <1>3 DEF PeerCon
    <2> QED BY <1>2, <2>1, NothingShared
  <1>4. CASE conn[c] # "none"
    <2>1. \A d \in Children : conn'[d] = IF d = c THEN "selected" ELSE conn[d]
      BY <1>4 DEF PeerCon, LinkIInv, LinkTypeOK
    <2>2. Holders' = Holders
      BY <1>2 DEF Holders
    <2> HIDE DEF c
    <2>3. Record[c] # "none"
      BY <1>1, <1>4 DEF Record
    <2>4. Record' = [Record EXCEPT ![c] = "selected"]
      BY <2>1 DEF Record, Unselected
    <2> QED BY <1>1, <2>2, <2>3, <2>4 DEF Records!Next, Records!Select
  <1> QED BY <1>3, <1>4

\* Every step is one of the shared records, or leaves them alone.
LEMMA RecordsStep ==
    LinkIInv /\ LinkIInv' /\ [LinkNext]_linkVars => [Records!Next]_(Records!recordsVars)
  <1> SUFFICES ASSUME LinkIInv, LinkIInv', [LinkNext]_linkVars
               PROVE  [Records!Next]_(Records!recordsVars)
    OBVIOUS
  <1>1. ASSUME NEW i \in SessionId, NEW c \in Children, Invite(i, c)
        PROVE  Records!Next
    BY <1>1, InviteOpens DEF LinkIInv, Records!Next
  <1>2. ASSUME NEW i \in SessionId, NEW d \in Dir, NEW l \in Links, Connected(i, d, l)
        PROVE  UNCHANGED Records!recordsVars
    <2>1. \A c \in Children : conn'[c] = conn[c] \/ (Unselected(c) /\ Unselected(c)')
      BY <1>2 DEF Connected, LinkIInv, LinkTypeOK, Unselected
    <2>2. ASSUME NEW j \in SessionId
          PROVE  (Live(j)' <=> Live(j)) /\ session'[j].child = session[j].child
      <3>1. session[j] \in SessionRec
        BY DEF LinkIInv, LinkTypeOK
      <3>2. \/ session'[j] = session[j]
            \/ session'[j] = [session[j] EXCEPT !.sock = [@ EXCEPT ![d] = l], !.waits = @ \ {d}]
        BY <1>2 DEF Connected
      <3>3. session'[j].phase = session[j].phase /\ session'[j].child = session[j].child
        BY <3>1, <3>2 DEF SessionRec
      <3> QED BY <3>3 DEF Live
    <2> QED BY <2>1, <2>2, NothingShared
  <1>3. ASSUME NEW i \in SessionId, SessionTimer(i)
        PROVE  [Records!Next]_(Records!recordsVars)
    <2>1. CASE ConnectTimeout(i) \/ SelectDone(i)
      <3>1. UNCHANGED conn
        BY <2>1 DEF ConnectTimeout, SelectDone, recordVars
      <3>2. PICK ph \in {"selecting", "end"} : session' = [session EXCEPT ![i].phase = ph]
        BY <2>1 DEF ConnectTimeout, SelectDone
      <3>3. session[i].phase \in {"connecting", "selecting"}
        BY <2>1 DEF ConnectTimeout, SelectDone
      <3>4. ASSUME NEW j \in SessionId
            PROVE  (Live(j)' <=> Live(j)) /\ session'[j].child = session[j].child
        <4>1. session'[j] = IF j = i THEN [session[j] EXCEPT !.phase = ph] ELSE session[j]
          BY <3>2 DEF LinkIInv, LinkTypeOK
        <4>2. session[j] \in SessionRec
          BY DEF LinkIInv, LinkTypeOK
        <4>3. session'[j].child = session[j].child
              /\ session'[j].phase = IF j = i THEN ph ELSE session[j].phase
          BY <4>1, <4>2 DEF SessionRec
        <4> QED BY <3>3, <4>3 DEF Live
      <3> QED BY <3>1, <3>4, NothingShared
    <2>2. CASE StopSession(i)
      BY <2>2, StopSessionCloses
    <2> QED BY <1>3, <2>1, <2>2 DEF SessionTimer
  <1>4. ASSUME NEW l \in Links, LinkStep(l)
        PROVE  [Records!Next]_(Records!recordsVars)
    <2>1. CASE PeerCon(l)
      BY <2>1, PeerConSelects
    <2>2. ASSUME NEW add \in BOOLEAN, NEW m \in SUBSET SubStreams, SetManifest(l, add, m)
          PROVE  [Records!Next]_(Records!recordsVars)
      <3>1. owner[l] \in Children
        BY <2>2 DEF SetManifest, LinkIInv, OwnerKnown
      <3>2. CASE CloseChildren({owner[l]})
        BY <2>2, <3>1, <3>2, CloseChildrenForgets DEF SetManifest
      <3>3. CASE UNCHANGED conn
        BY <2>2, <3>3, NothingShared DEF SetManifest, Live
      <3> QED BY <2>2, <3>2, <3>3 DEF SetManifest
    <2>3. CASE Message(l)
      <3>1. ASSUME NEW s \in SubStreams PROVE {s} \in SUBSET SubStreams
        OBVIOUS
      <3> QED BY <2>2, <2>3, <3>1 DEF Message
    <2>4. CASE RefuseShared(l) \/ Environment(l) \/ CloseOrphan(l)
      <3>1. UNCHANGED <<conn, session>>
        BY <2>4 DEF RefuseShared, Environment, Break, Reap, SendPart, CloseOrphan, recordVars
      <3> QED BY <3>1, NothingShared DEF Live
    <2> QED BY <1>4, <2>1, <2>3, <2>4 DEF LinkStep
  <1>5. ASSUME NEW c \in Children, Fail(c)
        PROVE  Records!Next
    BY <1>5, CloseChildrenForgets DEF Fail
  <1>6. ASSUME NEW second \in BOOLEAN, CheckSockets(second)
        PROVE  Records!Next
    <2> DEFINE cs == Walked({c \in Children : conn[c] # "none"}, {c \in Children : Broken(c)})
    <2>1. cs \in SUBSET Children
      BY DEF Walked
    <2>2. CloseChildren(cs) /\ UNCHANGED session
      BY <1>6 DEF CheckSockets
    <2> HIDE DEF cs
    <2> QED BY <2>1, <2>2, CloseChildrenForgets
  <1>7. CASE UNCHANGED linkVars
    BY <1>7, NothingShared DEF linkVars, recordVars, Live
  <1> QED BY <1>1, <1>2, <1>3, <1>4, <1>5, <1>6, <1>7 DEF LinkNext

\* The entries of map_pid_child are shared by sessions as SharedRecords says.
THEOREM ChildrenAreShared == LinkSpec => RecordsSpec
  <1>1. LinkInit => Records!Init
    BY DEF LinkInit, Records!Init, Record, Holders, Unselected, Live, NoSession
  <1> QED BY <1>1, RecordsStep, LinkInvariant, PTL DEF LinkSpec, RecordsSpec, Records!Spec
=============================================================================
