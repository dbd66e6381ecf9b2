------------------------- MODULE ManifestLink_proofs -------------------------
(***************************************************************************)
(* Theorems about ManifestLink, for any number of sub-streams, sessions    *)
(* and connections: the parent of the two-ended model is the parent of     *)
(* ChildLink, so the theorems of ChildLink hold of it.                     *)
(***************************************************************************)
EXTENDS ManifestLink, ChildLink_proofs, SequenceTheorems

----------------------------------------------------------------------------
(* The inductive invariant *)

\* What a child says: PEER_CON, its manifest, or one sub-stream less.
Sent == {Con} \cup {Add(m) : m \in SUBSET SubStreams} \cup {Minus(s) : s \in SubStreams}

\* The child's end has its types.
ChildTypeOK ==
    /\ myConn \in ConnState
    /\ expected \in SUBSET SubStreams
    /\ mySock \in 0..MaxLinks
    /\ mySession \in [SessionId -> MySessionRec]
    /\ myNonblocking \in SUBSET Links
    /\ myQueued \in SUBSET Links
    /\ shut \in SUBSET Links
    /\ lastCon \in 0..MaxLinks

\* Nothing else is queued or on its way.
OnlySent == queue \in Seq(Sent) /\ wire \in [Links -> Seq(Sent)]

ManifestIInv == LinkIInv /\ ChildTypeOK /\ OnlySent

\* The variables of the child, and what is between the two, keep their types.
ChildInv == ChildTypeOK /\ OnlySent

\* Whatever is not PEER_CON is a message SetManifest has.
LEMMA SentType ==
    /\ Sent \subseteq Msg
    /\ Con \in Sent
    /\ \A m \in SUBSET SubStreams : Add(m) \in Sent
    /\ \A s \in SubStreams : Minus(s) \in Sent
    /\ \A x \in Sent : x.op # "con" =>
          \/ x.op = "add" /\ x.subs \in SUBSET SubStreams
          \/ x.op = "minus" /\ \E s \in SubStreams : x.subs = {s}
  <1>1. Con \in Sent /\ Con \in Msg /\ Con.op = "con"
    BY DEF Sent, Msg, Con
  <1>2. ASSUME NEW m \in SUBSET SubStreams
        PROVE  /\ Add(m) \in Sent /\ Add(m) \in Msg
               /\ Add(m).op = "add" /\ Add(m).subs = m
    BY DEF Sent, Msg, Add
  <1>3. ASSUME NEW s \in SubStreams
        PROVE  /\ Minus(s) \in Sent /\ Minus(s) \in Msg
               /\ Minus(s).op = "minus" /\ Minus(s).subs = {s}
    BY DEF Sent, Msg, Minus
  <1> QED
    BY <1>1, <1>2, <1>3 DEF Sent

LEMMA ManifestIInvType == ManifestIInv => ManifestTypeOK
  <1> SUFFICES ASSUME ManifestIInv PROVE ManifestTypeOK
    OBVIOUS
  <1>1. \A q \in Seq(Sent) : q \in Seq(Msg)
    BY SentType, SeqMonotonic
  <1>2. queue \in Seq(Msg) /\ wire \in [Links -> Seq(Msg)]
    BY <1>1 DEF ManifestIInv, OnlySent
  <1> QED
    BY <1>2 DEF ManifestIInv, ManifestTypeOK, LinkIInv, ChildTypeOK

\* A session that does not exist is a session record too.
LEMMA NoMySessionType == NoMySession \in MySessionRec
  BY LinkBoundsAssumption DEF NoMySession, MySessionRec, Phase, Closed, Way

LEMMA ManifestInitInv == ManifestInit => ManifestIInv
  <1> SUFFICES ASSUME ManifestInit PROVE ManifestIInv
    OBVIOUS
  <1>1. LinkIInv
    BY InitIInv DEF ManifestInit
  <1>2. ChildTypeOK
    BY NoMySessionType, LinkBoundsAssumption DEF ManifestInit, ChildTypeOK, ConnState
  <1>3. OnlySent
    BY EmptySeq DEF ManifestInit, OnlySent
  <1> QED
    BY <1>1, <1>2, <1>3 DEF ManifestIInv

----------------------------------------------------------------------------
(* The wires *)

LEMMA Said ==
    ASSUME NEW q \in Seq(Sent), NEW x \in Sent
    PROVE  Append(q, x) \in Seq(Sent) /\ <<x>> \in Seq(Sent)
  OBVIOUS

LEMMA Heard ==
    ASSUME NEW q \in Seq(Sent), q # <<>>
    PROVE  Head(q) \in Sent /\ Tail(q) \in Seq(Sent)
  OBVIOUS

LEMMA UnreadSent ==
    ASSUME NEW w \in [Links -> Seq(Sent)], wire' = Unread(w)
    PROVE  wire' \in [Links -> Seq(Sent)]
  BY EmptySeq DEF Unread

LEMMA AnnounceSent ==
    ASSUME ChildInv, NEW l \in Links, Announce(l)
    PROVE  myQueued' \in SUBSET Links /\ OnlySent'
  <1>1. \A k \in Links : Append(wire[k], Con) \in Seq(Sent)
    BY Said, SentType DEF ChildInv, OnlySent
  <1>2. <<Add(expected)>> \in Seq(Sent)
    BY Said, SentType, EmptySeq DEF ChildInv, ChildTypeOK
  <1> QED
    BY <1>1, <1>2 DEF Announce, ChildInv, ChildTypeOK, OnlySent

LEMMA MyCloseSent ==
    ASSUME ChildInv, MyClose, UNCHANGED wire
    PROVE  /\ myConn' \in ConnState /\ expected' \in SUBSET SubStreams /\ mySock' \in 0..MaxLinks
           /\ myQueued' \in SUBSET Links /\ OnlySent'
  BY LinkBoundsAssumption, EmptySeq DEF ChildInv, ChildTypeOK, OnlySent, MyClose, ConnState

LEMMA TellSent ==
    ASSUME ChildInv, NEW s \in SubStreams, Tell(Minus(s)), UNCHANGED wire
    PROVE  OnlySent'
  BY Said, SentType DEF ChildInv, OnlySent, Tell

----------------------------------------------------------------------------
(* The steps of the child *)

\* A session goes on, and nothing else of it changes but its phase.
LEMMA PhaseType ==
    ASSUME ChildInv, NEW i \in SessionId, NEW p \in Phase,
           mySession' = [mySession EXCEPT ![i].phase = p]
    PROVE  mySession' \in [SessionId -> MySessionRec]
  BY DEF ChildInv, ChildTypeOK, MySessionRec

LEMMA SocksType ==
    ASSUME ChildInv, NEW i \in SessionId
    PROVE  MySocks(i) \subseteq Links /\ Chosen(i) \in 0..MaxLinks
  <1>1. \A d \in Dir : mySession[i].way[d] \in Way /\ mySession[i].way[d].sock \in 0..MaxLinks
    BY DEF ChildInv, ChildTypeOK, MySessionRec, Way
  <1>2. MySocks(i) \subseteq Links
    BY <1>1, LinkBoundsAssumption DEF MySocks, Links
  <1>3. Chosen(i) \in 0..MaxLinks
    BY <1>1 DEF Chosen, Dir, ChildInv, ChildTypeOK
  <1> QED
    BY <1>2, <1>3

LEMMA ListedInv ==
    ASSUME ChildInv, NEW i \in SessionId, NEW ss \in SUBSET SubStreams, Listed(i, ss),
           UNCHANGED lastCon
    PROVE  ChildInv'
  <1> DEFINE new(w, b) == [NoMySession EXCEPT !.phase = "connecting", !.subs = ss, !.builds = b,
                                              !.way["out"] = w]
  <1>1. new([up |-> myConn \in {"connected", "selected"}, sock |-> 0], myConn = "none") \in MySessionRec
    <2>1. [up |-> myConn \in {"connected", "selected"}, sock |-> 0] \in Way
      BY LinkBoundsAssumption DEF Way
    <2>2. \A w \in Way, b \in BOOLEAN : new(w, b) \in MySessionRec
      BY NoMySessionType DEF MySessionRec, Phase, Dir
    <2>3. (myConn = "none") \in BOOLEAN
      OBVIOUS
    <2> HIDE DEF new
    <2> QED
      BY <2>1, <2>2, <2>3
  <1>2. mySession' \in [SessionId -> MySessionRec]
    BY <1>1 DEF Listed, ChildInv, ChildTypeOK
  <1>3. myConn' \in ConnState /\ expected' \in SUBSET SubStreams
    BY DEF Listed, ChildInv, ChildTypeOK, ConnState
  <1> QED
    BY <1>2, <1>3 DEF Listed, ChildInv, ChildTypeOK, OnlySent

LEMMA MyConnectedInv ==
    ASSUME ChildInv, NEW i \in SessionId, NEW d \in Dir, NEW l \in Links,
           MyConnected(i, d, l), UNCHANGED lastCon
    PROVE  ChildInv'
  <1>1. [up |-> TRUE, sock |-> l] \in Way
    BY LinkBoundsAssumption DEF Way, Links
  <1>2. \A j \in SessionId :
          [mySession[j] EXCEPT !.way[d] = [up |-> TRUE, sock |-> l],
                               !.heard = @ \/ d = "out" \/ j = i,
                               !.builds = @ /\ d # "out"] \in MySessionRec
    BY <1>1 DEF ChildInv, ChildTypeOK, MySessionRec
  <1>3. mySession' \in [SessionId -> MySessionRec]
    BY <1>2 DEF MyConnected, ChildInv, ChildTypeOK
  <1>4. myConn' \in ConnState /\ myNonblocking' \in SUBSET Links
    BY DEF MyConnected, ChildInv, ChildTypeOK, ConnState
  <1> QED
    BY <1>3, <1>4 DEF MyConnected, ChildInv, ChildTypeOK, OnlySent

LEMMA SelectInv ==
    ASSUME ChildInv, NEW i \in SessionId, Select(i), UNCHANGED lastCon
    PROVE  ChildInv'
  <1>1. mySession' \in [SessionId -> MySessionRec]
    BY PhaseType DEF Select, Selecting, Phase
  <1>2. mySock' \in 0..MaxLinks /\ myConn' \in ConnState
    BY SocksType DEF Select, ConnState
  <1>3. myQueued' \in SUBSET Links /\ OnlySent'
    <2>1. CASE Chosen(i) \in myNonblocking
      BY <2>1, AnnounceSent DEF Select, ChildInv, ChildTypeOK
    <2>2. CASE Chosen(i) \notin myNonblocking
      BY <2>2 DEF Select, ChildInv, ChildTypeOK, OnlySent
    <2> QED
      BY <2>1, <2>2
  <1> QED
    BY <1>1, <1>2, <1>3 DEF Select, ChildInv, ChildTypeOK

LEMMA MyStopInv ==
    ASSUME ChildInv, NEW i \in SessionId, MyStop(i), UNCHANGED lastCon
    PROVE  ChildInv'
  <1>1. mySession' \in [SessionId -> MySessionRec]
    <2>1. [NoMySession EXCEPT !.phase = "stopped"] \in MySessionRec
      BY NoMySessionType DEF MySessionRec, Phase
    <2> QED
      BY <2>1 DEF MyStop, ChildInv, ChildTypeOK
  <1>2. shut' \in SUBSET Links /\ myNonblocking' \in SUBSET Links
    BY SocksType DEF MyStop, ChildInv, ChildTypeOK
  <1>3. CASE MyClose
    BY <1>1, <1>2, <1>3, MyCloseSent DEF MyStop, ChildInv, ChildTypeOK
  <1>4. CASE UNCHANGED <<recVars, myQueued, queue>>
    BY <1>1, <1>2, <1>4 DEF MyStop, ChildInv, ChildTypeOK, OnlySent, recVars
  <1> QED
    BY <1>3, <1>4 DEF MyStop

LEMMA DropInv ==
    ASSUME ChildInv, NEW s \in SubStreams, Drop(s) \/ DropMoved(s), UNCHANGED lastCon
    PROVE  ChildInv'
  <1>1. shut \cup ({mySock} \ {0}) \in SUBSET Links
    BY LinkBoundsAssumption DEF ChildInv, ChildTypeOK, Links
  <1>2. CASE Drop(s) /\ expected = {s}
    BY <1>1, <1>2, MyCloseSent DEF Drop, ChildInv, ChildTypeOK
  <1>3. CASE Drop(s) /\ expected # {s}
    BY <1>3, TellSent DEF Drop, ChildInv, ChildTypeOK
  <1>4. CASE DropMoved(s)
    BY <1>4, TellSent DEF DropMoved, ChildInv, ChildTypeOK
  <1> QED
    BY <1>2, <1>3, <1>4

LEMMA SendInv ==
    ASSUME ChildInv, Send, UNCHANGED lastCon
    PROVE  ChildInv'
  <1>1. Head(queue) \in Sent /\ queue' \in Seq(Sent)
    BY Heard DEF Send, ChildInv, OnlySent
  <1>2. wire' \in [Links -> Seq(Sent)]
    BY <1>1, Said DEF Send, ChildInv, ChildTypeOK, OnlySent
  <1> QED
    BY <1>1, <1>2 DEF Send, ChildInv, ChildTypeOK, OnlySent, recVars

\* What the child does keeps its types, and does not touch the parent.
LEMMA ChildStepInv ==
    ASSUME ChildInv, ChildStep, UNCHANGED lastCon
    PROVE  ChildInv' /\ UNCHANGED linkVars
  <1>1. ASSUME NEW i \in SessionId, NEW ss \in SUBSET SubStreams, Listed(i, ss)
        PROVE  ChildInv' /\ UNCHANGED linkVars
    BY <1>1, ListedInv DEF Listed
  <1>2. ASSUME NEW i \in SessionId, MyTimeout(i) \/ Pass(i)
        PROVE  ChildInv' /\ UNCHANGED linkVars
    <2>1. mySession' \in [SessionId -> MySessionRec]
      BY <1>2, PhaseType DEF MyTimeout, Pass, Selecting, Phase
    <2>2. expected' \in SUBSET SubStreams
      BY <1>2 DEF MyTimeout, Pass, ChildInv, ChildTypeOK, recVars
    <2> QED
      BY <1>2, <2>1, <2>2 DEF MyTimeout, Pass, ChildInv, ChildTypeOK, OnlySent, recVars
  <1>3. ASSUME NEW i \in SessionId, Select(i) PROVE ChildInv' /\ UNCHANGED linkVars
    BY <1>3, SelectInv DEF Select
  <1>4. ASSUME NEW i \in SessionId, MyStop(i) PROVE ChildInv' /\ UNCHANGED linkVars
    BY <1>4, MyStopInv DEF MyStop
  <1>5. ASSUME NEW s \in SubStreams, Drop(s) \/ DropMoved(s) PROVE ChildInv' /\ UNCHANGED linkVars
    BY <1>5, DropInv DEF Drop, DropMoved
  <1>6. CASE Send
    BY <1>6, SendInv DEF Send
  <1>7. ASSUME NEW l \in Links, CloseReplaced(l) PROVE ChildInv' /\ UNCHANGED linkVars
    BY <1>7 DEF CloseReplaced, ChildInv, ChildTypeOK, OnlySent, recVars
  <1>8. CASE MyFail
    <2>1. shut' \in SUBSET Links
      BY <1>8 DEF MyFail, ChildInv, ChildTypeOK
    <2> QED
      BY <1>8, <2>1, MyCloseSent DEF MyFail, ChildInv, ChildTypeOK
  <1> QED
    BY <1>1, <1>2, <1>3, <1>4, <1>5, <1>6, <1>7, <1>8 DEF ChildStep, MySessionTimer

----------------------------------------------------------------------------
(* The steps of the parent *)

\* What the parent does without the child is a step of ChildLink.
LEMMA ParentStepInv ==
    ASSUME ChildInv, ParentStep
    PROVE  ChildInv' /\ LinkNext
  <1>1. Alone /\ LinkNext
    <2>1. ASSUME NEW l \in Links, Break(l) PROVE LinkNext
      BY <2>1 DEF LinkNext, LinkStep, Environment
    <2>2. ASSUME NEW l \in Links, CloseOrphan(l) PROVE LinkNext
      BY <2>2 DEF LinkNext, LinkStep
    <2> QED
      BY <2>1, <2>2, MeAssumption
      DEF ParentStep, ParentTimer, ParentChecks, ParentCloses, LinkNext
  <1>2. wire' \in [Links -> Seq(Sent)]
    BY <1>1, UnreadSent DEF Alone, ChildInv, OnlySent
  <1> QED
    BY <1>1, <1>2 DEF Alone, ChildInv, ChildTypeOK, OnlySent, recVars

\* The message the parent reads is one ChildLink lets a child send.
LEMMA DeliverInv ==
    ASSUME ChildInv, NEW l \in Links, Deliver(l)
    PROVE  ChildInv' /\ [LinkNext]_linkVars
  <1> DEFINE m == Head(wire[l])
  <1>1. m \in Sent /\ Tail(wire[l]) \in Seq(Sent)
    BY Heard DEF Deliver, ChildInv, OnlySent
  <1>2. wire' \in [Links -> Seq(Sent)]
    <2>1. [wire EXCEPT ![l] = Tail(@)] \in [Links -> Seq(Sent)]
      BY <1>1 DEF ChildInv, OnlySent
    <2> QED
      BY <2>1, UnreadSent DEF Deliver
  <1>3. lastCon' \in 0..MaxLinks
    BY LinkBoundsAssumption DEF Deliver, Links
  <1>4. ChildInv'
    BY <1>2, <1>3 DEF Deliver, ChildInv, ChildTypeOK, OnlySent, recVars
  <1>5. [LinkNext]_linkVars
    <2>1. CASE PeerCon(l) \/ RefuseShared(l)
      BY <2>1 DEF LinkNext, LinkStep
    <2>2. CASE UNCHANGED linkVars
      BY <2>2
    <2>3. CASE m.op # "con" /\ SetManifest(l, m.op = "add", m.subs)
      <3>1. CASE m.op = "add" /\ m.subs \in SUBSET SubStreams
        BY <2>3, <3>1 DEF LinkNext, LinkStep, Message
      <3>2. CASE m.op = "minus" /\ \E s \in SubStreams : m.subs = {s}
        <4>1. PICK s \in SubStreams : m.subs = {s}
          BY <3>2
        <4>2. SetManifest(l, FALSE, {s})
          BY <2>3, <3>2, <4>1
        <4> QED
          BY <4>2 DEF LinkNext, LinkStep, Message
      <3> QED
        BY <1>1, <2>3, <3>1, <3>2, SentType
    <2> QED
      BY <2>1, <2>2, <2>3 DEF Deliver
  <1> QED
    BY <1>4, <1>5

----------------------------------------------------------------------------
(* The theorems *)

\* Every step of the two is a step of ChildLink, or leaves the parent alone.
LEMMA ManifestStep ==
    ManifestIInv /\ [ManifestNext]_manifestVars => ManifestIInv' /\ [LinkNext]_linkVars
  <1> SUFFICES ASSUME ManifestIInv, [ManifestNext]_manifestVars
               PROVE  ManifestIInv' /\ [LinkNext]_linkVars
    OBVIOUS
  <1>1. ChildInv
    BY DEF ManifestIInv, ChildInv
  <1>2. ChildInv' /\ [LinkNext]_linkVars
    <2>1. CASE ParentStep
      BY <1>1, <2>1, ParentStepInv
    <2>2. CASE ChildStep /\ UNCHANGED lastCon
      BY <1>1, <2>2, ChildStepInv
    <2>3. ASSUME NEW i \in SessionId, NEW d \in Dir, NEW l \in Links,
                 Linked(i, d, l), UNCHANGED lastCon
          PROVE  ChildInv' /\ [LinkNext]_linkVars
      <3>1. Opposite(d) \in Dir
        BY DEF Opposite, Dir
      <3>2. ChildInv'
        BY <1>1, <2>3, <3>1, MyConnectedInv DEF Linked
      <3>3. LinkNext
        BY <2>3 DEF Linked, LinkNext
      <3> QED
        BY <3>2, <3>3
    <2>4. ASSUME NEW l \in Links, Deliver(l) PROVE ChildInv' /\ [LinkNext]_linkVars
      BY <1>1, <2>4, DeliverInv
    <2>5. CASE UNCHANGED manifestVars
      BY <1>1, <2>5 DEF manifestVars, childVars, recVars, linkVars, ChildInv, ChildTypeOK, OnlySent
    <2> QED
      BY <2>1, <2>2, <2>3, <2>4, <2>5 DEF ManifestNext
  <1>3. LinkIInv'
    BY <1>2, StepIInv DEF ManifestIInv
  <1> QED
    BY <1>2, <1>3 DEF ManifestIInv, ChildInv

\* The types, what is said, and the invariant of ChildLink hold in every state.
THEOREM ManifestInvariant == ManifestSpec => []ManifestIInv
  BY ManifestInitInv, ManifestStep, PTL DEF ManifestSpec

\* The variables of both ends keep their types.
THEOREM ManifestTypeCorrect == ManifestSpec => []ManifestTypeOK
  BY ManifestInvariant, ManifestIInvType, PTL

\* With a child that is modelled, over whatever connections the two have, the
\* parent does what ChildLink says: its messages from nowhere stand for all
\* that a child can say.
THEOREM ManifestImplementsLink == ManifestSpec => LinkSpec
  <1>1. ManifestInit => LinkInit
    BY DEF ManifestInit
  <1> QED
    BY <1>1, ManifestInvariant, ManifestStep, PTL DEF ManifestSpec, LinkSpec

\* So its assertions on queues hold of the two (time_handle, GetQueueInfo).
THEOREM ManifestQueuesFound == ManifestSpec => [](QueueFound /\ RecordOwned)
  BY ManifestImplementsLink, QueuesFound, RecordsOwned, PTL
----------------------------------------------------------------------------
(* Words about a sub-stream *)

\* Joining two sequences, the first of which gets or loses a message.
LEMMA JoinFacts ==
    ASSUME NEW S, NEW q \in Seq(S), NEW r \in Seq(S), NEW x \in S
    PROVE  /\ q \o r \in Seq(S)
           /\ q \o Append(r, x) = Append(q \o r, x)
           /\ q # <<>> => /\ q \o r # <<>>
                          /\ Head(q \o r) = Head(q)
                          /\ Tail(q \o r) = Tail(q) \o r
           /\ r # <<>> => Append(q, Head(r)) \o Tail(r) = q \o r
  <1>1. q \o r \in Seq(S) /\ q \o Append(r, x) = Append(q \o r, x)
    OBVIOUS
  <1>2. ASSUME q # <<>>
        PROVE  /\ q \o r # <<>>
               /\ Head(q \o r) = Head(q)
               /\ Tail(q \o r) = Tail(q) \o r
    BY <1>2
  <1>3. ASSUME r # <<>>
        PROVE  Append(q, Head(r)) \o Tail(r) = q \o r
    BY <1>3
  <1> QED
    BY <1>1, <1>2, <1>3

\* One message more at the end.
LEMMA AppendedWord ==
    ASSUME NEW S, NEW q \in Seq(S), NEW x \in S, NEW s, NEW op
    PROVE  /\ LastSays(Append(q, x), s, op) <=>
                 \/ x.op = op /\ s \in x.subs
                 \/ s \notin x.subs /\ LastSays(q, s, op)
           /\ Silent(Append(q, x), s) <=> s \notin x.subs /\ Silent(q, s)
  <1> DEFINE r == Append(q, x)
             n == Len(q)
  <1>1. /\ n \in Nat /\ Len(r) = n + 1 /\ r[n + 1] = x
        /\ \A k \in 1..n : r[k] = q[k]
    OBVIOUS
  <1> HIDE DEF r, n
  <1>2. Silent(r, s) <=> s \notin x.subs /\ Silent(q, s)
    BY <1>1 DEF Silent, n
  <1>3. ASSUME LastSays(r, s, op)
        PROVE  \/ x.op = op /\ s \in x.subs
               \/ s \notin x.subs /\ LastSays(q, s, op)
    BY <1>1, <1>3 DEF LastSays, n
  <1>4. ASSUME x.op = op, s \in x.subs
        PROVE  LastSays(r, s, op)
    BY <1>1, <1>4 DEF LastSays
  <1>5. ASSUME s \notin x.subs, LastSays(q, s, op)
        PROVE  LastSays(r, s, op)
    BY <1>1, <1>5 DEF LastSays, n
  <1> QED
    BY <1>2, <1>3, <1>4, <1>5 DEF r

\* One message less at the beginning.
LEMMA ReadWord ==
    ASSUME NEW S, NEW q \in Seq(S), q # <<>>, NEW s, NEW op
    PROVE  /\ LastSays(q, s, op) <=>
                 \/ LastSays(Tail(q), s, op)
                 \/ Silent(Tail(q), s) /\ Head(q).op = op /\ s \in Head(q).subs
           /\ Silent(q, s) <=> s \notin Head(q).subs /\ Silent(Tail(q), s)
           /\ Mentions(q, s, op) <=>
                 Mentions(Tail(q), s, op) \/ (Head(q).op = op /\ s \in Head(q).subs)
  <1> DEFINE t == Tail(q)
             n == Len(t)
             x == Head(q)
  <1>1. /\ n \in Nat /\ Len(q) = n + 1 /\ q[1] = x
        /\ \A k \in 1..n : t[k] = q[k + 1]
    OBVIOUS
  <1>2. \A k \in 1..n + 1 : k = 1 \/ (k - 1 \in 1..n /\ q[k] = t[k - 1])
    BY <1>1
  <1>0. n = Len(t)
    OBVIOUS
  <1> HIDE DEF t, n, x
  <1>3. Silent(q, s) <=> s \notin x.subs /\ Silent(t, s)
    BY <1>0, <1>1, <1>2 DEF Silent
  <1>4. Mentions(q, s, op) <=> Mentions(t, s, op) \/ (x.op = op /\ s \in x.subs)
    BY <1>0, <1>1, <1>2 DEF Mentions
  <1>5. ASSUME LastSays(q, s, op)
        PROVE  LastSays(t, s, op) \/ (Silent(t, s) /\ x.op = op /\ s \in x.subs)
    <2>1. PICK k \in 1..n + 1 : q[k].op = op /\ s \in q[k].subs /\ \A j \in k + 1..n + 1 : s \notin q[j].subs
      BY <1>0, <1>1, <1>5 DEF LastSays
    <2>2. \A j \in 1..n : j >= k => s \notin t[j].subs
      BY <1>1, <2>1
    <2>3. CASE k = 1
      BY <1>0, <1>1, <2>1, <2>2, <2>3 DEF Silent
    <2>4. CASE k # 1
      BY <1>0, <1>2, <2>1, <2>2, <2>4 DEF LastSays
    <2> QED
      BY <2>3, <2>4
  <1>6. ASSUME LastSays(t, s, op)
        PROVE  LastSays(q, s, op)
    <2>1. PICK k \in 1..n : t[k].op = op /\ s \in t[k].subs /\ \A j \in k + 1..n : s \notin t[j].subs
      BY <1>0, <1>6 DEF LastSays
    <2>2. ASSUME NEW j \in (k + 1) + 1..n + 1
          PROVE  s \notin q[j].subs
      <3>1. j - 1 \in k + 1..n /\ q[j] = t[j - 1]
        BY <1>1, <1>2
      <3> QED
        BY <2>1, <3>1
    <2>3. k + 1 \in 1..Len(q) /\ q[k + 1] = t[k] /\ Len(q) = n + 1
      BY <1>1
    <2> QED
      BY <2>1, <2>2, <2>3 DEF LastSays
  <1>7. ASSUME Silent(t, s), x.op = op, s \in x.subs
        PROVE  LastSays(q, s, op)
    <2>1. \A j \in 1 + 1..n + 1 : s \notin q[j].subs
      BY <1>0, <1>1, <1>2, <1>7 DEF Silent
    <2> QED
      BY <1>1, <1>7, <2>1 DEF LastSays
  <1> QED
    BY <1>3, <1>4, <1>5, <1>6, <1>7 DEF t, x

----------------------------------------------------------------------------
(* What more is invariant *)

\* The socket of a selected child is handled by peer, or was; others have none.
SelectedSock ==
    \A c \in Children :
        IF conn[c] = "selected" THEN link[sock[c]] \notin {"none", "open"} ELSE sock[c] = 0

LEMMA ClosedSock ==
    ASSUME LinkIInv, SelectedSock, NEW cs \in SUBSET Children, CloseChildren(cs)
    PROVE  SelectedSock'
  <1> SUFFICES ASSUME NEW c \in Children
               PROVE  IF conn'[c] = "selected" THEN link'[sock'[c]] \notin {"none", "open"}
                                               ELSE sock'[c] = 0
    BY DEF SelectedSock
  <1>1. CASE c \in cs
    BY <1>1 DEF CloseChildren
  <1>2. CASE c \notin cs
    <2>1. conn'[c] = conn[c] /\ sock'[c] = sock[c]
      BY <1>2 DEF CloseChildren
    <2>2. \A l \in Links : link'[l] \in {link[l], "closed"}
      BY DEF CloseChildren
    <2>3. conn[c] = "selected" => sock[c] \in Links
      BY DEF LinkIInv, LinkTypeOK, QueueFound
    <2> QED
      BY <2>1, <2>2, <2>3 DEF SelectedSock
  <1> QED
    BY <1>1, <1>2

\* The steps of the parent that close children, or leave their sockets alone.
LEMMA SelectedSockStep == LinkIInv /\ SelectedSock /\ [LinkNext]_linkVars => SelectedSock'
  <1> SUFFICES ASSUME LinkIInv, SelectedSock, [LinkNext]_linkVars PROVE SelectedSock'
    OBVIOUS
  <1> USE DEF SelectedSock
  <1>0. \A c \in Children : conn[c] = "selected" => sock[c] \in Links /\ link[sock[c]] # "none"
    BY DEF LinkIInv, LinkTypeOK, QueueFound, QueuedUsed
  <1>1. ASSUME NEW i \in SessionId, NEW c \in Children, Invite(i, c) PROVE SelectedSock'
    BY <1>1 DEF Invite, LinkIInv, LinkTypeOK
  <1>2. ASSUME NEW i \in SessionId, NEW d \in Dir, NEW l \in Links, Connected(i, d, l)
        PROVE  SelectedSock'
    BY <1>0, <1>2 DEF Connected, NextLink, LinkIInv, LinkTypeOK
  <1>3. ASSUME NEW i \in SessionId, SessionTimer(i) PROVE SelectedSock'
    <2>1. CASE StopSession(i)
      <3>1. \A l \in Links : link'[l] \in {link[l], "closed"}
        BY <2>1 DEF StopSession
      <3>2. \A c \in Children : /\ sock'[c] = sock[c]
                                /\ conn'[c] = "selected" <=> conn[c] = "selected"
        BY <2>1 DEF StopSession, ClosesRecord, Unselected, LinkIInv, LinkTypeOK
      <3> QED
        BY <1>0, <3>1, <3>2
    <2>2. CASE ConnectTimeout(i) \/ SelectDone(i)
      BY <2>2 DEF ConnectTimeout, SelectDone, recordVars
    <2> QED
      BY <1>3, <2>1, <2>2 DEF SessionTimer
  <1>4. ASSUME NEW l \in Links, PeerCon(l) PROVE SelectedSock'
    BY <1>0, <1>4 DEF PeerCon, LinkIInv, LinkTypeOK
  <1>5. ASSUME NEW l \in Links, RefuseShared(l) \/ Environment(l) \/ CloseOrphan(l)
        PROVE  SelectedSock'
    <2>1. UNCHANGED <<conn, sock>> /\ \A k \in Links : link'[k] \in {link[k], "broken", "closed"}
      BY <1>5 DEF RefuseShared, Environment, Break, Reap, SendPart, CloseOrphan, recordVars,
                  LinkIInv, LinkTypeOK
    <2> QED
      BY <1>0, <2>1
  <1>6. ASSUME NEW l \in Links, Message(l) PROVE SelectedSock'
    <2>1. PICK add \in BOOLEAN, m \in SUBSET SubStreams : SetManifest(l, add, m)
      BY <1>6 DEF Message
    <2>2. owner[l] \in Children
      BY <2>1 DEF SetManifest, LinkIInv, OwnerKnown
    <2>3. CASE CloseChildren({owner[l]})
      BY <2>2, <2>3, ClosedSock
    <2>4. CASE UNCHANGED <<conn, sock, link>>
      BY <2>4
    <2> QED
      BY <2>1, <2>3, <2>4 DEF SetManifest
  <1>7. ASSUME NEW c \in Children, Fail(c) PROVE SelectedSock'
    BY <1>7, ClosedSock DEF Fail
  <1>8. ASSUME NEW second \in BOOLEAN, CheckSockets(second) PROVE SelectedSock'
    <2> DEFINE cs == Walked({c \in Children : conn[c] # "none"}, {c \in Children : Broken(c)})
    <2>1. cs \in SUBSET Children
      BY DEF Walked
    <2> QED
      BY <1>8, <2>1, ClosedSock DEF CheckSockets
  <1>9. CASE UNCHANGED linkVars
    BY <1>9 DEF linkVars, recordVars
  <1> QED
    BY <1>1, <1>2, <1>3, <1>4, <1>5, <1>6, <1>7, <1>8, <1>9 DEF LinkNext, LinkStep

\* Queues are made for sockets of sessions, which are forgotten only with the
\* sockets.
QueuesTidy == myQueued \subseteq myNonblocking \cup shut

LEMMA QueuesTidyStep ==
    ASSUME ChildInv, QueuesTidy, [ManifestNext]_manifestVars
    PROVE  QueuesTidy'
  <1> USE DEF QueuesTidy
  <1>1. CASE ChildStep
    <2>1. ASSUME NEW i \in SessionId, NEW ss \in SUBSET SubStreams, Listed(i, ss) PROVE QueuesTidy'
      BY <2>1 DEF Listed
    <2>2. ASSUME NEW i \in SessionId, MyTimeout(i) \/ Pass(i) PROVE QueuesTidy'
      BY <2>2 DEF MyTimeout, Pass
    <2>3. ASSUME NEW i \in SessionId, Select(i) PROVE QueuesTidy'
      BY <2>3 DEF Select, Announce
    <2>4. ASSUME NEW i \in SessionId, MyStop(i) PROVE QueuesTidy'
      BY <2>4 DEF MyStop, MyClose
    <2>5. ASSUME NEW s \in SubStreams, Drop(s) \/ DropMoved(s) PROVE QueuesTidy'
      BY <2>5 DEF Drop, DropMoved, MyClose
    <2>6. CASE Send
      BY <2>6 DEF Send
    <2>7. ASSUME NEW l \in Links, CloseReplaced(l) PROVE QueuesTidy'
      BY <2>7 DEF CloseReplaced
    <2>8. CASE MyFail
      BY <2>8 DEF MyFail, MyClose
    <2> QED
      BY <1>1, <2>1, <2>2, <2>3, <2>4, <2>5, <2>6, <2>7, <2>8 DEF ChildStep, MySessionTimer
  <1>2. CASE ParentStep
    <2>1. Alone
      BY <1>2 DEF ParentStep, ParentTimer, ParentChecks, ParentCloses
    <2> QED
      BY <2>1 DEF Alone
  <1>3. ASSUME NEW i \in SessionId, NEW d \in Dir, NEW l \in Links, Linked(i, d, l) PROVE QueuesTidy'
    BY <1>3 DEF Linked, MyConnected
  <1>4. ASSUME NEW l \in Links, Deliver(l) PROVE QueuesTidy'
    BY <1>4 DEF Deliver
  <1>5. CASE UNCHANGED manifestVars
    BY <1>5 DEF manifestVars, childVars
  <1> QED
    BY <1>1, <1>2, <1>3, <1>4, <1>5 DEF ManifestNext
\* All that the proofs of the last two theorems use.
TalkIInv == ManifestIInv /\ SelectedSock /\ QueuesTidy

----------------------------------------------------------------------------
(* What is on its way decides, not when it is read *)

Kind == {"add", "minus"}

\* A child that is answered has a socket; the record of the parent has it once
\* peer handles it, and not before.
LEMMA TalkFacts ==
    ASSUME TalkIInv, Talking
    PROVE  /\ mySock \in Links /\ mySock \notin shut /\ conn[Me] # "none"
           /\ wire[mySock] \in Seq(Sent) /\ queue \in Seq(Sent) /\ Talk \in Seq(Sent)
           /\ link[mySock] = "peer" => /\ sock[Me] = mySock
                                       /\ conn[Me] = "selected" /\ owner[mySock] = Me
           /\ link[mySock] = "open" => sock[Me] # mySock
           /\ link[mySock] \in {"open", "peer"}
  <1>1. mySock \in Links /\ mySock \notin shut /\ link[mySock] \in {"open", "peer"}
    BY DEF Talking, Up
  <1>2. wire[mySock] \in Seq(Sent) /\ queue \in Seq(Sent)
    BY <1>1 DEF TalkIInv, ManifestIInv, OnlySent
  <1>3. Talk \in Seq(Sent)
    BY <1>2, ConcatProperties DEF Talk
  <1>4. mySock # 0
    BY <1>1, LinkBoundsAssumption DEF Links
  <1>5. ASSUME link[mySock] = "peer"
        PROVE  sock[Me] = mySock /\ conn[Me] = "selected" /\ owner[mySock] = Me
    <2>1. sock[Me] = mySock
      BY <1>5 DEF Talking, Answers
    <2>2. conn[Me] = "selected"
      BY <1>4, <2>1, MeAssumption DEF TalkIInv, SelectedSock
    <2> QED
      BY <2>1, <2>2, MeAssumption DEF TalkIInv, ManifestIInv, LinkIInv, QueueFound
  <1>6. ASSUME link[mySock] = "open"
        PROVE  sock[Me] # mySock /\ conn[Me] # "none"
    <2>1. conn[Me] # "none"
      BY <1>6 DEF Talking, Answers
    <2> QED
      BY <1>4, <1>6, <2>1, MeAssumption DEF TalkIInv, SelectedSock
  <1> QED
    BY <1>1, <1>2, <1>3, <1>5, <1>6

\* The record of the parent stays, or the parent does not answer any more.
LEMMA RecordStep ==
    ASSUME LinkIInv, ParentStep
    PROVE  \/ manifest'[Me] = manifest[Me] /\ sock'[Me] = sock[Me]
           \/ conn'[Me] = "none" /\ sock'[Me] = 0
  <1> USE MeAssumption
  <1>1. ASSUME NEW cs, CloseChildren(cs)
        PROVE  \/ manifest'[Me] = manifest[Me] /\ sock'[Me] = sock[Me]
               \/ conn'[Me] = "none" /\ sock'[Me] = 0
    BY <1>1 DEF CloseChildren
  <1>2. ASSUME NEW i \in SessionId, Invite(i, Me) \/ SessionTimer(i)
        PROVE  UNCHANGED <<manifest, sock>>
    BY <1>2 DEF Invite, SessionTimer, ConnectTimeout, SelectDone, StopSession, recordVars
  <1>3. ASSUME NEW l \in Links, Break(l) \/ CloseOrphan(l)
        PROVE  UNCHANGED <<manifest, sock>>
    BY <1>3 DEF Break, CloseOrphan, recordVars
  <1> QED
    BY <1>1, <1>2, <1>3
    DEF ParentStep, ParentTimer, ParentChecks, ParentCloses, Fail, CheckSockets

\* As long as the parent answers, what closes children leaves its record.
LEMMA AnsweredRecord ==
    ASSUME Talking', conn'[Me] = "none", sock'[Me] = 0
    PROVE  FALSE
  BY LinkBoundsAssumption DEF Talking, Up, Answers, Links

\* What is said last, or else what the parent has or may still read, is no more
\* than before.
LEMMA OutcomeKept ==
    ASSUME NEW s, NEW op, manifest'[Me] = manifest[Me],
           LastSays(Talk', s, op) => LastSays(Talk, s, op),
           Silent(Talk', s) => Silent(Talk, s),
           \A l \in Others' : l \in Others /\ (Mentions(wire'[l], s, op) => Mentions(wire[l], s, op)),
           Outcome(s, op)'
    PROVE  Outcome(s, op)
  BY DEF Outcome

\* Nothing more is read of a socket than was on it.
LEMMA UnreadMentions ==
    ASSUME NEW w, wire' = Unread(w), NEW l \in Links, NEW s, NEW op
    PROVE  /\ wire'[l] = w[l] \/ wire'[l] = <<>>
           /\ Mentions(wire'[l], s, op) => Mentions(w[l], s, op)
           /\ link'[l] \in {"open", "peer"} => wire'[l] = w[l]
  <1>1. /\ wire'[l] = w[l] \/ wire'[l] = <<>>
        /\ link'[l] \in {"open", "peer"} => wire'[l] = w[l]
    BY DEF Unread
  <1>2. ~Mentions(<<>>, s, op)
    BY DEF Mentions
  <1> QED
    BY <1>1, <1>2

\* The timers and checks of the parent, and what breaks, change nothing of it.
LEMMA ParentOutcome ==
    ASSUME TalkIInv, ParentStep, Talking', NEW s, NEW op, Outcome(s, op)'
    PROVE  Outcome(s, op)
  <1>1. Alone
    BY DEF ParentStep, ParentTimer, ParentChecks, ParentCloses
  <1>2. manifest'[Me] = manifest[Me] /\ sock'[Me] = sock[Me]
    BY RecordStep, AnsweredRecord DEF TalkIInv, ManifestIInv
  <1>3. Others' = Others
    BY <1>1, <1>2 DEF Alone, recVars, Others
  <1>4. mySock' = mySock /\ mySock \in Links /\ link'[mySock] \in {"open", "peer"} /\ queue' = queue
    BY <1>1 DEF Alone, recVars, Talking, Up
  <1>5. Talk' = Talk
    BY <1>1, <1>4, UnreadMentions DEF Alone, Talk
  <1>6. \A l \in Others' : Mentions(wire'[l], s, op) => Mentions(wire[l], s, op)
    BY <1>1, UnreadMentions DEF Alone, Others
  <1> QED
    BY <1>2, <1>3, <1>5, <1>6, OutcomeKept
\* What a message on the way is about.
LEMMA HeadFacts ==
    ASSUME TalkIInv, NEW l \in Links, Deliver(l)
    PROVE  LET x == Head(wire[l]) IN
           /\ wire[l] \in Seq(Sent) /\ wire[l] # <<>>
           /\ x.op = "con" => x.subs = {}
           /\ x.op \in {"con"} \cup Kind
  <1>1. wire[l] \in Seq(Sent) /\ wire[l] # <<>>
    BY DEF Deliver, TalkIInv, ManifestIInv, OnlySent
  <1>2. Head(wire[l]) \in Sent
    BY <1>1, Heard
  <1>3. \A x \in Sent : (x.op = "con" => x.subs = {}) /\ x.op \in {"con"} \cup Kind
    BY DEF Sent, Con, Add, Minus, Kind
  <1> QED
    BY <1>1, <1>2, <1>3

\* The message is taken from the child's own words, or they stay.
LEMMA DeliverTalk ==
    ASSUME TalkIInv, NEW l \in Links, Deliver(l), Talking, Talking', NEW s, NEW op
    PROVE  /\ mySock' = mySock
           /\ l # mySock => Talk' = Talk
           /\ l = mySock => Talk # <<>> /\ Head(Talk) = Head(wire[l]) /\ Talk' = Tail(Talk)
           /\ \A k \in Links : Mentions(wire'[k], s, op) => Mentions(wire[k], s, op)
  <1> DEFINE w == [wire EXCEPT ![l] = Tail(@)]
  <1>1. wire' = Unread(w) /\ mySock' = mySock /\ queue' = queue
    BY DEF Deliver, recVars
  <1>2. mySock \in Links /\ link'[mySock] \in {"open", "peer"}
    BY <1>1, TalkFacts DEF Talking, Up
  <1>3. wire'[mySock] = w[mySock]
    BY <1>1, <1>2, UnreadMentions
  <1>4. \A k \in Links : w[k] = IF k = l THEN Tail(wire[l]) ELSE wire[k]
    BY DEF TalkIInv, ManifestIInv, OnlySent
  <1>5. l # mySock => Talk' = Talk
    BY <1>1, <1>2, <1>3, <1>4 DEF Talk
  <1>6. ASSUME l = mySock
        PROVE  Talk # <<>> /\ Head(Talk) = Head(wire[l]) /\ Talk' = Tail(Talk)
    <2>1. Talk' = Tail(wire[l]) \o queue
      BY <1>1, <1>2, <1>3, <1>4, <1>6 DEF Talk
    <2>2. wire[l] \in Seq(Sent) /\ wire[l] # <<>> /\ queue \in Seq(Sent) /\ Con \in Sent
      BY HeadFacts, TalkFacts, SentType
    <2> QED
      BY <1>6, <2>1, <2>2, JoinFacts DEF Talk
  <1>7. ASSUME NEW k \in Links, Mentions(wire'[k], s, op)
        PROVE  Mentions(wire[k], s, op)
    <2>1. Mentions(w[k], s, op)
      BY <1>1, <1>7, UnreadMentions
    <2>2. CASE k = l
      BY <1>4, <2>1, <2>2, HeadFacts, ReadWord
    <2>3. CASE k # l
      BY <1>4, <2>1, <2>3
    <2> QED
      BY <2>2, <2>3
  <1> QED
    BY <1>1, <1>5, <1>6, <1>7

\* What the child's own words say of a sub-stream, before one of them is read.
LEMMA TalkRead ==
    ASSUME TalkIInv, NEW l \in Links, Deliver(l), Talking, Talking', l = mySock, NEW s, NEW op
    PROVE  LET x == Head(wire[l]) IN
           /\ LastSays(Talk, s, op) <=>
                 LastSays(Talk', s, op) \/ (Silent(Talk', s) /\ x.op = op /\ s \in x.subs)
           /\ Silent(Talk, s) <=> s \notin x.subs /\ Silent(Talk', s)
  <1>1. Talk \in Seq(Sent) /\ Talk # <<>> /\ Head(Talk) = Head(wire[l]) /\ Talk' = Tail(Talk)
    BY TalkFacts, DeliverTalk
  <1>2. /\ LastSays(Talk, s, op) <=>
             \/ LastSays(Tail(Talk), s, op)
             \/ Silent(Tail(Talk), s) /\ Head(Talk).op = op /\ s \in Head(Talk).subs
        /\ Silent(Talk, s) <=> s \notin Head(Talk).subs /\ Silent(Tail(Talk), s)
    BY <1>1, ReadWord
  <1> QED
    BY <1>1, <1>2

\* PEER_CON changes which connection the parent has, and settles nothing else:
\* what it may read before the child's own words is no more than before.
LEMMA ConOutcome ==
    ASSUME TalkIInv, NEW l \in Links, Deliver(l), Head(wire[l]).op = "con", Talking, Talking',
           NEW s, NEW op, Outcome(s, op)'
    PROVE  Outcome(s, op)
  <1> USE MeAssumption
  <1>1. mySock \in Links /\ mySock' = mySock /\ mySock # 0
    BY TalkFacts, DeliverTalk, LinkBoundsAssumption DEF Links
  <1>2. manifest' = manifest /\ \A k \in Others' : k \in Others
    <2>1. CASE PeerCon(l) /\ lastCon' = l
      <3>1. /\ manifest' = manifest /\ link[l] = "open"
            /\ \A k \in Links \ {l} : link'[k] = link[k]
            /\ owner[l] \in Children
        BY <2>1 DEF PeerCon, TalkIInv, ManifestIInv, LinkIInv, LinkTypeOK, OwnerKnown
      <3>2. CASE l = mySock
        BY <1>1, <3>1, <3>2, TalkFacts DEF Others
      <3>3. CASE l # mySock /\ owner[l] = Me
        <4>1. sock'[Me] = l
          BY <2>1, <3>3, TalkFacts DEF PeerCon, TalkIInv, ManifestIInv, LinkIInv, LinkTypeOK
        <4>2. link[mySock] = "open"
          BY <1>1, <3>1, <3>3, <4>1 DEF Talking, Answers
        <4> QED
          BY <1>1, <3>1, <4>2, TalkFacts DEF Others
      <3>4. CASE l # mySock /\ owner[l] # Me
        <4>1. sock'[Me] = sock[Me]
          BY <2>1, <3>1, <3>4 DEF PeerCon, TalkIInv, ManifestIInv, LinkIInv, LinkTypeOK
        <4> QED
          BY <1>1, <2>1, <3>1, <3>4, <4>1 DEF Others
      <3> QED
        BY <3>2, <3>3, <3>4
    <2>2. CASE RefuseShared(l) /\ lastCon' = l
      <3>1. UNCHANGED <<manifest, sock>> /\ link'[l] = "closed"
        BY <2>2 DEF RefuseShared, recordVars, TalkIInv, ManifestIInv, LinkIInv, LinkTypeOK
      <3>2. l # mySock
        BY <1>1, <3>1 DEF Talking, Up
      <3> QED
        BY <1>1, <2>2, <3>1, <3>2 DEF Others
    <2>3. CASE UNCHANGED linkVars /\ lastCon' = 0
      BY <1>1, <2>3 DEF linkVars, recordVars, Others
    <2> QED
      BY <2>1, <2>2, <2>3 DEF Deliver
  <1>3. /\ LastSays(Talk', s, op) => LastSays(Talk, s, op)
        /\ Silent(Talk', s) => Silent(Talk, s)
    <2>1. CASE l = mySock
      BY <2>1, TalkRead, HeadFacts
    <2>2. CASE l # mySock
      BY <2>2, DeliverTalk
    <2> QED
      BY <2>1, <2>2
  <1>4. \A k \in Others' : Mentions(wire'[k], s, op) => Mentions(wire[k], s, op)
    BY DeliverTalk DEF Others
  <1> QED
    BY <1>2, <1>3, <1>4, OutcomeKept

\* A SET_MANIFEST message that is read was on its way before.
LEMMA SetOutcome ==
    ASSUME TalkIInv, NEW l \in Links, Deliver(l), Head(wire[l]).op # "con", Talking, Talking',
           NEW s \in SubStreams, NEW op \in Kind, Outcome(s, op)'
    PROVE  Outcome(s, op)
  <1> DEFINE x == Head(wire[l])
  <1> USE MeAssumption
  <1>1. mySock \in Links /\ mySock' = mySock /\ mySock # 0
    BY TalkFacts, DeliverTalk, LinkBoundsAssumption DEF Links
  <1>2. Readable(l) /\ SetManifest(l, x.op = "add", x.subs) /\ lastCon' = 0
    BY DEF Deliver
  <1>3. owner[l] \in Children /\ x.op \in Kind
    BY <1>2, HeadFacts DEF SetManifest, TalkIInv, ManifestIInv, LinkIInv, OwnerKnown
  <1>4. \A k \in Others' : Mentions(wire'[k], s, op) => Mentions(wire[k], s, op)
    BY DeliverTalk DEF Others
  <1>5. CASE CloseChildren({owner[l]}) /\ sock[owner[l]] = l
    <2>1. owner[l] # Me
      BY <1>5, AnsweredRecord DEF CloseChildren
    <2>2. manifest'[Me] = manifest[Me] /\ sock'[Me] = sock[Me] /\ link'[l] = "closed"
      BY <1>5, <2>1 DEF CloseChildren
    <2>3. l # mySock
      BY <1>1, <2>2 DEF Talking, Up
    <2>4. \A k \in Others' : k \in Others
      BY <1>1, <1>2, <2>2 DEF Others
    <2> QED
      BY <1>4, <2>2, <2>3, <2>4, DeliverTalk, OutcomeKept
  <1>6. ASSUME manifest' = [manifest EXCEPT ![owner[l]] = IF x.op = "add" THEN @ \cup x.subs
                                                                       ELSE @ \ x.subs],
               UNCHANGED <<conn, sock, link>>
        PROVE  Outcome(s, op)
    <2>1. \A k \in Others' : k \in Others
      BY <1>1, <1>2, <1>6 DEF Others
    <2>2. owner[l] # Me => manifest'[Me] = manifest[Me]
      BY <1>6 DEF TalkIInv, ManifestIInv, LinkIInv, LinkTypeOK
    <2>3. ASSUME owner[l] = Me
          PROVE  \/ s \in x.subs /\ x.op = op
                 \/ s \notin x.subs
                 \/ ~(op = "add" <=> s \in manifest'[Me])
      BY <1>3, <1>6, <2>3 DEF Kind, TalkIInv, ManifestIInv, LinkIInv, LinkTypeOK
    <2>4. ASSUME owner[l] = Me, s \notin x.subs
          PROVE  s \in manifest'[Me] <=> s \in manifest[Me]
      BY <1>6, <2>4 DEF TalkIInv, ManifestIInv, LinkIInv, LinkTypeOK
    <2>5. CASE l = mySock
      <3>1. owner[l] = Me /\ sock[Me] = mySock
        BY <1>2, <2>5, TalkFacts DEF SetManifest
      <3>2. Others' = {}
        BY <1>1, <1>2, <1>6, <3>1 DEF Others
      <3>3. /\ LastSays(Talk, s, op) <=> \/ LastSays(Talk', s, op)
                                         \/ Silent(Talk', s) /\ x.op = op /\ s \in x.subs
            /\ Silent(Talk, s) <=> s \notin x.subs /\ Silent(Talk', s)
        BY <2>5, TalkRead
      <3>4. CASE LastSays(Talk', s, op)
        BY <3>3, <3>4 DEF Outcome
      <3>5. CASE Silent(Talk', s) /\ (op = "add" <=> s \in manifest'[Me])
        BY <2>3, <2>4, <3>1, <3>3, <3>5 DEF Outcome
      <3> QED
        BY <3>2, <3>4, <3>5 DEF Outcome
    <2>6. CASE l # mySock
      <3>1. l \in Others
        BY <1>2, <2>6 DEF Readable, Others
      <3>2. Talk' = Talk
        BY <2>6, DeliverTalk
      <3>3. CASE owner[l] # Me
        BY <1>4, <2>1, <2>2, <3>2, <3>3, OutcomeKept
      <3>4. CASE owner[l] = Me
        <4>1. s \in x.subs /\ x.op = op => Mentions(wire[l], s, op)
          BY HeadFacts, ReadWord
        <4>2. CASE LastSays(Talk', s, op)
          BY <3>2, <4>2 DEF Outcome
        <4>3. CASE Silent(Talk', s) /\ (op = "add" <=> s \in manifest'[Me])
          BY <2>3, <2>4, <3>1, <3>2, <3>4, <4>1, <4>3 DEF Outcome
        <4>4. CASE Silent(Talk', s) /\ \E k \in Others' : Mentions(wire'[k], s, op)
          BY <1>4, <2>1, <3>2, <4>4 DEF Outcome
        <4> QED
          BY <4>2, <4>3, <4>4 DEF Outcome
      <3> QED
        BY <3>3, <3>4
    <2> QED
      BY <2>5, <2>6
  <1> QED
    BY <1>2, <1>5, <1>6 DEF SetManifest
----------------------------------------------------------------------------
(* What the child does *)

\* Nothing is said, or something moves from the queue to the wire.
LEMMA QuietOutcome ==
    ASSUME UNCHANGED <<linkVars, lastCon, mySock>>, Talk' = Talk,
           \A l \in Links \ {mySock} : wire'[l] = wire[l],
           NEW s, NEW op, Outcome(s, op)'
    PROVE  Outcome(s, op)
  <1>1. manifest' = manifest /\ Others' = Others
    BY DEF linkVars, recordVars, Others
  <1>2. \A l \in Others : wire'[l] = wire[l]
    BY DEF Others
  <1> QED
    BY <1>1, <1>2 DEF Outcome

\* A sub-stream that is not expected any more is the last the child speaks of.
LEMMA ToldOutcome ==
    ASSUME TalkIInv, Talking, NEW s0 \in SubStreams, Tell(Minus(s0)),
           UNCHANGED <<linkVars, lastCon, mySock, wire>>,
           NEW s, NEW op, Outcome(s, op)'
    PROVE  IF s = s0 THEN op = "minus" ELSE Outcome(s, op)
  <1>1. Talk \in Seq(Sent) /\ Talk' = Append(Talk, Minus(s0)) /\ Minus(s0) \in Sent
    <2>1. queue' = Append(queue, Minus(s0))
      BY DEF Tell, Talking
    <2>2. Minus(s0) \in Sent /\ wire[mySock] \in Seq(Sent) /\ queue \in Seq(Sent) /\ Talk \in Seq(Sent)
      BY SentType, TalkFacts
    <2>3. wire[mySock] \o Append(queue, Minus(s0)) = Append(wire[mySock] \o queue, Minus(s0))
      <3>1. \A q, r \in Seq(Sent), x \in Sent : q \o Append(r, x) = Append(q \o r, x)
        BY JoinFacts
      <3> QED
        BY <2>2, <3>1
    <2> QED
      BY <2>1, <2>2, <2>3 DEF Talk
  <1>2. Minus(s0).op = "minus" /\ Minus(s0).subs = {s0}
    BY DEF Minus
  <1>3. /\ LastSays(Talk', s, op) <=> \/ op = "minus" /\ s = s0
                                      \/ s # s0 /\ LastSays(Talk, s, op)
        /\ Silent(Talk', s) <=> s # s0 /\ Silent(Talk, s)
    <2>1. /\ LastSays(Append(Talk, Minus(s0)), s, op) <=>
                \/ Minus(s0).op = op /\ s \in Minus(s0).subs
                \/ s \notin Minus(s0).subs /\ LastSays(Talk, s, op)
          /\ Silent(Append(Talk, Minus(s0)), s) <=> s \notin Minus(s0).subs /\ Silent(Talk, s)
      BY <1>1, AppendedWord
    <2> QED
      BY <1>1, <1>2, <2>1
  <1>4. CASE s = s0
    BY <1>3, <1>4 DEF Outcome
  <1>5. CASE s # s0
    <2>1. manifest' = manifest /\ Others' = Others /\ wire' = wire
      BY DEF linkVars, recordVars, Others
    <2> QED
      BY <1>3, <1>5, <2>1 DEF Outcome
  <1> QED
    BY <1>4, <1>5

\* Every step of the child but the end of a session.
LEMMA ChildOutcome ==
    ASSUME TalkIInv, ChildStep, UNCHANGED lastCon, Talking, Talking', ~Ends,
           NEW s \in SubStreams, NEW op, Outcome(s, op)'
    PROVE  \/ /\ Outcome(s, op)
              /\ s \in expected => s \in expected'
              /\ s \in expected' => s \in expected \/ Lists
           \/ s \notin expected' /\ op = "minus"
  <1>1. mySock \in Links /\ wire \in [Links -> Seq(Sent)]
    BY TalkFacts DEF TalkIInv, ManifestIInv, OnlySent
  <1>2. ASSUME NEW i \in SessionId, NEW ss \in SUBSET SubStreams, Listed(i, ss)
        PROVE  Lists /\ Outcome(s, op) /\ expected \subseteq expected'
    <2>1. mySession[i].phase = "none" /\ mySession'[i].phase = "connecting"
      BY <1>2 DEF Listed, TalkIInv, ManifestIInv, ChildTypeOK, NoMySession
    <2>2. Talk' = Talk
      BY <1>2 DEF Listed, Talk
    <2> QED
      BY <1>2, <2>1, <2>2, QuietOutcome DEF Listed, Lists
  <1>3. ASSUME NEW i \in SessionId, MyTimeout(i)
        PROVE  Outcome(s, op) /\ expected' = expected
    <2>1. Talk' = Talk
      BY <1>3 DEF MyTimeout, Talk, recVars
    <2> QED
      BY <1>3, <2>1, QuietOutcome DEF MyTimeout, recVars
  <1>4. ASSUME NEW i \in SessionId, Selecting(i)
        PROVE  FALSE
    <2>1. mySession'[i].phase = "end"
      BY <1>4 DEF Selecting, TalkIInv, ManifestIInv, ChildTypeOK
    <2> QED
      BY <1>4, <2>1 DEF Selecting, Ends
  <1>5. ASSUME NEW i \in SessionId, MyStop(i)
        PROVE  Outcome(s, op) /\ expected' = expected
    <2>1. UNCHANGED <<recVars, queue>>
      BY <1>5 DEF MyStop, Talking
    <2>2. Talk' = Talk
      BY <1>5, <2>1 DEF MyStop, Talk, recVars
    <2> QED
      BY <1>5, <2>1, <2>2, QuietOutcome DEF MyStop, recVars
  <1>6. ASSUME NEW s0 \in SubStreams, Drop(s0) \/ DropMoved(s0)
        PROVE  IF s = s0 THEN s \notin expected' /\ op = "minus"
                         ELSE Outcome(s, op) /\ (s \in expected' <=> s \in expected)
    <2>1. /\ expected' = expected \ {s0} /\ Tell(Minus(s0))
          /\ UNCHANGED <<linkVars, lastCon, mySock, wire>>
      BY <1>6 DEF Drop, DropMoved, MyClose, Talking
    <2> QED
      BY <2>1, ToldOutcome
  <1>7. CASE Send
    <2>1. wire' = [wire EXCEPT ![mySock] = Append(@, Head(queue))] /\ queue' = Tail(queue)
          /\ queue # <<>> /\ UNCHANGED <<linkVars, recVars>>
      BY <1>7 DEF Send
    <2>2. Talk' = Append(wire[mySock], Head(queue)) \o Tail(queue)
      BY <1>1, <2>1 DEF Talk, recVars
    <2>3. wire[mySock] \in Seq(Sent) /\ queue \in Seq(Sent) /\ Con \in Sent
      BY TalkFacts, SentType
    <2>4. Append(wire[mySock], Head(queue)) \o Tail(queue) = wire[mySock] \o queue
      BY <2>1, <2>3, JoinFacts
    <2>5. Talk' = Talk
      BY <2>2, <2>4 DEF Talk
    <2> QED
      BY <1>1, <2>1, <2>5, QuietOutcome DEF recVars
  <1>8. ASSUME NEW l \in Links, CloseReplaced(l)
        PROVE  Outcome(s, op) /\ expected' = expected
    <2>1. Talk' = Talk
      BY <1>8 DEF CloseReplaced, Talk, recVars
    <2> QED
      BY <1>8, <2>1, QuietOutcome DEF CloseReplaced, recVars
  <1>9. ~MyFail
    BY DEF MyFail, MyClose, Talking
  <1> QED
    BY <1>2, <1>3, <1>4, <1>5, <1>6, <1>7, <1>8, <1>9
    DEF ChildStep, MySessionTimer, Select, Pass, Send, recVars

\* A session that picks the parent asks it for all that is expected.
LEMMA SelectMissing ==
    ASSUME TalkIInv, NEW i \in SessionId, Select(i), Talking', NEW s \in expected',
           Outcome(s, "minus")'
    PROVE  FALSE
  <1> DEFINE l == Chosen(i)
  <1>1. mySock' = l /\ expected' = expected /\ l \in Links /\ UNCHANGED <<shut, myNonblocking>>
    BY DEF Select, Talking, Up
  <1>2. CASE l \in myNonblocking
    <2>1. queue' = <<Add(expected)>> /\ wire' \in [Links -> Seq(Sent)]
      <3>1. ChildInv
        BY DEF TalkIInv, ManifestIInv, ChildInv
      <3>2. Announce(l)
        BY <1>2 DEF Select
      <3> QED
        BY <1>1, <3>1, <3>2, AnnounceSent DEF Announce, OnlySent
    <2>2. Add(expected) \in Sent /\ Add(expected).op = "add" /\ Add(expected).subs = expected
      BY SentType DEF TalkIInv, ManifestIInv, ChildTypeOK, Add
    <2>3. wire'[l] \in Seq(Sent) /\ Talk' = Append(wire'[l], Add(expected))
      <3>1. wire'[l] \in Seq(Sent)
        BY <1>1, <2>1
      <3>2. wire'[l] \o <<Add(expected)>> = Append(wire'[l], Add(expected))
        BY <2>2, <3>1
      <3> QED
        BY <1>1, <2>1, <3>1, <3>2 DEF Talk
    <2>4. /\ LastSays(Append(wire'[l], Add(expected)), s, "minus") <=>
                \/ Add(expected).op = "minus" /\ s \in Add(expected).subs
                \/ s \notin Add(expected).subs /\ LastSays(wire'[l], s, "minus")
          /\ Silent(Append(wire'[l], Add(expected)), s) <=>
                s \notin Add(expected).subs /\ Silent(wire'[l], s)
      BY <2>2, <2>3, AppendedWord
    <2> QED
      BY <1>1, <2>2, <2>3, <2>4 DEF Outcome
  <1>3. CASE l \notin myNonblocking
    BY <1>1, <1>3 DEF Select, Talking, Up, TalkIInv, QueuesTidy
  <1> QED
    BY <1>2, <1>3

\* A session that picks nobody leaves a parent in use alone.
LEMMA PassOutcome ==
    ASSUME NEW i \in SessionId, Pass(i), UNCHANGED lastCon, Talking', NEW s, NEW op,
           Outcome(s, op)'
    PROVE  Talking /\ expected' = expected /\ Outcome(s, op)
  <1>1. Talking /\ expected' = expected
    BY DEF Pass, Talking, Up, Answers, SessionsWith, Live, Socks, linkVars, recordVars
  <1>2. Talk' = Talk
    BY DEF Pass, Talk
  <1> QED
    BY <1>1, <1>2, QuietOutcome DEF Pass
----------------------------------------------------------------------------
(* The two ends agree but for what is said of *)

LEMMA TalkInvariant == ManifestSpec => []TalkIInv
  <1>1. ManifestInit => SelectedSock /\ QueuesTidy
    BY DEF ManifestInit, LinkInit, SelectedSock, QueuesTidy
  <1>2. ManifestIInv /\ SelectedSock /\ QueuesTidy /\ [ManifestNext]_manifestVars
          => SelectedSock' /\ QueuesTidy'
    BY ManifestStep, SelectedSockStep, QueuesTidyStep DEF ManifestIInv, ChildInv
  <1> QED
    BY <1>1, <1>2, ManifestInvariant, PTL DEF ManifestSpec, TalkIInv

\* The steps of the parent and of connections.
OtherStep ==
    \/ ParentStep
    \/ \E i \in SessionId, d \in Dir, l \in Links : Linked(i, d, l) /\ UNCHANGED lastCon
    \/ \E l \in Links : Deliver(l)
    \/ UNCHANGED manifestVars

\* They leave what the child expects, and its sessions do not end in them.
LEMMA OtherSteps ==
    ASSUME OtherStep, TalkIInv
    PROVE  expected' = expected /\ ~Ends
  <1>1. ASSUME UNCHANGED <<recVars, mySession>>
        PROVE  expected' = expected /\ ~Ends
    BY <1>1 DEF recVars, Ends
  <1>2. ASSUME NEW i \in SessionId, NEW d \in Dir, NEW l \in Links, Linked(i, d, l)
        PROVE  expected' = expected /\ ~Ends
    <2>1. \A j \in SessionId : mySession'[j].phase = mySession[j].phase
      BY <1>2 DEF Linked, MyConnected, TalkIInv, ManifestIInv, ChildTypeOK, MySessionRec
    <2> QED
      BY <1>2, <2>1 DEF Linked, MyConnected, Ends
  <1> QED
    BY <1>1, <1>2
    DEF OtherStep, ParentStep, ParentTimer, ParentChecks, ParentCloses, Alone, Deliver,
        manifestVars, childVars

\* A new connection carries nothing yet.
LEMMA LinkedOutcome ==
    ASSUME NEW i \in SessionId, NEW d \in Dir, NEW l \in Links, Linked(i, d, l),
           UNCHANGED lastCon, NEW s, NEW op, Outcome(s, op)'
    PROVE  Outcome(s, op)
  <1>1. UNCHANGED <<manifest, sock, mySock, wire, queue>>
    BY DEF Linked, Connected, MyConnected
  <1> QED
    BY <1>1 DEF Outcome, Talk, Others

LEMMA OtherOutcome ==
    ASSUME OtherStep, TalkIInv, Talking, Talking', NEW s \in SubStreams, NEW op \in Kind,
           Outcome(s, op)'
    PROVE  Outcome(s, op)
  <1>1. CASE UNCHANGED manifestVars
    <2>1. UNCHANGED <<linkVars, lastCon, mySock, queue, wire>>
      BY <1>1 DEF manifestVars, childVars, recVars
    <2>2. Talk' = Talk
      BY <2>1 DEF Talk
    <2> QED
      BY <2>1, <2>2, QuietOutcome
  <1> QED
    BY <1>1, ParentOutcome, LinkedOutcome, ConOutcome, SetOutcome DEF OtherStep

\* A session of the child ends by a choice.
LEMMA EndsByChoice ==
    ASSUME TalkIInv, ChildStep, Ends
    PROVE  \E i \in SessionId : Select(i) \/ Pass(i)
  <1>1. PICK j \in SessionId : mySession[j].phase = "selecting" /\ mySession'[j].phase = "end"
    BY DEF Ends
  <1>2. mySession \in [SessionId -> MySessionRec]
    BY DEF TalkIInv, ManifestIInv, ChildTypeOK
  <1>3. ASSUME NEW i \in SessionId, NEW ss \in SUBSET SubStreams, Listed(i, ss) PROVE FALSE
    BY <1>1, <1>2, <1>3 DEF Listed
  <1>4. ASSUME NEW i \in SessionId, MyTimeout(i) PROVE FALSE
    BY <1>1, <1>2, <1>4 DEF MyTimeout, MySessionRec
  <1>5. ASSUME NEW i \in SessionId, MyStop(i) PROVE FALSE
    BY <1>1, <1>2, <1>5 DEF MyStop, NoMySession
  <1>6. mySession' # mySession
    BY <1>1
  <1> QED
    BY <1>3, <1>4, <1>5, <1>6
    DEF ChildStep, MySessionTimer, Drop, DropMoved, Send, CloseReplaced, MyFail

\* A sub-stream that goes missing goes missing by a list.
LEMMA MissingStep ==
    ASSUME TalkIInv, [ManifestNext]_manifestVars, Talking \/ Ends, ~Lists, NEW s \in Missing'
    PROVE  s \in Missing
  <1>1. Talking' /\ s \in expected' /\ Outcome(s, "minus")' /\ "minus" \in Kind
    BY DEF Missing, Kind
  <1>2. SUFFICES Talking /\ s \in expected /\ Outcome(s, "minus")
    BY DEF Missing
  <1>3. expected \in SUBSET SubStreams
    BY DEF TalkIInv, ManifestIInv, ChildTypeOK
  <1>4. CASE OtherStep
    BY <1>1, <1>3, <1>4, OtherSteps, OtherOutcome
  <1>5. CASE ChildStep /\ UNCHANGED lastCon
    <2>1. CASE ~Ends
      <3>1. expected' \in SUBSET SubStreams
        BY <1>5, ChildStepInv DEF TalkIInv, ManifestIInv, ChildInv, ChildTypeOK
      <3> QED
        BY <1>1, <1>5, <2>1, <3>1, ChildOutcome
    <2>2. CASE Ends
      BY <1>1, <1>5, <2>2, EndsByChoice, SelectMissing, PassOutcome
    <2> QED
      BY <2>1, <2>2
  <1> QED
    BY <1>4, <1>5 DEF ManifestNext, OtherStep

\* A sub-stream too many is one by the end of a session.
LEMMA ExcessStep ==
    ASSUME TalkIInv, [ManifestNext]_manifestVars, Talking, ~Ends, NEW s \in Excess'
    PROVE  s \in Excess
  <1>1. /\ Talking' /\ s \in SubStreams /\ s \notin expected' /\ Outcome(s, "add")' /\ "add" \in Kind
    BY DEF Excess, Kind, SubStreams
  <1>2. SUFFICES s \notin expected /\ Outcome(s, "add")
    BY <1>1 DEF Excess
  <1>3. CASE OtherStep
    BY <1>1, <1>3, OtherSteps, OtherOutcome
  <1>4. CASE ChildStep /\ UNCHANGED lastCon
    BY <1>1, <1>4, ChildOutcome
  <1> QED
    BY <1>3, <1>4 DEF ManifestNext, OtherStep

\* Whatever the number of sub-streams, sessions and connections: nothing the
\* child expects is unknown to the parent, now or when all is read, but for what
\* a list has added (send_manifest_to_parent, SendPeerCon, handle_manifestSet).
THEOREM MissingByListing == ManifestSpec => MissingOnlyByListing
  <1>1. TalkIInv /\ [ManifestNext]_manifestVars =>
          [(Talking \/ Ends) /\ ~Lists => Missing' \subseteq Missing]_manifestVars
    BY MissingStep
  <1> QED
    BY <1>1, TalkInvariant, PTL DEF ManifestSpec, MissingOnlyByListing

\* Nothing is sent that the child does not expect, when all is read, but for
\* what was queued when a session picked the parent once more (InitPeerInfo).
THEOREM ExcessBySelection == ManifestSpec => ExcessOnlyBySelection
  <1>1. TalkIInv /\ [ManifestNext]_manifestVars =>
          [Talking /\ ~Ends => Excess' \subseteq Excess]_manifestVars
    BY ExcessStep
  <1> QED
    BY <1>1, TalkInvariant, PTL DEF ManifestSpec, ExcessOnlyBySelection
=============================================================================
