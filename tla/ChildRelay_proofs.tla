------------------------- MODULE ChildRelay_proofs -------------------------
(***************************************************************************)
(* Theorems about ChildRelay, for any number of children, sockets,         *)
(* sessions and chunks and any size of the ring.  The composition keeps    *)
(* what is proved of its two parts, and the queues of the children have    *)
(* the properties the queues of the players have.                          *)
(***************************************************************************)
EXTENDS ChildRelay, StreamBuffer_proofs, ChildLink_proofs, FiniteSetTheorems

\* A step of the composition is a step of the ring and its players, or none.
LEMMA BufferStep == [RelayNext]_relayVars => [Next]_vars
  BY DEF RelayNext, relayVars, StoreAndRelay, SendChunk, FreezeChild, ReleaseChild,
         UpdateChildrenInfo, LinkOnly, BufferOnly, PlayersStep, Next

\* It is a step of the children's connections, or none.
LEMMA ConnectionStep == [RelayNext]_relayVars => [LinkNext]_linkVars
  BY DEF RelayNext, relayVars, StoreAndRelay, SendChunk, FreezeChild, ReleaseChild,
         UpdateChildrenInfo, LinkOnly, BufferOnly

\* Everything StreamBuffer and ChildLink promise also holds when chunks are
\* relayed and children are frozen: the composition implements both.
THEOREM RelayImplements == RelaySpec => Spec /\ LinkSpec
  <1>1. RelayInit => Init /\ LinkInit
    BY DEF RelayInit
  <1> QED BY <1>1, BufferStep, ConnectionStep, PTL DEF RelaySpec, Spec, LinkSpec

----------------------------------------------------------------------------
(* Types *)

\* The empty queue and no child frozen.
LEMMA RelayTypeInit == RelayInit => RelayTypeOK
  BY MaxFreezesAssumption DEF RelayInit, RelayTypeOK

\* Every step keeps the types.
LEMMA RelayTypeStep == RelayTypeOK /\ [RelayNext]_relayVars => RelayTypeOK'
  <1> SUFFICES ASSUME RelayTypeOK, [RelayNext]_relayVars PROVE RelayTypeOK'
    OBVIOUS
  <1>1. ASSUME NEW n \in SeqNo, StoreAndRelay(n)
        PROVE  RelayTypeOK'
    <2>1. \A l \in Links : Append(data[l], n) \in Seq(SeqNo)
      BY DEF RelayTypeOK
    <2> QED BY <1>1, <2>1 DEF StoreAndRelay, RelayTypeOK, freezeVars
  <1>2. ASSUME NEW c \in Children, SendChunk(c)
        PROVE  RelayTypeOK'
    <2>1. data' \in [Links -> Seq(SeqNo)]
      <3>1. ASSUME sock[c] \in Links
            PROVE  Tail(data[sock[c]]) \in Seq(SeqNo)
        BY <1>2, <3>1 DEF RelayTypeOK, SendChunk
      <3> QED BY <1>2, <3>1 DEF RelayTypeOK, SendChunk
    <2> QED BY <1>2, <2>1 DEF SendChunk, RelayTypeOK, freezeVars
  <1>3. ASSUME NEW c \in Children, FreezeChild(c)
        PROVE  RelayTypeOK'
    <2>1. diagnoseSeq \in 0..MaxFreezes /\ diagnoseSeq + 1 \in 1..(MaxFreezes + 1)
      BY <1>3, MaxFreezesAssumption DEF FreezeChild, RelayTypeOK
    <2> QED BY <1>3, <2>1 DEF FreezeChild, RelayTypeOK
  <1>4. ASSUME NEW c \in Children, ReleaseChild(c)
        PROVE  RelayTypeOK'
    BY <1>4, MaxFreezesAssumption DEF ReleaseChild, RelayTypeOK
  <1>5. CASE UpdateChildrenInfo
    BY <1>5 DEF UpdateChildrenInfo, RelayTypeOK, Served
  <1>6. CASE LinkOnly
    BY <1>6, MaxFreezesAssumption DEF LinkOnly, RelayTypeOK
  <1>7. CASE BufferOnly
    BY <1>7 DEF BufferOnly, RelayTypeOK, freezeVars
  <1>8. CASE UNCHANGED relayVars
    BY <1>8 DEF relayVars, freezeVars, RelayTypeOK
  <1> QED BY <1>1, <1>2, <1>3, <1>4, <1>5, <1>6, <1>7, <1>8 DEF RelayNext

\* The queues hold sequence numbers, and frozen_seq is a value of the counter.
THEOREM RelayTypeCorrect == RelaySpec => []RelayTypeOK
  BY RelayTypeInit, RelayTypeStep, PTL DEF RelaySpec

----------------------------------------------------------------------------
(* The queues of the children *)

Once(l) ==
    /\ \A i, j \in 1..Len(data[l]) : i # j => data[l][i] # data[l][j]
    /\ \A i \in 1..Len(data[l]) : data[l][i] <= slot[data[l][i] % Size]

Whole(l) ==
    \A i \in 1..Len(data[l]) :
        least - data[l][i] < Size => slot[data[l][i] % Size] = data[l][i]

RelayIInv == RingInv /\ RelayTypeOK /\ \A l \in Links : Once(l) /\ Whole(l)

\* A chunk that enters the ring is newer than what it finds in its slot, so no
\* queue holds it; appended to a queue, it is the one in its slot.
LEMMA StoredInv ==
    ASSUME RingInv, RelayTypeOK, NEW l \in Links, Once(l), Whole(l),
           NEW n \in SeqNo, ~Stale(n), least' = Newest(n),
           slot' = [slot EXCEPT ![n % Size] = n],
           \/ data'[l] = data[l]
           \/ data'[l] = Append(data[l], n)
    PROVE  Once(l)' /\ Whole(l)'
  <1>1. /\ data[l] \in Seq(SeqNo) /\ Len(data[l]) \in Nat
        /\ \A i \in 1..Len(data[l]) : data[l][i] \in Nat /\ 1 <= data[l][i]
    BY MaxSeqAssumption DEF RelayTypeOK, SeqNo
  <1>2. n \in Nat /\ n % Size \in Slot /\ slot[n % Size] < n /\ slot'[n % Size] = n
        /\ slot \in [Slot -> 0..MaxSeq]
    BY SlotOf, MaxSeqAssumption DEF RingInv, SeqNo, Stale
  <1>3. ASSUME NEW i \in 1..Len(data[l])
        PROVE  /\ data[l][i] # n
               /\ data[l][i] <= slot'[data[l][i] % Size]
               /\ least' - data[l][i] < Size => slot'[data[l][i] % Size] = data[l][i]
    <2> DEFINE m == data[l][i]
    <2>1. m \in Nat /\ 1 <= m /\ m % Size \in Slot /\ m <= slot[m % Size]
          /\ slot[m % Size] \in Nat
      BY <1>1, <1>2, SlotOf, MaxSeqAssumption DEF Once
    <2>2. m # n
      BY <1>2, <2>1
    <2>3. m <= slot'[m % Size]
      <3>1. CASE m % Size = n % Size
        BY <1>2, <2>1, <3>1
      <3>2. CASE m % Size # n % Size
        BY <1>2, <2>1, <3>2
      <3> QED BY <3>1, <3>2
    <2>4. least - m < Size => slot[m % Size] = m
      BY DEF Whole
    <2>5. least' - m < Size => slot'[m % Size] = m
      <3> HIDE DEF m
      <3> QED BY <2>1, <2>4, NotOverwritten
    <2> QED BY <2>2, <2>3, <2>5
  <1>4. CASE data'[l] = data[l]
    BY <1>3, <1>4 DEF Once, Whole
  <1>5. CASE data'[l] = Append(data[l], n)
    <2>1. /\ Len(data'[l]) = Len(data[l]) + 1
          /\ data'[l][Len(data[l]) + 1] = n
          /\ \A i \in 1..Len(data[l]) : data'[l][i] = data[l][i]
      BY <1>1, <1>5
    <2>2. \A i \in 1..Len(data'[l]) : i \in 1..Len(data[l]) \/ i = Len(data[l]) + 1
      BY <1>1, <2>1
    <2>3. ASSUME NEW i \in 1..Len(data'[l]), NEW j \in 1..Len(data'[l]), i # j
          PROVE  data'[l][i] # data'[l][j]
      BY <1>3, <2>1, <2>2, <2>3 DEF Once
    <2>4. ASSUME NEW i \in 1..Len(data'[l])
          PROVE  /\ data'[l][i] <= slot'[data'[l][i] % Size]
                 /\ least' - data'[l][i] < Size => slot'[data'[l][i] % Size] = data'[l][i]
      <3>1. CASE i \in 1..Len(data[l])
        BY <1>3, <2>1, <3>1
      <3>2. CASE i = Len(data[l]) + 1
        BY <1>2, <2>1, <3>2
      <3> QED BY <2>2, <3>1, <3>2
    <2> QED BY <2>3, <2>4 DEF Once, Whole
  <1> QED BY <1>4, <1>5

\* A queue that lost its first chunk, or all.
LEMMA ShortenedInv ==
    ASSUME RelayTypeOK, NEW l \in Links, Once(l), Whole(l),
           slot' = slot, least' = least,
           \/ data'[l] = data[l]
           \/ data'[l] = <<>>
           \/ data[l] # <<>> /\ data'[l] = Tail(data[l])
    PROVE  Once(l)' /\ Whole(l)'
  <1>1. data[l] \in Seq(SeqNo)
    BY DEF RelayTypeOK
  <1>2. CASE data'[l] = data[l]
    BY <1>2 DEF Once, Whole
  <1>3. CASE data'[l] = <<>>
    BY <1>3 DEF Once, Whole
  <1>4. CASE data[l] # <<>> /\ data'[l] = Tail(data[l])
    <2>1. /\ Len(data[l]) \in Nat /\ Len(data'[l]) = Len(data[l]) - 1
          /\ \A i \in 1..Len(data'[l]) : data'[l][i] = data[l][i + 1]
      BY <1>1, <1>4, HeadTailProperties, EmptySeq
    <2>2. \A i \in 1..Len(data'[l]) : i + 1 \in 1..Len(data[l])
      BY <2>1
    <2>3. ASSUME NEW i \in 1..Len(data'[l]), NEW j \in 1..Len(data'[l]), i # j
          PROVE  data'[l][i] # data'[l][j]
      <3>1. i + 1 # j + 1
        BY <2>1, <2>3
      <3> QED BY <2>1, <2>2, <3>1 DEF Once
    <2> QED BY <2>1, <2>2, <2>3 DEF Once, Whole
  <1> QED BY <1>2, <1>3, <1>4

\* A newer number was heard of, and nothing else.
LEMMA HeardInv ==
    ASSUME RingInv, RelayTypeOK, NEW l \in Links, Once(l), Whole(l),
           NEW n \in SeqNo, Dropped(n), data'[l] = data[l]
    PROVE  Once(l)' /\ Whole(l)'
  <1>1. slot' = slot /\ least \in Nat /\ least' \in Nat /\ least <= least'
    BY MaxSeqAssumption DEF Dropped, Heard, RingInv, Newest, SeqNo
  <1>2. /\ data[l] \in Seq(SeqNo)
        /\ \A i \in 1..Len(data[l]) : data[l][i] \in Nat
    BY MaxSeqAssumption DEF RelayTypeOK, SeqNo
  <1>3. ASSUME NEW i \in 1..Len(data[l]), least' - data[l][i] < Size
        PROVE  slot'[data[l][i] % Size] = data[l][i]
    BY <1>1, <1>2, <1>3, SizeAssumption DEF Whole
  <1> QED BY <1>1, <1>3 DEF Once, Whole

\* Every step keeps the invariant.
LEMMA RelayStepIInv == RelayIInv /\ [RelayNext]_relayVars => RelayIInv'
  <1> SUFFICES ASSUME RelayIInv, [RelayNext]_relayVars PROVE RelayIInv'
    OBVIOUS
  <1>1. RingInv'
    BY BufferStep, RingStep DEF RelayIInv
  <1>2. RelayTypeOK'
    BY RelayTypeStep DEF RelayIInv
  <1>3. ASSUME NEW l \in Links
        PROVE  Once(l)' /\ Whole(l)'
    <2>1. RingInv /\ RelayTypeOK /\ Once(l) /\ Whole(l) /\ data \in [Links -> Seq(SeqNo)]
      BY DEF RelayIInv, RelayTypeOK
    <2>2. ASSUME NEW n \in SeqNo, StoreAndRelay(n)
          PROVE  Once(l)' /\ Whole(l)'
      <3>1. ~Stale(n) /\ least' = Newest(n) /\ slot' = [slot EXCEPT ![n % Size] = n]
        BY <2>2 DEF StoreAndRelay, Accept, Halt, Heard
      <3>2. data'[l] = data[l] \/ data'[l] = Append(data[l], n)
        BY <2>2 DEF StoreAndRelay
      <3> QED BY <2>1, <3>1, <3>2, StoredInv
    <2>3. ASSUME NEW c \in Children, SendChunk(c)
          PROVE  Once(l)' /\ Whole(l)'
      <3>1. data'[l] = data[l] \/ (data[l] # <<>> /\ data'[l] = Tail(data[l]))
        BY <2>1, <2>3 DEF SendChunk
      <3> QED BY <2>1, <2>3, <3>1, ShortenedInv DEF SendChunk, vars, ringVars
    <2>4. CASE LinkOnly
      BY <2>1, <2>4, ShortenedInv DEF LinkOnly, vars, ringVars
    <2>5. CASE BufferOnly
      <3>1. ASSUME NEW n \in SeqNo, Dropped(n)
            PROVE  Once(l)' /\ Whole(l)'
        BY <2>1, <2>5, <3>1, HeardInv DEF BufferOnly
      <3>2. CASE PlayersStep
        BY <2>1, <2>5, <3>2, ShortenedInv
           DEF BufferOnly, PlayersStep, Attach, Detach, Take, Sent, ringVars
      <3> QED BY <2>5, <3>1, <3>2 DEF BufferOnly
    <2>6. ASSUME UNCHANGED <<vars, data>>
          PROVE  Once(l)' /\ Whole(l)'
      BY <2>1, <2>6, ShortenedInv DEF vars, ringVars
    <2> QED BY <2>2, <2>3, <2>4, <2>5, <2>6
            DEF RelayNext, relayVars, FreezeChild, ReleaseChild, UpdateChildrenInfo
  <1> QED BY <1>1, <1>2, <1>3 DEF RelayIInv

\* The invariant of the queues.
THEOREM RelayInvariant == RelaySpec => []RelayIInv
  <1>1. RelayInit => RelayIInv
    BY RingInit, RelayTypeInit DEF RelayInit, RelayIInv, Once, Whole
  <1> QED BY <1>1, RelayStepIInv, PTL DEF RelaySpec

\* No chunk is queued twice for a child, however often parents send it.
THEOREM ChunksQueuedOnce == RelaySpec => []QueuedOnce
  <1>1. RelayIInv => QueuedOnce
    BY DEF RelayIInv, Once, QueuedOnce
  <1> QED BY <1>1, RelayInvariant, PTL

\* A queued chunk is intact as long as the newest is less than a ring away.
THEOREM RelayedIntact == RelaySpec => []RelayIntact
  <1>1. RelayIInv => RelayIntact
    BY DEF RelayIInv, Whole, RelayIntact
  <1> QED BY <1>1, RelayInvariant, PTL

----------------------------------------------------------------------------
(* Freezing *)

\* A child that is frozen is selected, and no other was frozen with its number.
FrozenInv ==
    \A c \in Children : frozenSeq[c] # 0 =>
        /\ conn[c] = "selected"
        /\ frozenSeq[c] < diagnoseSeq
        /\ \A d \in Children \ {c} : frozenSeq[d] # frozenSeq[c]

\* A selected child stays selected until it is forgotten.
LEMMA SelectedStays ==
    ASSUME LinkTypeOK, LinkNext, NEW c \in Children, conn[c] = "selected"
    PROVE  conn'[c] \in {"selected", "none"}
  <1>1. conn \in [Children -> ConnState]
    BY DEF LinkTypeOK
  <1>2. ASSUME NEW i \in SessionId, NEW d \in Children, Invite(i, d)
        PROVE  conn'[c] \in {"selected", "none"}
    BY <1>1, <1>2 DEF Invite
  <1>3. ASSUME NEW i \in SessionId, NEW d \in Dir, NEW l \in Links, Connected(i, d, l)
        PROVE  conn'[c] \in {"selected", "none"}
    BY <1>1, <1>3 DEF Connected
  <1>4. ASSUME NEW i \in SessionId, SessionTimer(i)
        PROVE  conn'[c] \in {"selected", "none"}
    BY <1>1, <1>4 DEF SessionTimer, ConnectTimeout, SelectDone, StopSession, recordVars
  <1>5. ASSUME NEW cs, CloseChildren(cs)
        PROVE  conn'[c] \in {"selected", "none"}
    BY <1>1, <1>5 DEF CloseChildren
  <1>6. ASSUME NEW l \in Links, LinkStep(l)
        PROVE  conn'[c] \in {"selected", "none"}
    <2>1. CASE PeerCon(l)
      BY <1>1, <2>1 DEF PeerCon
    <2>2. CASE Message(l)
      BY <1>5, <2>2 DEF Message, SetManifest
    <2>3. CASE RefuseShared(l) \/ Environment(l) \/ CloseOrphan(l)
      BY <2>3 DEF RefuseShared, Environment, Break, Reap, SendPart, CloseOrphan, recordVars
    <2> QED BY <1>6, <2>1, <2>2, <2>3 DEF LinkStep
  <1>7. ASSUME NEW d \in Children, Fail(d)
        PROVE  conn'[c] \in {"selected", "none"}
    BY <1>5, <1>7 DEF Fail
  <1>8. ASSUME NEW second \in BOOLEAN, CheckSockets(second)
        PROVE  conn'[c] \in {"selected", "none"}
    BY <1>5, <1>8 DEF CheckSockets
  <1> QED BY <1>2, <1>3, <1>4, <1>6, <1>7, <1>8 DEF LinkNext

\* Every step keeps FrozenInv.
LEMMA FrozenStep ==
    RelayTypeOK /\ LinkTypeOK /\ FrozenInv /\ [RelayNext]_relayVars => FrozenInv'
  <1> SUFFICES ASSUME RelayTypeOK, LinkTypeOK, FrozenInv, [RelayNext]_relayVars
               PROVE  FrozenInv'
    OBVIOUS
  <1>1. /\ frozenSeq \in [Children -> 0..MaxFreezes]
        /\ \A c \in Children : frozenSeq[c] \in Nat
        /\ diagnoseSeq \in Nat /\ 1 <= diagnoseSeq
    BY MaxFreezesAssumption DEF RelayTypeOK
  <1>2. ASSUME NEW c \in Children, FreezeChild(c)
        PROVE  FrozenInv'
    <2>1. /\ conn[c] = "selected" /\ conn' = conn /\ diagnoseSeq' = diagnoseSeq + 1
          /\ \A d \in Children : frozenSeq'[d] = IF d = c THEN diagnoseSeq ELSE frozenSeq[d]
      BY <1>1, <1>2
         DEF FreezeChild, Unfrozen, Served, linkVars, recordVars
    <2>2. ASSUME NEW d \in Children, frozenSeq'[d] # 0
          PROVE  /\ conn'[d] = "selected"
                 /\ frozenSeq'[d] < diagnoseSeq'
                 /\ \A e \in Children \ {d} : frozenSeq'[e] # frozenSeq'[d]
      BY <1>1, <2>1, <2>2 DEF FrozenInv
    <2> QED BY <2>2 DEF FrozenInv
  <1>3. ASSUME NEW c \in Children, ReleaseChild(c)
        PROVE  FrozenInv'
    BY <1>1, <1>3 DEF FrozenInv, ReleaseChild, linkVars, recordVars
  <1>4. CASE LinkOnly
    <2>1. ASSUME NEW c \in Children, frozenSeq'[c] # 0
          PROVE  conn'[c] = "selected" /\ frozenSeq'[c] = frozenSeq[c]
      <3>1. conn'[c] # "none" /\ frozenSeq'[c] = frozenSeq[c]
        BY <1>4, <2>1 DEF LinkOnly
      <3>2. conn[c] = "selected"
        BY <2>1, <3>1 DEF FrozenInv
      <3> QED BY <1>4, <3>1, <3>2, SelectedStays DEF LinkOnly
    <2>2. \A d \in Children : frozenSeq'[d] \in {0, frozenSeq[d]}
      BY <1>4 DEF LinkOnly
    <2> QED BY <1>1, <1>4, <2>1, <2>2 DEF FrozenInv, LinkOnly
  <1>5. CASE UNCHANGED <<conn, frozenSeq, diagnoseSeq>>
    BY <1>5 DEF FrozenInv
  <1> QED BY <1>2, <1>3, <1>4, <1>5
          DEF RelayNext, relayVars, freezeVars, linkVars, recordVars,
              StoreAndRelay, SendChunk, UpdateChildrenInfo, BufferOnly

\* The child that was frozen last is released first.
THEOREM StackOrder == RelaySpec => ReleasedInStackOrder
  <1>1. RelayInit => FrozenInv
    BY DEF RelayInit, FrozenInv
  <1>2. RelaySpec => [](RelayTypeOK /\ LinkTypeOK /\ QueueFound /\ FrozenInv)
    BY <1>1, FrozenStep, RelayTypeCorrect, RelayImplements, LinkTypeCorrect, QueuesFound,
       PTL DEF RelaySpec
  <1>3. RelayTypeOK /\ LinkTypeOK /\ QueueFound /\ FrozenInv /\ [RelayNext]_relayVars
        => [\A c, d \in Children :
              frozenSeq[c] # 0 /\ frozenSeq'[c] = 0 /\ conn'[c] # "none" /\ d # c
              => frozenSeq[d] < frozenSeq[c]]_relayVars
    <2> SUFFICES ASSUME RelayTypeOK, LinkTypeOK, QueueFound, FrozenInv, RelayNext,
                        NEW c \in Children, NEW d \in Children,
                        frozenSeq[c] # 0, frozenSeq'[c] = 0, conn'[c] # "none", d # c
                 PROVE  frozenSeq[d] < frozenSeq[c]
      OBVIOUS
    <2>1. /\ frozenSeq \in [Children -> 0..MaxFreezes]
          /\ frozenSeq[c] \in Nat /\ frozenSeq[d] \in Nat /\ 1 <= diagnoseSeq
      BY MaxFreezesAssumption DEF RelayTypeOK
    <2>2. ASSUME NEW b \in Children, ReleaseChild(b)
          PROVE  frozenSeq[d] < frozenSeq[c]
      <3>1. b = c /\ \A e \in Frozen : frozenSeq[e] <= frozenSeq[c]
        BY <2>1, <2>2 DEF ReleaseChild
      <3>2. CASE frozenSeq[d] = 0
        BY <2>1, <3>2
      <3>3. CASE frozenSeq[d] # 0
        <4>1. d \in Frozen
          BY <3>3 DEF FrozenInv, QueueFound, Frozen, Served
        <4>2. frozenSeq[d] # frozenSeq[c]
          BY DEF FrozenInv
        <4> QED BY <2>1, <3>1, <4>1, <4>2
      <3> QED BY <3>2, <3>3
    <2>3. ASSUME NEW b \in Children, FreezeChild(b)
          PROVE  FALSE
      BY <2>1, <2>3, MaxFreezesAssumption DEF FreezeChild, RelayTypeOK
    <2>4. CASE LinkOnly
      BY <2>4 DEF LinkOnly
    <2> QED BY <2>2, <2>3, <2>4
            DEF RelayNext, StoreAndRelay, SendChunk, UpdateChildrenInfo, BufferOnly, freezeVars
  <1> QED BY <1>2, <1>3, PTL DEF RelaySpec, ReleasedInStackOrder

----------------------------------------------------------------------------
(* Freezing implements the stack *)

\* At most one child is selected by a step, and then none is closed.
LEMMA SelectedChange ==
    ASSUME LinkTypeOK, LinkNext
    PROVE  \/ SelectedChildren' \subseteq SelectedChildren
           \/ \E c \in Children : SelectedChildren' = SelectedChildren \cup {c}
  <1>1. conn \in [Children -> ConnState]
    BY DEF LinkTypeOK
  <1> DEFINE Fewer == \A c \in Children : conn'[c] = "selected" => conn[c] = "selected"
  <1>2. Fewer => SelectedChildren' \subseteq SelectedChildren
    BY DEF SelectedChildren
  <1>3. ASSUME NEW l \in Links, PeerCon(l)
        PROVE  \/ Fewer
               \/ \E c \in Children : SelectedChildren' = SelectedChildren \cup {c}
    <2>1. CASE owner[l] \in Children /\ conn[owner[l]] # "none"
      <3>1. \A d \in Children : conn'[d] = IF d = owner[l] THEN "selected" ELSE conn[d]
        BY <1>1, <1>3, <2>1 DEF PeerCon
      <3>2. SelectedChildren' = SelectedChildren \cup {owner[l]}
        BY <2>1, <3>1 DEF SelectedChildren
      <3> QED BY <2>1, <3>2
    <2>2. CASE ~(owner[l] \in Children /\ conn[owner[l]] # "none")
      BY <1>1, <1>3, <2>2 DEF PeerCon
    <2> QED BY <2>1, <2>2
  <1>4. ASSUME NEW i \in SessionId, NEW c \in Children, Invite(i, c)
        PROVE  Fewer
    BY <1>1, <1>4 DEF Invite
  <1>5. ASSUME NEW i \in SessionId, NEW d \in Dir, NEW l \in Links, Connected(i, d, l)
        PROVE  Fewer
    BY <1>1, <1>5 DEF Connected
  <1>6. ASSUME NEW i \in SessionId, SessionTimer(i)
        PROVE  Fewer
    BY <1>1, <1>6 DEF SessionTimer, ConnectTimeout, SelectDone, StopSession, recordVars
  <1>7. ASSUME NEW cs, CloseChildren(cs)
        PROVE  Fewer
    BY <1>1, <1>7 DEF CloseChildren
  <1>8. ASSUME NEW l \in Links, LinkStep(l), ~PeerCon(l)
        PROVE  Fewer
    <2>1. CASE Message(l)
      BY <1>7, <2>1 DEF Message, SetManifest
    <2>2. CASE RefuseShared(l) \/ Environment(l) \/ CloseOrphan(l)
      BY <2>2 DEF RefuseShared, Environment, Break, Reap, SendPart, CloseOrphan, recordVars
    <2> QED BY <1>8, <2>1, <2>2 DEF LinkStep
  <1>9. ASSUME NEW d \in Children, Fail(d)
        PROVE  Fewer
    BY <1>7, <1>9 DEF Fail
  <1>10. ASSUME NEW second \in BOOLEAN, CheckSockets(second)
         PROVE  Fewer
    BY <1>7, <1>10 DEF CheckSockets
  <1> HIDE DEF Fewer
  <1> QED BY <1>2, <1>3, <1>4, <1>5, <1>6, <1>8, <1>9, <1>10 DEF LinkNext

StackInv == RelayTypeOK /\ LinkTypeOK /\ QueueFound /\ FrozenInv

\* Freezing a child puts it on the stack, above all that are there.
LEMMA FreezeIsPush ==
    ASSUME StackInv, NEW c \in Children, FreezeChild(c)
    PROVE  Stack!Freeze(c)
  <1>1. /\ frozenSeq \in [Children -> 0..MaxFreezes]
        /\ \A d \in Children : frozenSeq[d] \in Nat
        /\ diagnoseSeq \in Nat /\ 1 <= diagnoseSeq
        /\ \A d \in Children : frozenSeq[d] # 0 => frozenSeq[d] < diagnoseSeq
    BY MaxFreezesAssumption DEF StackInv, RelayTypeOK, FrozenInv
  <1>2. \A d \in Children : frozenSeq'[d] = IF d = c THEN diagnoseSeq ELSE frozenSeq[d]
    BY <1>1 DEF FreezeChild
  <1>3. c \in Unfrozen /\ Cardinality(Unfrozen) > 1
    BY DEF FreezeChild
  <1>4. PICK d \in Unfrozen : d # c
    <2>1. Unfrozen # {c}
      BY <1>3, FS_Singleton
    <2> QED BY <1>3, <2>1
  <1>5. Unfrozen \subseteq SelectedChildren \ FrozenChildren
    BY DEF Unfrozen, Served, SelectedChildren, FrozenChildren
  <1>6. FrozenChildren' = FrozenChildren \cup {c}
    BY <1>1, <1>2 DEF FrozenChildren
  <1>7. SelectedChildren' = SelectedChildren
    BY DEF FreezeChild, linkVars, recordVars, SelectedChildren
  <1>8. frozenSeq[c] = 0
    BY <1>3 DEF Unfrozen
  <1>9. ASSUME NEW x \in Children, NEW y \in Children
        PROVE  <<x, y>> \in FrozenLater'
               <=> <<x, y>> \in FrozenLater \cup ({c} \X FrozenChildren)
    <2>1. <<x, y>> \in FrozenLater' <=> frozenSeq'[y] # 0 /\ frozenSeq'[y] < frozenSeq'[x]
      BY DEF FrozenLater
    <2>2. <<x, y>> \in FrozenLater <=> frozenSeq[y] # 0 /\ frozenSeq[y] < frozenSeq[x]
      BY DEF FrozenLater
    <2>3. <<x, y>> \in {c} \X FrozenChildren <=> x = c /\ frozenSeq[y] # 0
      BY DEF FrozenChildren
    <2>4. /\ frozenSeq[x] \in Nat /\ frozenSeq[y] \in Nat
          /\ frozenSeq[x] # 0 => frozenSeq[x] < diagnoseSeq
          /\ frozenSeq[y] # 0 => frozenSeq[y] < diagnoseSeq
          /\ frozenSeq'[x] = IF x = c THEN diagnoseSeq ELSE frozenSeq[x]
          /\ frozenSeq'[y] = IF y = c THEN diagnoseSeq ELSE frozenSeq[y]
      BY <1>1, <1>2
    <2>5. frozenSeq'[y] # 0 /\ frozenSeq'[y] < frozenSeq'[x]
          <=> (frozenSeq[y] # 0 /\ frozenSeq[y] < frozenSeq[x]) \/ (x = c /\ frozenSeq[y] # 0)
      BY <1>1, <1>8, <2>4
    <2> QED BY <2>1, <2>2, <2>3, <2>5
  <1>10. FrozenLater' = FrozenLater \cup ({c} \X FrozenChildren)
    <2>1. /\ FrozenLater' \subseteq Children \X Children
          /\ FrozenLater \cup ({c} \X FrozenChildren) \subseteq Children \X Children
      BY DEF FrozenLater, FrozenChildren
    <2> QED BY <1>9, <2>1
  <1> QED BY <1>3, <1>4, <1>5, <1>6, <1>7, <1>10 DEF Stack!Freeze

\* What is left of the stack when children are released or closed.
LEMMA RestOfStack ==
    ASSUME RelayTypeOK, \A c \in Children : frozenSeq'[c] \in {0, frozenSeq[c]}
    PROVE  FrozenLater' = FrozenLater \cap (FrozenChildren' \X FrozenChildren')
  <1>1. \A c \in Children : frozenSeq[c] \in Nat
    BY MaxFreezesAssumption DEF RelayTypeOK
  <1>2. ASSUME NEW x \in Children, NEW y \in Children
        PROVE  <<x, y>> \in FrozenLater'
               <=> <<x, y>> \in FrozenLater \cap (FrozenChildren' \X FrozenChildren')
    <2>1. <<x, y>> \in FrozenLater' <=> frozenSeq'[y] # 0 /\ frozenSeq'[y] < frozenSeq'[x]
      BY DEF FrozenLater
    <2>2. <<x, y>> \in FrozenLater <=> frozenSeq[y] # 0 /\ frozenSeq[y] < frozenSeq[x]
      BY DEF FrozenLater
    <2>3. <<x, y>> \in FrozenChildren' \X FrozenChildren'
          <=> frozenSeq'[x] # 0 /\ frozenSeq'[y] # 0
      BY DEF FrozenChildren
    <2>4. /\ frozenSeq[x] \in Nat /\ frozenSeq[y] \in Nat
          /\ frozenSeq'[x] \in {0, frozenSeq[x]} /\ frozenSeq'[y] \in {0, frozenSeq[y]}
      BY <1>1
    <2> QED BY <2>1, <2>2, <2>3, <2>4
  <1>3. FrozenLater' \subseteq Children \X Children /\ FrozenLater \subseteq Children \X Children
    BY DEF FrozenLater
  <1> QED BY <1>2, <1>3

\* A child that is released is on top.
LEMMA ReleaseIsPop ==
    ASSUME StackInv, NEW c \in Children, ReleaseChild(c)
    PROVE  Stack!Release(c)
  <1>1. /\ frozenSeq \in [Children -> 0..MaxFreezes]
        /\ \A d \in Children : frozenSeq[d] \in Nat
    BY MaxFreezesAssumption DEF StackInv, RelayTypeOK
  <1>2. \A d \in Children : frozenSeq'[d] = IF d = c THEN 0 ELSE frozenSeq[d]
    BY <1>1 DEF ReleaseChild
  <1>3. c \in FrozenChildren /\ FrozenChildren' = FrozenChildren \ {c}
    BY <1>2 DEF ReleaseChild, Frozen, FrozenChildren
  <1>4. ASSUME NEW d \in FrozenChildren \ {c}
        PROVE  <<c, d>> \in FrozenLater
    <2>1. d \in Children /\ frozenSeq[d] # 0 /\ frozenSeq[d] # frozenSeq[c]
      BY <1>4 DEF StackInv, FrozenInv, FrozenChildren
    <2>2. d \in Frozen
      BY <2>1 DEF StackInv, FrozenInv, QueueFound, Frozen, Served
    <2>3. frozenSeq[d] <= frozenSeq[c]
      BY <2>2 DEF ReleaseChild
    <2> QED BY <1>1, <2>1, <2>3 DEF FrozenLater
  <1>5. FrozenLater' = FrozenLater \cap (FrozenChildren' \X FrozenChildren')
    BY <1>2, RestOfStack DEF StackInv
  <1>6. SelectedChildren' = SelectedChildren
    BY DEF ReleaseChild, linkVars, recordVars, SelectedChildren
  <1> QED BY <1>3, <1>4, <1>5, <1>6 DEF Stack!Release

\* A step of the children's connections adds a child, or takes some off.
LEMMA LinkIsJoinOrLeave ==
    ASSUME StackInv, StackInv', LinkOnly
    PROVE  Stack!Next
  <1>1. \A c \in Children : frozenSeq'[c] = IF conn'[c] = "none" THEN 0 ELSE frozenSeq[c]
    BY DEF LinkOnly
  <1>2. FrozenLater' = FrozenLater \cap (FrozenChildren' \X FrozenChildren')
    BY <1>1, RestOfStack DEF StackInv
  <1>3. FrozenChildren \subseteq SelectedChildren /\ FrozenChildren' \subseteq SelectedChildren'
    BY DEF StackInv, FrozenInv, FrozenChildren, SelectedChildren
  <1>4. FrozenChildren' = FrozenChildren \cap SelectedChildren'
    BY <1>1, <1>3 DEF FrozenChildren, SelectedChildren
  <1>5. CASE SelectedChildren' \subseteq SelectedChildren
    <2> DEFINE cs == SelectedChildren \ SelectedChildren'
    <2>1. cs \in SUBSET Children
      BY DEF SelectedChildren
    <2>2. SelectedChildren' = SelectedChildren \ cs /\ FrozenChildren' = FrozenChildren \ cs
      BY <1>3, <1>4, <1>5
    <2> HIDE DEF cs
    <2> QED BY <1>2, <2>1, <2>2 DEF Stack!Next, Stack!Leave
  <1>6. ASSUME NEW c \in Children, SelectedChildren' = SelectedChildren \cup {c}
        PROVE  Stack!Join(c)
    <2>1. FrozenChildren' = FrozenChildren
      BY <1>3, <1>4, <1>6
    <2>2. FrozenLater \subseteq FrozenChildren \X FrozenChildren
      <3>1. \A d \in Children : frozenSeq[d] \in Nat
        BY MaxFreezesAssumption DEF StackInv, RelayTypeOK
      <3> QED BY <3>1 DEF FrozenLater, FrozenChildren
    <2> QED BY <1>2, <1>6, <2>1, <2>2 DEF Stack!Join
  <1> QED BY <1>5, <1>6, SelectedChange DEF StackInv, LinkOnly, Stack!Next

\* Every step is one of the stack, or leaves it alone.
LEMMA StackStep ==
    StackInv /\ StackInv' /\ [RelayNext]_relayVars => [Stack!Next]_(Stack!stackVars)
  <1> SUFFICES ASSUME StackInv, StackInv', [RelayNext]_relayVars
               PROVE  [Stack!Next]_(Stack!stackVars)
    OBVIOUS
  <1>1. ASSUME NEW c \in Children, FreezeChild(c)
        PROVE  Stack!Next
    BY <1>1, FreezeIsPush DEF Stack!Next
  <1>2. ASSUME NEW c \in Children, ReleaseChild(c)
        PROVE  Stack!Next
    BY <1>2, ReleaseIsPop DEF Stack!Next
  <1>3. CASE LinkOnly
    BY <1>3, LinkIsJoinOrLeave
  <1>4. CASE UNCHANGED <<conn, frozenSeq>>
    BY <1>4 DEF Stack!stackVars, SelectedChildren, FrozenChildren, FrozenLater
  <1> QED BY <1>1, <1>2, <1>3, <1>4
          DEF RelayNext, relayVars, freezeVars, linkVars, recordVars,
              StoreAndRelay, SendChunk, UpdateChildrenInfo, BufferOnly

\* Freezing and releasing children, which go and come as they like, implements
\* a stack of children that never takes the last one.
THEOREM FreezingIsStack == RelaySpec => StackSpec
  <1>1. RelayInit => FrozenInv
    BY DEF RelayInit, FrozenInv
  <1>2. RelaySpec => []StackInv
    BY <1>1, FrozenStep, RelayTypeCorrect, RelayImplements, LinkTypeCorrect, QueuesFound,
       PTL DEF RelaySpec, StackInv
  <1>3. RelayInit => Stack!Init
    BY DEF RelayInit, Stack!Init, SelectedChildren, FrozenChildren, FrozenLater
  <1> QED BY <1>2, <1>3, StackStep, PTL DEF RelaySpec, StackSpec, Stack!Spec
=============================================================================
