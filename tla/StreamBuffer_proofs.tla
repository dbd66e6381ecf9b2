------------------------ MODULE StreamBuffer_proofs ------------------------
(***************************************************************************)
(* Theorems about StreamBuffer, for any size of the ring, any window and   *)
(* any number of packets and players.                                      *)
(***************************************************************************)
EXTENDS StreamBuffer, SequenceTheorems, TLAPS

\* Two numbers of the same slot are at least a ring apart.
LEMMA RingApart ==
    ASSUME NEW a \in Nat, NEW b \in Nat, a % Size = b % Size, a < b
    PROVE  b - a >= Size
  <1>1. /\ a = Size * (a \div Size) + (a % Size)
        /\ b = Size * (b \div Size) + (b % Size)
        /\ a \div Size \in Int /\ b \div Size \in Int
    BY SizeAssumption
  <1>2. b - a = Size * ((b \div Size) - (a \div Size))
    BY <1>1, SizeAssumption
  <1>3. (b \div Size) - (a \div Size) >= 1
    BY <1>1, <1>2, SizeAssumption
  <1> QED BY <1>1, <1>2, <1>3, SizeAssumption

\* A sequence number has a slot.
LEMMA SlotOf ==
    ASSUME NEW n \in Nat
    PROVE  n % Size \in Slot
  BY SizeAssumption DEF Slot

\* The chunks c, ..., e - 1.
LEMMA ChunksAre ==
    ASSUME NEW c \in Nat, NEW e \in Nat, c <= e
    PROVE  /\ Chunks(c, e) \in Seq(Nat)
           /\ Len(Chunks(c, e)) = e - c
           /\ \A i \in 1..(e - c) : Chunks(c, e)[i] = c + i - 1
  <1>1. e - c \in Nat
    OBVIOUS
  <1> QED BY <1>1 DEF Chunks

----------------------------------------------------------------------------
(* The ring: numbers and slots *)

\* A slot holds a chunk of its own, no newer than the newest; the next chunk to
\* play is no newer either.
RingInv ==
    /\ started \in BOOLEAN /\ least \in 0..MaxSeq /\ current \in Nat
    /\ slot \in [Slot -> 0..MaxSeq]
    /\ halted \in BOOLEAN
    /\ current <= least
    /\ ~started => current = 0 /\ least = 0
    /\ started => current >= 1
    /\ \A i \in Slot : slot[i] # 0 => slot[i] % Size = i /\ slot[i] <= least

\* What an accepted packet does to the numbers: it plays chunks c to e - 1.
LEMMA AcceptedChunks ==
    ASSUME RingInv, NEW n \in SeqNo, Accept(n)
    PROVE  \E c \in Nat, e \in Nat :
             /\ c = SkipTo(Newest(n), From(n))
             /\ From(n) <= c /\ c <= e /\ e <= Newest(n)
             /\ PlayableTo(slot', c, e, Newest(n))
             /\ current' = e
             /\ Deliver(c, e)
             /\ Newest(n) \in SeqNo /\ n <= Newest(n) /\ least <= Newest(n)
             /\ From(n) \in Nat /\ 1 <= From(n) /\ current <= From(n)
  <1>1. /\ Newest(n) \in SeqNo /\ n <= Newest(n) /\ least <= Newest(n)
        /\ From(n) \in Nat /\ 1 <= From(n) /\ current <= From(n) /\ From(n) <= Newest(n)
    BY MaxSeqAssumption DEF RingInv, Newest, From, SeqNo
  <1>2. PICK e \in SkipTo(Newest(n), From(n))..Newest(n) :
          /\ PlayableTo(slot', SkipTo(Newest(n), From(n)), e, Newest(n))
          /\ current' = e
          /\ Deliver(SkipTo(Newest(n), From(n)), e)
    BY DEF Accept
  <1>3. SkipTo(Newest(n), From(n)) \in Nat /\ From(n) <= SkipTo(Newest(n), From(n))
    BY <1>1, WindowAssumption, MaxSeqAssumption DEF SkipTo, SeqNo
  <1> QED BY <1>1, <1>2, <1>3, MaxSeqAssumption DEF SeqNo

\* Every step keeps RingInv.
LEMMA RingStep == RingInv /\ [Next]_vars => RingInv'
  <1> SUFFICES ASSUME RingInv, [Next]_vars
               PROVE  RingInv'
    OBVIOUS
  <1>1. ASSUME NEW n \in SeqNo
        PROVE  /\ Newest(n) \in SeqNo /\ n <= Newest(n) /\ least <= Newest(n)
               /\ From(n) \in Nat /\ 1 <= From(n) /\ From(n) <= Newest(n)
               /\ n \in Nat /\ n % Size \in Slot
    BY MaxSeqAssumption, SlotOf DEF RingInv, Newest, From, SeqNo
  <1>2. ASSUME NEW n \in SeqNo, Dropped(n)
        PROVE  RingInv'
    BY <1>1, <1>2, MaxSeqAssumption DEF RingInv, Dropped, Heard, SeqNo
  <1>3. ASSUME NEW n \in SeqNo, slot' = [slot EXCEPT ![n % Size] = n], least' = Newest(n)
        PROVE  /\ slot' \in [Slot -> 0..MaxSeq]
               /\ least' \in 0..MaxSeq
               /\ \A i \in Slot : slot'[i] # 0 => slot'[i] % Size = i /\ slot'[i] <= least'
    <2>1. /\ slot' \in [Slot -> 0..MaxSeq]
          /\ \A i \in Slot : slot'[i] = IF i = n % Size THEN n ELSE slot[i]
      BY <1>1, <1>3, MaxSeqAssumption DEF RingInv, SeqNo
    <2>2. least' \in 0..MaxSeq /\ n <= least' /\ least <= least'
      BY <1>1, <1>3, MaxSeqAssumption DEF SeqNo
    <2>3. ASSUME NEW i \in Slot, slot'[i] # 0
          PROVE  slot'[i] % Size = i /\ slot'[i] <= least'
      <3>1. CASE i = n % Size
        BY <2>1, <2>2, <3>1
      <3>2. CASE i # n % Size
        BY <2>1, <2>2, <2>3, <3>2, MaxSeqAssumption DEF RingInv
      <3> QED BY <3>1, <3>2
    <2> QED BY <2>1, <2>2, <2>3
  <1>4. ASSUME NEW n \in SeqNo, Halt(n)
        PROVE  RingInv'
    BY <1>1, <1>3, <1>4 DEF RingInv, Halt, Heard
  <1>5. ASSUME NEW n \in SeqNo, Accept(n)
        PROVE  RingInv'
    <2>1. PICK c \in Nat, e \in Nat : /\ From(n) <= c /\ c <= e /\ e <= Newest(n)
                                     /\ current' = e
      BY <1>5, AcceptedChunks
    <2>2. started' = TRUE /\ least' = Newest(n) /\ halted' = halted
          /\ slot' = [slot EXCEPT ![n % Size] = n]
      BY <1>5 DEF Accept, Heard
    <2>3. current' \in Nat /\ current' >= 1 /\ current' <= least'
      BY <1>1, <2>1, <2>2, MaxSeqAssumption DEF SeqNo
    <2> QED BY <1>3, <2>2, <2>3 DEF RingInv
  <1>6. CASE UNCHANGED ringVars
    BY <1>6 DEF RingInv, ringVars
  <1> QED BY <1>2, <1>4, <1>5, <1>6
          DEF Next, vars, Attach, Detach, Take, Sent

\* An empty ring satisfies RingInv.
LEMMA RingInit == Init => RingInv
  <1> SUFFICES ASSUME Init PROVE RingInv
    OBVIOUS
  <1>1. slot \in [Slot -> 0..MaxSeq] /\ \A i \in Slot : slot[i] = 0
    BY MaxSeqAssumption DEF Init
  <1>2. started = FALSE /\ least = 0 /\ current = 0 /\ halted = FALSE
    BY DEF Init
  <1>3. /\ least \in 0..MaxSeq /\ current \in Nat /\ current <= least
    BY <1>2, MaxSeqAssumption
  <1>4. \A i \in Slot : slot[i] # 0 => slot[i] % Size = i /\ slot[i] <= least
    BY <1>1
  <1>5. started \in BOOLEAN /\ halted \in BOOLEAN
    BY <1>2
  <1> QED BY <1>1, <1>2, <1>3, <1>4, <1>5 DEF RingInv

\* The next chunk to play is never newer than the newest chunk.
THEOREM NeverAheadHolds == Spec => []NeverAhead
  <1>1. RingInv => NeverAhead
    BY DEF RingInv, NeverAhead
  <1> QED BY <1>1, RingInit, RingStep, PTL DEF Spec

\* A packet overwrites a chunk that is still to be played only if it stops the
\* program: in the same slot, it is a ring newer, too far ahead to be accepted.
THEOREM NoneIsOverwritten == Spec => NoneOverwritten
  <1>1. RingInv /\ [Next]_vars
        => [\A i \in Slot :
              started /\ slot'[i] # slot[i] /\ current <= slot[i] /\ slot[i] # 0 => halted']_vars
    <2> SUFFICES ASSUME RingInv, Next, NEW i \in Slot, started, slot'[i] # slot[i],
                        current <= slot[i], slot[i] # 0, halted' # TRUE
                 PROVE  FALSE
      BY DEF RingInv
    <2>1. PICK n \in SeqNo : Accept(n)
      BY DEF Next, Dropped, Halt, Attach, Detach, Take, Sent, ringVars
    <2>2. i = n % Size /\ ~Stale(n) /\ ~TooFarAhead(n)
      BY <2>1 DEF Accept, RingInv
    <2>3. slot[i] \in Nat /\ n \in Nat /\ slot[i] % Size = n % Size /\ slot[i] < n
      BY <2>2, MaxSeqAssumption DEF RingInv, Stale, SeqNo
    <2>4. n - slot[i] >= Size
      BY <2>3, RingApart
    <2>5. Newest(n) - From(n) >= Size
      BY <2>3, <2>4, MaxSeqAssumption, SizeAssumption DEF Newest, From, RingInv, SeqNo
    <2> QED BY <2>2, <2>5 DEF TooFarAhead
  <1> QED BY <1>1, RingInit, RingStep, PTL DEF Spec, NoneOverwritten

----------------------------------------------------------------------------
(* The players *)

\* What the queues hold and what is being sent are sequence numbers.
QueueType ==
    /\ attached \in SUBSET Players
    /\ queue \in [Players -> Seq(SeqNo)]
    /\ sending \in [Players -> 0..MaxSeq]

\* An accepted packet appends chunks c to e - 1 to a queue, or leaves it alone.
LEMMA Appended ==
    ASSUME RingInv, QueueType, NEW n \in SeqNo, Accept(n), NEW p \in Players
    PROVE  \/ queue'[p] = queue[p] /\ current' >= current
           \/ \E c \in Nat, e \in Nat :
                /\ current <= c /\ c <= e /\ current' = e /\ e <= MaxSeq /\ 1 <= c
                /\ \A k \in c..(e - 1) : slot'[k % Size] = k
                /\ queue'[p] = queue[p] \o Chunks(c, e)
  <1>1. PICK c \in Nat, e \in Nat :
          /\ From(n) <= c /\ c <= e /\ e <= Newest(n) /\ Newest(n) \in SeqNo
          /\ PlayableTo(slot', c, e, Newest(n))
          /\ current' = e /\ Deliver(c, e)
          /\ From(n) \in Nat /\ 1 <= From(n) /\ current <= From(n)
    BY AcceptedChunks
  <1>3. current <= c /\ 1 <= c /\ e <= MaxSeq /\ current' >= current
    BY <1>1, MaxSeqAssumption DEF RingInv, SeqNo
  <1>4. \A k \in c..(e - 1) : slot'[k % Size] = k
    BY <1>1 DEF PlayableTo
  <1>5. CASE p \in attached
    <2>1. queue'[p] = queue[p] \o Chunks(c, e)
      BY <1>1, <1>5 DEF Deliver
    <2> QED BY <1>1, <1>3, <1>4, <2>1
  <1>6. CASE p \notin attached
    BY <1>1, <1>3, <1>6 DEF Deliver
  <1> QED BY <1>5, <1>6

\* A sequence of numbers with the chunks c to e - 1 appended to it.
LEMMA AppendedElements ==
    ASSUME NEW q \in Seq(SeqNo), NEW c \in Nat, NEW e \in Nat,
           1 <= c, c <= e, e <= MaxSeq
    PROVE  /\ q \o Chunks(c, e) \in Seq(SeqNo)
           /\ Len(q \o Chunks(c, e)) = Len(q) + (e - c)
           /\ \A i \in 1..Len(q) : (q \o Chunks(c, e))[i] = q[i]
           /\ \A i \in (Len(q) + 1)..(Len(q) + (e - c)) :
                (q \o Chunks(c, e))[i] = c + (i - Len(q)) - 1
  <1>1. /\ Len(Chunks(c, e)) = e - c
        /\ \A i \in 1..(e - c) : Chunks(c, e)[i] = c + i - 1
    BY ChunksAre
  <1>2. Chunks(c, e) \in Seq(SeqNo)
    <2>1. e - c \in Nat
      OBVIOUS
    <2>2. \A i \in 1..(e - c) : c + i - 1 \in SeqNo
      BY MaxSeqAssumption DEF SeqNo
    <2> QED BY <2>1, <2>2 DEF Chunks
  <1>3. /\ q \o Chunks(c, e) \in Seq(SeqNo)
        /\ Len(q \o Chunks(c, e)) = Len(q) + (e - c)
        /\ \A i \in 1..(Len(q) + (e - c)) :
             (q \o Chunks(c, e))[i] = IF i <= Len(q) THEN q[i]
                                      ELSE Chunks(c, e)[i - Len(q)]
    <2>1. /\ q \o Chunks(c, e) \in Seq(SeqNo)
          /\ Len(q \o Chunks(c, e)) = Len(q) + Len(Chunks(c, e))
          /\ \A i \in 1..(Len(q) + Len(Chunks(c, e))) :
               (q \o Chunks(c, e))[i] = IF i <= Len(q) THEN q[i]
                                        ELSE Chunks(c, e)[i - Len(q)]
      BY <1>2, ConcatProperties, Zenon
    <2> QED BY <1>1, <2>1
  <1>4. Len(q) \in Nat /\ e - c \in Nat
    OBVIOUS
  <1>5. ASSUME NEW i \in 1..Len(q)
        PROVE  (q \o Chunks(c, e))[i] = q[i]
    BY <1>3, <1>4
  <1>6. ASSUME NEW i \in (Len(q) + 1)..(Len(q) + (e - c))
        PROVE  (q \o Chunks(c, e))[i] = c + (i - Len(q)) - 1
    <2>1. i \in 1..(Len(q) + (e - c)) /\ ~(i <= Len(q)) /\ i - Len(q) \in 1..(e - c)
      BY <1>4
    <2> QED BY <1>1, <1>3, <2>1
  <1> QED BY <1>3, <1>5, <1>6

\* Every step keeps QueueType.
LEMMA QueueTypeStep == RingInv /\ QueueType /\ [Next]_vars => QueueType'
  <1> SUFFICES ASSUME RingInv, QueueType, [Next]_vars
               PROVE  QueueType'
    OBVIOUS
  <1>1. ASSUME NEW n \in SeqNo, Accept(n)
        PROVE  QueueType'
    <2>1. attached' = attached /\ sending' = sending
      BY <1>1 DEF Accept
    <2>2. ASSUME NEW p \in Players
          PROVE  queue'[p] \in Seq(SeqNo)
      <3>1. queue[p] \in Seq(SeqNo)
        BY DEF QueueType
      <3>2. CASE queue'[p] = queue[p]
        BY <3>1, <3>2
      <3>3. ASSUME NEW c \in Nat, NEW e \in Nat, 1 <= c, c <= e, e <= MaxSeq,
                   queue'[p] = queue[p] \o Chunks(c, e)
            PROVE  queue'[p] \in Seq(SeqNo)
        BY <3>1, <3>3, AppendedElements
      <3> QED BY <1>1, <3>2, <3>3, Appended
    <2>3. \E f : queue' = [p \in Players |-> f[p]]
      <3>1. PICK c \in Nat, e \in Nat : Deliver(c, e)
        BY <1>1, AcceptedChunks
      <3>2. queue' = [p \in Players |-> queue'[p]]
        BY <3>1 DEF Deliver
      <3> QED BY <3>2
    <2> QED BY <2>1, <2>2, <2>3 DEF QueueType
  <1>2. ASSUME NEW p \in Players, Attach(p)
        PROVE  QueueType'
    BY <1>2 DEF Attach, QueueType
  <1>3. ASSUME NEW p \in Players, Detach(p)
        PROVE  QueueType'
    BY <1>3, MaxSeqAssumption DEF Detach, QueueType
  <1>4. ASSUME NEW p \in Players, NEW done \in BOOLEAN, Take(p, done)
        PROVE  QueueType'
    <2>1. /\ Tail(queue[p]) \in Seq(SeqNo)
          /\ Head(queue[p]) \in 0..MaxSeq
      BY <1>4, MaxSeqAssumption DEF Take, QueueType, SeqNo
    <2>2. (IF done THEN 0 ELSE Head(queue[p])) \in 0..MaxSeq
      BY <2>1, MaxSeqAssumption
    <2> QED BY <1>4, <2>1, <2>2 DEF Take, QueueType
  <1>5. ASSUME NEW p \in Players, Sent(p)
        PROVE  QueueType'
    BY <1>5, MaxSeqAssumption DEF Sent, QueueType
  <1>6. CASE UNCHANGED playerVars
    BY <1>6 DEF QueueType, playerVars
  <1> QED BY <1>1, <1>2, <1>3, <1>4, <1>5, <1>6
          DEF Next, vars, Dropped, Halt

LEMMA QueueTypeInit == Init => QueueType
  BY MaxSeqAssumption DEF Init, QueueType

\* Every variable keeps its type.
THEOREM TypeCorrect == Spec => []TypeOK
  <1>1. RingInv /\ QueueType => TypeOK
    BY DEF RingInv, QueueType, TypeOK
  <1> QED BY <1>1, RingInit, RingStep, QueueTypeInit, QueueTypeStep, PTL DEF Spec

\* The parts of InOrder, and of QueuedIntact, for one player.
Increasing(p) ==
    /\ \A i, j \in 1..Len(queue[p]) : i < j => queue[p][i] < queue[p][j]
    /\ \A i \in 1..Len(queue[p]) : sending[p] < queue[p][i]

Older(p) == \A n \in Pending(p) : n < current

Intact(p) == \A n \in Pending(p) : least - n < Size => slot[n % Size] = n

\* What waits for a player is a positive sequence number.
LEMMA PendingType ==
    ASSUME QueueType, NEW p \in Players, NEW m \in Pending(p)
    PROVE  m \in Nat /\ 1 <= m
  <1>1. queue[p] \in Seq(SeqNo) /\ sending[p] \in 0..MaxSeq
    BY DEF QueueType
  <1>2. CASE m \in {queue[p][i] : i \in 1..Len(queue[p])}
    <2>1. PICK i \in 1..Len(queue[p]) : m = queue[p][i]
      BY <1>2
    <2>2. m \in SeqNo
      BY <1>1, <2>1
    <2> QED BY <2>2, MaxSeqAssumption DEF SeqNo
  <1>3. CASE m \in {sending[p]} \ {0}
    BY <1>1, <1>3, MaxSeqAssumption
  <1> QED BY <1>2, <1>3 DEF Pending

\* A chunk that is less than a ring behind the newest is not overwritten: a
\* packet for its slot would be a ring newer.
LEMMA NotOverwritten ==
    ASSUME RingInv, NEW n \in SeqNo, ~Stale(n), least' = Newest(n),
           slot' = [slot EXCEPT ![n % Size] = n],
           NEW m \in Nat, 1 <= m, least - m < Size => slot[m % Size] = m,
           least' - m < Size
    PROVE  slot'[m % Size] = m
  <1>1. /\ least \in Nat /\ least' \in Nat /\ n \in Nat /\ n <= least' /\ least <= least'
        /\ n % Size \in Slot /\ m % Size \in Slot
    BY MaxSeqAssumption, SlotOf DEF RingInv, Newest, SeqNo
  <1>2. slot[m % Size] = m
    BY <1>1, SizeAssumption
  <1>3. n % Size # m % Size
    <2> SUFFICES ASSUME n % Size = m % Size PROVE FALSE
      OBVIOUS
    <2>1. m < n
      BY <1>1, <1>2 DEF Stale
    <2>2. n - m >= Size
      BY <1>1, <2>1, RingApart
    <2> QED BY <1>1, <2>2, SizeAssumption
  <1> QED BY <1>1, <1>2, <1>3 DEF RingInv

\* What waits for a player after a packet: what waited before, or a chunk that
\* the packet made playable.
LEMMA PendingAfter ==
    ASSUME RingInv, QueueType, NEW n \in SeqNo, Accept(n), NEW p \in Players,
           NEW m \in Pending(p)'
    PROVE  \/ m \in Pending(p)
           \/ m \in Nat /\ current <= m /\ m < current' /\ slot'[m % Size] = m
  <1>1. queue[p] \in Seq(SeqNo) /\ sending[p] \in 0..MaxSeq /\ sending' = sending
    BY DEF QueueType, Accept
  <1>2. CASE queue'[p] = queue[p]
    BY <1>1, <1>2 DEF Pending
  <1>3. ASSUME NEW c \in Nat, NEW e \in Nat,
               current <= c, c <= e, current' = e, e <= MaxSeq, 1 <= c,
               \A k \in c..(e - 1) : slot'[k % Size] = k,
               queue'[p] = queue[p] \o Chunks(c, e)
        PROVE  \/ m \in Pending(p)
               \/ m \in Nat /\ current <= m /\ m < current' /\ slot'[m % Size] = m
    <2>1. /\ Len(queue'[p]) = Len(queue[p]) + (e - c)
          /\ \A i \in 1..Len(queue[p]) : queue'[p][i] = queue[p][i]
          /\ \A i \in (Len(queue[p]) + 1)..(Len(queue[p]) + (e - c)) :
               queue'[p][i] = c + (i - Len(queue[p])) - 1
      <3>1. /\ Len(queue[p] \o Chunks(c, e)) = Len(queue[p]) + (e - c)
            /\ \A i \in 1..Len(queue[p]) : (queue[p] \o Chunks(c, e))[i] = queue[p][i]
            /\ \A i \in (Len(queue[p]) + 1)..(Len(queue[p]) + (e - c)) :
                 (queue[p] \o Chunks(c, e))[i] = c + (i - Len(queue[p])) - 1
        BY <1>1, <1>3, AppendedElements
      <3> QED BY <1>3, <3>1, Zenon
    <2>2. CASE m \in {sending[p]} \ {0}
      BY <2>2 DEF Pending
    <2>3. ASSUME NEW i \in 1..Len(queue'[p]), m = queue'[p][i]
          PROVE  \/ m \in Pending(p)
                 \/ m \in Nat /\ current <= m /\ m < current' /\ slot'[m % Size] = m
      <3>1. CASE i \in 1..Len(queue[p])
        BY <2>1, <2>3, <3>1 DEF Pending
      <3>2. CASE i \in (Len(queue[p]) + 1)..(Len(queue[p]) + (e - c))
        <4>1. m = c + (i - Len(queue[p])) - 1 /\ Len(queue[p]) \in Nat
          BY <1>1, <2>1, <2>3, <3>2
        <4>2. m \in c..(e - 1)
          <5>1. ASSUME NEW k \in Nat, NEW j \in (k + 1)..(k + (e - c))
                PROVE  c + (j - k) - 1 \in c..(e - 1)
            BY <1>3
          <5> QED BY <3>2, <4>1, <5>1
        <4> QED BY <1>3, <4>2 DEF RingInv
      <3>3. Len(queue[p]) \in Nat /\ e - c \in Nat
        BY <1>1, <1>3
      <3> QED BY <2>1, <2>3, <3>1, <3>2, <3>3
    <2> QED BY <1>1, <2>2, <2>3 DEF Pending
  <1> QED BY <1>2, <1>3, Appended

\* A player's step adds nothing to what waits.
LEMMA PendingShrinks ==
    ASSUME QueueType, NEW p \in Players, NEW q \in Players,
           Attach(q) \/ Detach(q) \/ Sent(q) \/ \E done \in BOOLEAN : Take(q, done)
    PROVE  /\ Pending(p)' \subseteq Pending(p)
           /\ Increasing(p) => Increasing(p)'
  <1>1. queue[p] \in Seq(SeqNo) /\ sending[p] \in 0..MaxSeq
    BY DEF QueueType
  <1>2. CASE queue'[p] = queue[p] /\ sending'[p] = sending[p]
    BY <1>2 DEF Pending, Increasing
  <1>3. CASE queue'[p] = <<>> /\ sending'[p] = 0
    BY <1>3 DEF Pending, Increasing
  <1>4. CASE queue'[p] = queue[p] /\ sending'[p] = 0
    BY <1>1, <1>4, MaxSeqAssumption DEF Pending, Increasing, SeqNo
  <1>5. ASSUME NEW done \in BOOLEAN, sending[p] = 0, queue[p] # <<>>,
               queue'[p] = Tail(queue[p]),
               sending'[p] = IF done THEN 0 ELSE Head(queue[p])
        PROVE  /\ Pending(p)' \subseteq Pending(p)
               /\ Increasing(p) => Increasing(p)'
    <2>1. /\ Head(queue[p]) = queue[p][1] /\ Len(queue[p]) \in Nat /\ Len(queue[p]) >= 1
          /\ Len(queue'[p]) = Len(queue[p]) - 1
          /\ \A i \in 1..Len(queue'[p]) : queue'[p][i] = queue[p][i + 1]
      BY <1>1, <1>5, HeadTailProperties, EmptySeq
    <2>2. \A i \in 1..Len(queue[p]) : queue[p][i] \in Nat /\ 0 < queue[p][i]
      BY <1>1, MaxSeqAssumption DEF SeqNo
    <2>3. \A i \in 1..Len(queue'[p]) : i + 1 \in 1..Len(queue[p]) /\ 1 < i + 1
      BY <2>1
    <2>4. ASSUME NEW m \in Pending(p)'
          PROVE  m \in Pending(p)
      <3>1. CASE m \in {sending'[p]} \ {0}
        BY <1>5, <2>1, <3>1 DEF Pending
      <3>2. ASSUME NEW i \in 1..Len(queue'[p]), m = queue'[p][i]
            PROVE  m \in Pending(p)
        BY <2>1, <2>3, <3>2 DEF Pending
      <3> QED BY <3>1, <3>2 DEF Pending
    <2>5. ASSUME Increasing(p)
          PROVE  Increasing(p)'
      <3>1. ASSUME NEW i \in 1..Len(queue'[p]), NEW j \in 1..Len(queue'[p]), i < j
            PROVE  queue'[p][i] < queue'[p][j]
        <4>1. i + 1 < j + 1
          BY <3>1
        <4> QED BY <2>1, <2>3, <2>5, <4>1 DEF Increasing
      <3>2. ASSUME NEW i \in 1..Len(queue'[p])
            PROVE  sending'[p] < queue'[p][i]
        <4>1. queue[p][1] < queue[p][i + 1] /\ 0 < queue[p][i + 1]
          BY <2>1, <2>2, <2>3, <2>5 DEF Increasing
        <4> QED BY <1>5, <2>1, <4>1
      <3> QED BY <3>1, <3>2 DEF Increasing
    <2> QED BY <2>4, <2>5
  <1>6. CASE Attach(q)
    BY <1>2, <1>6 DEF Attach
  <1>7. CASE Detach(q)
    BY <1>2, <1>3, <1>7 DEF Detach, QueueType
  <1>8. CASE Sent(q)
    BY <1>2, <1>4, <1>8 DEF Sent, QueueType
  <1>9. ASSUME NEW done \in BOOLEAN, Take(q, done)
        PROVE  /\ Pending(p)' \subseteq Pending(p)
               /\ Increasing(p) => Increasing(p)'
    <2>1. CASE p = q
      BY <1>5, <1>9, <2>1 DEF Take, QueueType
    <2>2. CASE p # q
      BY <1>2, <1>9, <2>2 DEF Take, QueueType
    <2> QED BY <2>1, <2>2
  <1> QED BY <1>6, <1>7, <1>8, <1>9

\* The queue of a player stays increasing when a packet appends to it.
LEMMA AcceptIncreasing ==
    ASSUME RingInv, QueueType, NEW n \in SeqNo, Accept(n), NEW p \in Players,
           Increasing(p), Older(p)
    PROVE  Increasing(p)'
  <1>1. queue[p] \in Seq(SeqNo) /\ sending[p] \in 0..MaxSeq /\ sending' = sending
    BY DEF QueueType, Accept
  <1>2. CASE queue'[p] = queue[p]
    BY <1>1, <1>2 DEF Increasing
  <1>3. ASSUME NEW c \in Nat, NEW e \in Nat,
               current <= c, c <= e, current' = e, e <= MaxSeq, 1 <= c,
               queue'[p] = queue[p] \o Chunks(c, e)
        PROVE  Increasing(p)'
    <2>1. PICK k \in Nat : k = Len(queue[p])
      BY <1>1
    <2>2. /\ Len(queue'[p]) = k + (e - c)
          /\ \A i \in 1..k : queue'[p][i] = queue[p][i]
          /\ \A i \in (k + 1)..(k + (e - c)) : queue'[p][i] = c + (i - k) - 1
      <3>1. /\ Len(queue[p] \o Chunks(c, e)) = Len(queue[p]) + (e - c)
            /\ \A i \in 1..Len(queue[p]) : (queue[p] \o Chunks(c, e))[i] = queue[p][i]
            /\ \A i \in (Len(queue[p]) + 1)..(Len(queue[p]) + (e - c)) :
                 (queue[p] \o Chunks(c, e))[i] = c + (i - Len(queue[p])) - 1
        BY <1>1, <1>3, AppendedElements
      <3> QED BY <1>3, <2>1, <3>1, Zenon
    <2>3. \A i \in 1..k : queue[p][i] \in Nat /\ 0 < queue[p][i] /\ queue[p][i] < c
      <3>1. ASSUME NEW i \in 1..k
            PROVE  queue[p][i] \in Nat /\ 0 < queue[p][i] /\ queue[p][i] < c
        <4>1. queue[p][i] \in SeqNo /\ queue[p][i] \in Pending(p)
          BY <1>1, <2>1 DEF Pending
        <4> QED BY <1>3, <4>1, MaxSeqAssumption DEF SeqNo, Older, RingInv
      <3> QED BY <3>1
    <2>4. sending[p] \in Nat /\ sending[p] < c
      <3>1. CASE sending[p] = 0
        BY <1>3, <3>1
      <3>2. CASE sending[p] # 0
        <4>1. sending[p] \in Pending(p)
          BY <3>2 DEF Pending
        <4> QED BY <1>1, <1>3, <4>1, MaxSeqAssumption DEF Older, RingInv
      <3> QED BY <3>1, <3>2
    <2>5. e - c \in Nat
      BY <1>3
    <2>6. ASSUME NEW i \in 1..(k + (e - c)), NEW j \in 1..(k + (e - c)), i < j
          PROVE  queue'[p][i] < queue'[p][j]
      <3>1. CASE j <= k
        <4>1. i \in 1..k /\ j \in 1..k
          BY <2>5, <2>6, <3>1
        <4> QED BY <2>1, <2>2, <2>6, <4>1 DEF Increasing
      <3>2. CASE i <= k /\ k < j
        <4>1. i \in 1..k /\ j \in (k + 1)..(k + (e - c))
          BY <2>5, <3>2
        <4>2. queue'[p][i] = queue[p][i] /\ queue'[p][j] = c + (j - k) - 1
          BY <2>2, <4>1, Zenon
        <4>3. c <= c + (j - k) - 1
          BY <4>1
        <4>4. queue[p][i] \in Nat /\ queue[p][i] < c
          BY <2>3, <4>1, Zenon
        <4> QED BY <4>1, <4>2, <4>3, <4>4
      <3>3. CASE k < i
        <4>1. i \in (k + 1)..(k + (e - c)) /\ j \in (k + 1)..(k + (e - c))
          BY <2>5, <2>6, <3>3
        <4>2. /\ queue'[p][i] = c + (i - k) - 1
              /\ queue'[p][j] = c + (j - k) - 1
          BY <2>2, <4>1, Zenon
        <4>3. c + (i - k) - 1 < c + (j - k) - 1
          BY <2>6, <4>1
        <4> QED BY <4>2, <4>3
      <3> QED BY <2>5, <3>1, <3>2, <3>3
    <2>7. ASSUME NEW i \in 1..(k + (e - c))
          PROVE  sending'[p] < queue'[p][i]
      <3>1. CASE i \in 1..k
        BY <1>1, <2>1, <2>2, <3>1 DEF Increasing
      <3>2. CASE i \in (k + 1)..(k + (e - c))
        BY <1>1, <2>2, <2>4, <3>2
      <3> QED BY <2>5, <3>1, <3>2
    <2> QED BY <2>2, <2>6, <2>7 DEF Increasing
  <1> QED BY <1>2, <1>3, Appended

\* What InOrder and QueuedIntact say, for every player.
PlayerInv == \A p \in Players : Increasing(p) /\ Older(p) /\ Intact(p)

LEMMA PlayerInit == Init => PlayerInv
  <1> SUFFICES ASSUME Init, NEW p \in Players
               PROVE  Increasing(p) /\ Older(p) /\ Intact(p)
    BY DEF PlayerInv
  <1>1. queue[p] = <<>> /\ sending[p] = 0 /\ Len(queue[p]) = 0
    BY DEF Init
  <1>2. Pending(p) = {}
    BY <1>1 DEF Pending
  <1> QED BY <1>1, <1>2 DEF Increasing, Older, Intact

\* Every step keeps PlayerInv.
LEMMA PlayerStep == RingInv /\ QueueType /\ PlayerInv /\ [Next]_vars => PlayerInv'
  <1> SUFFICES ASSUME RingInv, QueueType, PlayerInv, [Next]_vars, NEW p \in Players
               PROVE  Increasing(p)' /\ Older(p)' /\ Intact(p)'
    BY DEF PlayerInv
  <1>1. Increasing(p) /\ Older(p) /\ Intact(p)
    BY DEF PlayerInv
  <1>2. \A m \in Pending(p) : m \in Nat /\ 1 <= m /\ m < current
                              /\ (least - m < Size => slot[m % Size] = m)
    BY <1>1, PendingType DEF Older, Intact
  <1>3. ASSUME Pending(p)' \subseteq Pending(p), UNCHANGED ringVars
        PROVE  Older(p)' /\ Intact(p)'
    BY <1>2, <1>3 DEF Older, Intact, ringVars
  <1>4. ASSUME NEW n \in SeqNo, Heard(n)
        PROVE  /\ least \in Nat /\ least' \in Nat /\ least <= least'
               /\ current \in Nat /\ current <= From(n)
    BY <1>4, MaxSeqAssumption DEF Heard, Newest, From, RingInv, SeqNo
  <1>5. ASSUME NEW n \in SeqNo, Dropped(n)
        PROVE  Increasing(p)' /\ Older(p)' /\ Intact(p)'
    <2>1. Pending(p)' = Pending(p) /\ Increasing(p)'
      BY <1>1, <1>5 DEF Dropped, playerVars, Pending, Increasing
    <2>2. Heard(n) /\ current' = From(n) /\ slot' = slot
      BY <1>5 DEF Dropped
    <2>3. ASSUME NEW m \in Pending(p)
          PROVE  m < current' /\ (least' - m < Size => slot'[m % Size] = m)
      <3>1. /\ least \in Nat /\ least' \in Nat /\ least <= least'
            /\ current \in Nat /\ current <= From(n) /\ From(n) \in Int
        BY <1>4, <2>2, MaxSeqAssumption DEF From, SeqNo
      <3>2. least' - m < Size => least - m < Size
        BY <1>2, <2>3, <3>1, SizeAssumption
      <3>3. m < current'
        BY <1>2, <2>2, <2>3, <3>1
      <3> QED BY <1>2, <2>2, <2>3, <3>2, <3>3
    <2> QED BY <2>1, <2>3 DEF Older, Intact
  <1>6. ASSUME NEW n \in SeqNo, Halt(n)
        PROVE  Increasing(p)' /\ Older(p)' /\ Intact(p)'
    <2>1. Pending(p)' = Pending(p) /\ Increasing(p)'
      BY <1>1, <1>6 DEF Halt, playerVars, Pending, Increasing
    <2>2. Heard(n) /\ current' = From(n) /\ ~Stale(n) /\ least' = Newest(n)
          /\ slot' = [slot EXCEPT ![n % Size] = n]
      BY <1>6 DEF Halt, Heard
    <2>3. ASSUME NEW m \in Pending(p)
          PROVE  m < current' /\ (least' - m < Size => slot'[m % Size] = m)
      <3>1. current \in Nat /\ current <= From(n) /\ From(n) \in Int
        BY <1>4, <2>2, MaxSeqAssumption DEF From, SeqNo
      <3>2. m < current'
        BY <1>2, <2>2, <2>3, <3>1
      <3> QED BY <1>2, <2>2, <2>3, <3>2, NotOverwritten
    <2> QED BY <2>1, <2>3 DEF Older, Intact
  <1>7. ASSUME NEW n \in SeqNo, Accept(n)
        PROVE  Increasing(p)' /\ Older(p)' /\ Intact(p)'
    <2>1. Increasing(p)'
      BY <1>1, <1>7, AcceptIncreasing
    <2>2. ~Stale(n) /\ least' = Newest(n) /\ slot' = [slot EXCEPT ![n % Size] = n]
      BY <1>7 DEF Accept, Heard
    <2>3. current \in Nat /\ current' \in Nat /\ current <= current'
      <3>1. PICK c \in Nat, e \in Nat :
              From(n) <= c /\ c <= e /\ current' = e /\ From(n) \in Nat /\ current <= From(n)
        BY <1>7, AcceptedChunks
      <3> QED BY <3>1 DEF RingInv
    <2>4. ASSUME NEW m \in Pending(p)'
          PROVE  m < current' /\ (least' - m < Size => slot'[m % Size] = m)
      <3>1. CASE m \in Pending(p)
        <4>1. m < current'
          BY <1>2, <2>3, <3>1
        <4> QED BY <1>2, <2>2, <3>1, <4>1, NotOverwritten
      <3>2. CASE m \in Nat /\ current <= m /\ m < current' /\ slot'[m % Size] = m
        BY <3>2
      <3> QED BY <1>7, <2>4, <3>1, <3>2, PendingAfter
    <2> QED BY <2>1, <2>4 DEF Older, Intact
  <1>8. ASSUME NEW q \in Players,
               Attach(q) \/ Detach(q) \/ Sent(q) \/ \E done \in BOOLEAN : Take(q, done)
        PROVE  Increasing(p)' /\ Older(p)' /\ Intact(p)'
    <2>1. Pending(p)' \subseteq Pending(p) /\ Increasing(p)'
      BY <1>1, <1>8, PendingShrinks
    <2>2. UNCHANGED ringVars
      BY <1>8 DEF Attach, Detach, Sent, Take
    <2> QED BY <1>3, <2>1, <2>2
  <1>9. CASE UNCHANGED vars
    BY <1>1, <1>3, <1>9 DEF vars, playerVars, Pending, Increasing
  <1> QED BY <1>5, <1>6, <1>7, <1>8, <1>9 DEF Next

\* Players get the chunks in increasing order, each at most once.
THEOREM DeliveredInOrder == Spec => []InOrder
  <1>1. PlayerInv => InOrder
    BY DEF PlayerInv, Increasing, Older, InOrder
  <1> QED BY <1>1, RingInit, RingStep, QueueTypeInit, QueueTypeStep, PlayerInit, PlayerStep,
             PTL DEF Spec

\* A chunk that waits for a player is overwritten only when it is a ring old.
THEOREM QueuedChunksIntact == Spec => []QueuedIntact
  <1>1. PlayerInv => QueuedIntact
    BY DEF PlayerInv, Intact, QueuedIntact
  <1> QED BY <1>1, RingInit, RingStep, QueueTypeInit, QueueTypeStep, PlayerInit, PlayerStep,
             PTL DEF Spec

\* A player that stays misses a chunk only if it was a window behind.
THEOREM OnlyLatePassedOver == Spec => PassedOverOnlyLate
  <1>1. RingInv /\ QueueType /\ [Next]_vars
        => [\A p \in attached \cap attached', n \in current..(current' - 1) :
              started /\ (\A i \in 1..Len(queue'[p]) : queue'[p][i] # n)
              => least' - n >= Window]_vars
    <2> SUFFICES ASSUME RingInv, QueueType, Next, NEW p \in attached,
                        NEW m \in current..(current' - 1), started,
                        \A i \in 1..Len(queue'[p]) : queue'[p][i] # m
                 PROVE  least' - m >= Window
      OBVIOUS
    <2>1. current \in Nat /\ ~(current' = current)
      BY DEF RingInv
    <2>2. PICK n \in SeqNo : Accept(n)
      BY <2>1 DEF Next, Dropped, Halt, From, Attach, Detach, Take, Sent, ringVars
    <2>3. PICK c \in Nat, e \in Nat :
            /\ c = SkipTo(Newest(n), From(n)) /\ c <= e /\ e <= Newest(n)
            /\ current' = e /\ Deliver(c, e) /\ Newest(n) \in SeqNo
            /\ From(n) \in Nat /\ 1 <= From(n) /\ From(n) <= c
      BY <2>2, AcceptedChunks
    <2>4. least' = Newest(n) /\ From(n) = current
      BY <2>2 DEF Accept, Heard, From
    <2>5. m < c
      <3> SUFFICES ASSUME c <= m PROVE FALSE
        BY <2>3 DEF RingInv
      <3>1. queue[p] \in Seq(SeqNo) /\ queue'[p] = queue[p] \o Chunks(c, e)
        BY <2>3 DEF Deliver, QueueType
      <3>2. 1 <= c /\ c <= e /\ e <= MaxSeq
        BY <2>3, MaxSeqAssumption DEF SeqNo
      <3>3. PICK k \in Nat : k = Len(queue[p])
        BY <3>1
      <3>4. /\ Len(queue'[p]) = k + (e - c)
            /\ \A i \in (k + 1)..(k + (e - c)) : queue'[p][i] = c + (i - k) - 1
        <4>1. /\ Len(queue[p] \o Chunks(c, e)) = Len(queue[p]) + (e - c)
              /\ \A i \in (Len(queue[p]) + 1)..(Len(queue[p]) + (e - c)) :
                   (queue[p] \o Chunks(c, e))[i] = c + (i - Len(queue[p])) - 1
          BY <3>1, <3>2, AppendedElements
        <4> QED BY <3>1, <3>3, <4>1, Zenon
      <3>5. k + (m - c) + 1 \in (k + 1)..(k + (e - c)) /\ k + (m - c) + 1 \in 1..(k + (e - c))
            /\ c + ((k + (m - c) + 1) - k) - 1 = m
        BY <2>1, <2>3
      <3>6. queue'[p][k + (m - c) + 1] = c + ((k + (m - c) + 1) - k) - 1
        BY <3>4, <3>5, Zenon
      <3> QED BY <3>4, <3>5, <3>6
    <2> QED BY <2>3, <2>4, <2>5, WindowAssumption, MaxSeqAssumption DEF SkipTo, RingInv, SeqNo
  <1> QED BY <1>1, RingInit, RingStep, QueueTypeInit, QueueTypeStep,
             PTL DEF Spec, PassedOverOnlyLate
=============================================================================
