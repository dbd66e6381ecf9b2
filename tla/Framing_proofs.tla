--------------------------- MODULE Framing_proofs ---------------------------
(***************************************************************************)
(* Framing implements MessageChannel, for any size of headers, payloads    *)
(* and send buffer, and any number of messages.                            *)
(*                                                                         *)
(* The stream is a row of messages, of which only the last may be cut      *)
(* off, and only when the socket was closed (StreamInv).  The receiver     *)
(* keeps in step with it: what it holds in its buffer is a part of the     *)
(* stream that begins where a message begins (RecvInv).                    *)
(***************************************************************************)
EXTENDS Framing, SequenceTheorems, TLAPS

Unit == Queues \X Nat \X Nat
Idx == 1..Len(stream)

\* The message a unit of the stream belongs to begins there.
Begins(j) == stream[j][3] = 1
SizeAt(j) == Size(stream[j][1], stream[j][2])

\* A message that begins at j.
MessageAt(j) ==
    /\ stream[j][2] <= popped[stream[j][1]] + 1
    /\ \A m \in 1..SizeAt(j) :
          j + m - 1 <= Len(stream) => stream[j + m - 1] = <<stream[j][1], stream[j][2], m>>
    /\ j + SizeAt(j) <= Len(stream) => Begins(j + SizeAt(j))
    /\ j + SizeAt(j) - 1 <= Len(stream) => stream[j][2] <= popped[stream[j][1]]
    /\ link = "up" => j + SizeAt(j) - 1 <= Len(stream)

\* What is sent.
SendTypes ==
    /\ posted \in [Queues -> Seq(Payloads)]
    /\ popped \in [Queues -> Nat]
    /\ looping \in BOOLEAN /\ halted \in BOOLEAN
    /\ link \in {"up", "closed", "gone"}
    /\ stream \in Seq(Unit)
    /\ arrived \in 0..Len(stream)
    /\ \A q \in Queues : popped[q] <= Len(posted[q])

StreamInv ==
    /\ SendTypes
    /\ Len(stream) > 0 => Begins(1)
    /\ \A j \in Idx : stream[j][2] \in 1..Len(posted[stream[j][1]])
    /\ \A j \in Idx : Begins(j) => MessageAt(j)
    /\ \A q \in Queues : \A i \in 1..popped[q] : \E j \in Idx : stream[j] = <<q, i, 1>>
    /\ \A j, k \in Idx :
          Begins(j) /\ Begins(k) /\ j < k /\ stream[j][1] = stream[k][1]
          => stream[j][2] < stream[k][2]

\* Where the message begins that is being received.
Start == taken - Len(buffer)

\* What is received.
RecvInv ==
    /\ taken \in 0..arrived
    /\ phase \in Phases
    /\ expect \in Nat
    /\ buffer \in Seq(Unit)
    /\ Len(buffer) <= taken
    /\ \A k \in 1..Len(buffer) : buffer[k] = stream[Start + k]
    /\ Start + 1 <= Len(stream) => Begins(Start + 1)
    /\ phase = "header_ready" => Len(buffer) = 0
    /\ phase = "header_running" => Len(buffer) < Header /\ expect = Header - Len(buffer)
    /\ phase = "header_ok" => Len(buffer) = Header
    /\ phase = "payload_running" =>
          /\ Header <= Len(buffer) /\ Len(buffer) < SizeAt(Start + 1)
          /\ expect = SizeAt(Start + 1) - Len(buffer)

\* What was handled.
GotInv ==
    /\ got \in [Queues -> Seq(Payloads)]
    /\ \A q \in Queues : Len(got[q]) <= popped[q]
    /\ \A q \in Queues : \A i \in 1..Len(got[q]) : got[q][i] = posted[q][i]
    /\ \A j \in Idx : Begins(j) => (j <= Start <=> stream[j][2] <= Len(got[stream[j][1]]))

IInv == StreamInv /\ RecvInv /\ GotInv

----------------------------------------------------------------------------

\* The size of a message that was queued.
LEMMA SizeOf ==
    ASSUME SendTypes, NEW q \in Queues, NEW i \in 1..Len(posted[q])
    PROVE  Size(q, i) \in Nat /\ Size(q, i) > Header /\ posted[q][i] \in Payloads
  <1>1. posted[q] \in Seq(Payloads)
    BY DEF SendTypes
  <1>2. posted[q][i] \in Payloads
    BY <1>1
  <1>3. posted[q][i] \in Nat \ {0}
    BY <1>2, PayloadsAssumption
  <1> QED BY <1>2, <1>3, HeaderAssumption DEF Size

\* A message in the stream has a size.
LEMMA SizeInStream ==
    ASSUME StreamInv, NEW j \in Idx
    PROVE  /\ stream[j] \in Unit
           /\ stream[j][1] \in Queues /\ stream[j][2] \in Nat /\ stream[j][2] >= 1 /\ stream[j][3] \in Nat
           /\ SizeAt(j) \in Nat /\ SizeAt(j) > Header
  <1>1. stream[j] \in Unit
    BY DEF StreamInv, SendTypes, Idx
  <1>2. stream[j][1] \in Queues /\ stream[j][2] \in Nat /\ stream[j][3] \in Nat
    BY <1>1 DEF Unit
  <1>3. stream[j][2] \in 1..Len(posted[stream[j][1]])
    BY DEF StreamInv
  <1>4. posted[stream[j][1]] \in Seq(Payloads)
    BY <1>2 DEF StreamInv, SendTypes
  <1> QED BY <1>1, <1>2, <1>3, <1>4, SizeOf DEF StreamInv, SizeAt

\* A queued message stays what it is when more are queued.
LEMMA PostKeeps ==
    ASSUME IInv, NEW q \in Queues, NEW p \in Payloads, Post(q, p)
    PROVE  IInv'
  <1>1. /\ posted' = [posted EXCEPT ![q] = Append(@, p)]
        /\ UNCHANGED <<popped, looping, halted, netVars, recvVars>>
    BY DEF Post
  <1>2. /\ posted' \in [Queues -> Seq(Payloads)]
        /\ \A r \in Queues : /\ Len(posted[r]) \in Nat /\ Len(posted'[r]) \in Nat
                             /\ Len(posted[r]) <= Len(posted'[r])
                             /\ \A i \in 1..Len(posted[r]) : posted'[r][i] = posted[r][i]
    BY <1>1 DEF IInv, StreamInv, SendTypes
  <1>3. \A j \in Idx : /\ stream[j][1] \in Queues
                       /\ stream[j][2] \in 1..Len(posted[stream[j][1]])
                       /\ SizeAt(j) = SizeAt(j)'
    <2> SUFFICES ASSUME NEW j \in Idx
                 PROVE  /\ stream[j][1] \in Queues
                        /\ stream[j][2] \in 1..Len(posted[stream[j][1]])
                        /\ SizeAt(j) = SizeAt(j)'
      OBVIOUS
    <2>1. stream[j][1] \in Queues /\ stream[j][2] \in 1..Len(posted[stream[j][1]])
      BY SizeInStream DEF IInv, StreamInv
    <2> QED BY <1>1, <1>2, <2>1 DEF SizeAt, Size, netVars
  <1>4. StreamInv'
    <2>1. SendTypes'
      BY <1>1, <1>2 DEF IInv, StreamInv, SendTypes, netVars
    <2>2. \A j \in Idx : MessageAt(j) => MessageAt(j)'
      BY <1>1, <1>3 DEF MessageAt, Begins, netVars
    <2>3. \A j \in Idx : stream[j][2] \in 1..Len(posted'[stream[j][1]])
      BY <1>2, <1>3
    <2> QED BY <1>1, <2>1, <2>2, <2>3 DEF IInv, StreamInv, Begins, Idx, netVars
  <1>5. RecvInv'
    <2>1. phase = "payload_running" => Start + 1 \in Idx
      BY HeaderAssumption DEF IInv, RecvInv, StreamInv, SendTypes, Start, Idx
    <2> QED BY <1>1, <1>3, <2>1 DEF IInv, RecvInv, Start, Begins, netVars, recvVars
  <1>6. GotInv'
    <2>1. \A r \in Queues : \A i \in 1..Len(got[r]) : i \in 1..Len(posted[r])
      <3> SUFFICES ASSUME NEW r \in Queues, NEW i \in 1..Len(got[r]) PROVE i \in 1..Len(posted[r])
        OBVIOUS
      <3>1. Len(got[r]) \in Nat /\ Len(got[r]) <= popped[r] /\ popped[r] \in Nat /\ popped[r] <= Len(posted[r])
        BY DEF IInv, GotInv, StreamInv, SendTypes
      <3> QED BY <3>1, <1>2
    <2> QED BY <1>1, <1>2, <2>1 DEF IInv, GotInv, Start, Begins, Idx, netVars, recvVars
  <1> QED BY <1>4, <1>5, <1>6 DEF IInv

----------------------------------------------------------------------------
(* Sending *)

\* The first n units of the next message of q are added to the stream, all of
\* them, or some, and then the socket is closed.
Sent(q, n) ==
    /\ link = "up" /\ Waiting(q)
    /\ n \in 1..Size(q, popped[q] + 1)
    /\ stream' = stream \o Units(q, n)
    /\ popped' = IF n = Size(q, popped[q] + 1) THEN [popped EXCEPT ![q] = @ + 1] ELSE popped
    /\ link' = IF n = Size(q, popped[q] + 1) THEN link ELSE "closed"
    /\ looping' \in BOOLEAN
    /\ UNCHANGED <<posted, halted, arrived, recvVars>>

\* A send is that.
LEMMA SendIsSent ==
    ASSUME StreamInv, NEW q \in Queues, link = "up", 0 < Room \/ SendWhole(q),
           SendWhole(q) \/ SendPart(q), looping' \in BOOLEAN,
           UNCHANGED <<posted, halted, arrived, recvVars>>
    PROVE  \E n \in Nat : Sent(q, n)
  <1> DEFINE size == Size(q, popped[q] + 1)
  <1>1. Waiting(q)
    BY DEF SendWhole, SendPart
  <1>2. size \in Nat /\ size > 0
    <2>1. popped[q] + 1 \in 1..Len(posted[q])
      BY <1>1 DEF Waiting, StreamInv, SendTypes
    <2> QED BY <2>1, SizeOf, HeaderAssumption DEF StreamInv
  <1>3. CASE SendWhole(q)
    <2>1. Sent(q, size)
      BY <1>1, <1>2, <1>3 DEF Sent, SendWhole
    <2> QED BY <1>2, <2>1
  <1>4. CASE SendPart(q)
    <2>1. Room \in Int
      BY SendBoundsAssumption DEF Room, Pending, StreamInv, SendTypes
    <2>2. Room \in 1..size /\ Room # size
      BY <1>2, <1>4, <2>1 DEF SendPart
    <2>3. Sent(q, Room)
      BY <1>1, <1>4, <2>2 DEF Sent, SendPart
    <2> QED BY <2>1, <2>2, <2>3
  <1> QED BY <1>3, <1>4

\* What the stream is after that.
LEMMA SentStream ==
    ASSUME StreamInv, NEW q \in Queues, NEW n \in Nat, Sent(q, n)
    PROVE  /\ stream' \in Seq(Unit)
           /\ Len(stream') = Len(stream) + n
           /\ \A j \in Idx : stream'[j] = stream[j]
           /\ \A k \in 1..n : stream'[Len(stream) + k] = <<q, popped[q] + 1, k>>
           /\ Size(q, popped[q] + 1) \in Nat /\ 1 <= n /\ n <= Size(q, popped[q] + 1)
           /\ popped[q] + 1 \in 1..Len(posted[q])
           /\ n = Size(q, popped[q] + 1) =>
                 popped' = [popped EXCEPT ![q] = @ + 1] /\ link' = "up"
           /\ n # Size(q, popped[q] + 1) => popped' = popped /\ link' = "closed"
  <1>1. popped[q] + 1 \in 1..Len(posted[q])
    BY DEF Sent, Waiting, StreamInv, SendTypes
  <1>2. Size(q, popped[q] + 1) \in Nat /\ 1 <= n /\ n <= Size(q, popped[q] + 1)
    BY <1>1, SizeOf DEF Sent, StreamInv
  <1>3. /\ Units(q, n) \in Seq(Unit) /\ Len(Units(q, n)) = n
        /\ \A k \in 1..n : Units(q, n)[k] = <<q, popped[q] + 1, k>>
    <2>1. \A k \in 1..n : <<q, popped[q] + 1, k>> \in Unit
      BY <1>1 DEF Unit
    <2> QED BY <2>1 DEF Units
  <1>4. stream \in Seq(Unit) /\ stream' = stream \o Units(q, n)
    BY DEF StreamInv, SendTypes, Sent
  <1>5. /\ stream' \in Seq(Unit)
        /\ Len(stream') = Len(stream) + n
        /\ \A i \in 1..(Len(stream) + n) :
              stream'[i] = IF i <= Len(stream) THEN stream[i] ELSE Units(q, n)[i - Len(stream)]
    BY <1>3, <1>4, ConcatProperties
  <1>6. \A j \in Idx : stream'[j] = stream[j]
    BY <1>4, <1>5 DEF Idx
  <1>7. \A k \in 1..n : stream'[Len(stream) + k] = <<q, popped[q] + 1, k>>
    <2> SUFFICES ASSUME NEW k \in 1..n
                 PROVE  stream'[Len(stream) + k] = <<q, popped[q] + 1, k>>
      OBVIOUS
    <2>1. /\ Len(stream) \in Nat /\ Len(stream) + k \in 1..(Len(stream) + n)
          /\ ~(Len(stream) + k <= Len(stream)) /\ Len(stream) + k - Len(stream) = k
      BY <1>4
    <2> QED BY <1>3, <1>5, <2>1
  <1> QED BY <1>1, <1>2, <1>5, <1>6, <1>7 DEF Sent

LEMMA SentKeepsStream ==
    ASSUME StreamInv, NEW q \in Queues, NEW n \in Nat, Sent(q, n)
    PROVE  StreamInv'
  <1> DEFINE i == popped[q] + 1
             size == Size(q, i)
  <1>0. PICK L \in Nat : L = Len(stream)
    BY DEF StreamInv, SendTypes
  <1>1. /\ stream' \in Seq(Unit)
        /\ Len(stream') = L + n
        /\ \A j \in Idx : stream'[j] = stream[j]
        /\ \A k \in 1..n : stream'[L + k] = <<q, i, k>>
        /\ size \in Nat /\ 1 <= n /\ n <= size
        /\ i \in 1..Len(posted[q])
        /\ n = size => popped' = [popped EXCEPT ![q] = @ + 1] /\ link' = "up"
        /\ n # size => popped' = popped /\ link' = "closed"
    BY <1>0, SentStream
  <1>2. L = Len(stream) /\ L \in Nat /\ link = "up" /\ posted' = posted /\ arrived' = arrived /\ halted' = halted
        /\ looping' \in BOOLEAN
    BY <1>0 DEF StreamInv, SendTypes, Sent
  <1>3. \A r \in Queues : /\ popped[r] \in Nat /\ popped'[r] \in Nat /\ popped[r] <= popped'[r]
                          /\ popped'[r] = IF r = q /\ n = size THEN i ELSE popped[r]
    BY <1>1 DEF StreamInv, SendTypes
  <1>4. \A j \in Idx' : j \in Idx \/ \E k \in 1..n : j = L + k
    <2> SUFFICES ASSUME NEW j \in Idx', j \notin Idx
                 PROVE  \E k \in 1..n : j = L + k
      OBVIOUS
    <2>1. j - L \in 1..n /\ j = L + (j - L)
      BY <1>1, <1>2 DEF Idx
    <2> QED BY <2>1
  <1>5. \A j \in Idx : SizeAt(j)' = SizeAt(j) /\ (Begins(j)' <=> Begins(j)) /\ j \in Idx'
    BY <1>1, <1>2 DEF SizeAt, Size, Begins, Idx
  <1>6. /\ L + 1 \in Idx' /\ stream'[L + 1] = <<q, i, 1>>
        /\ Begins(L + 1)' /\ SizeAt(L + 1)' = size
    BY <1>1, <1>2 DEF Begins, SizeAt, Size, Idx
  <1>7. \A j \in Idx' : Begins(j)' => j \in Idx \/ j = L + 1
    <2> SUFFICES ASSUME NEW j \in Idx', Begins(j)', j \notin Idx
                 PROVE  j = L + 1
      OBVIOUS
    <2>1. PICK k \in 1..n : j = L + k
      BY <1>4
    <2> QED BY <1>1, <2>1 DEF Begins
  <1>8. SendTypes'
    <2>1. popped' \in [Queues -> Nat]
      <3>1. popped \in [Queues -> Nat] /\ popped[q] + 1 \in Nat
        BY DEF StreamInv, SendTypes
      <3>2. CASE n = size
        BY <1>1, <3>1, <3>2
      <3>3. CASE n # size
        BY <1>1, <3>1, <3>3
      <3> QED BY <3>2, <3>3
    <2>2. ASSUME NEW r \in Queues PROVE popped'[r] <= Len(posted[r])
      <3>1. popped[r] <= Len(posted[r]) /\ i <= Len(posted[q])
        BY <1>1 DEF StreamInv, SendTypes
      <3> QED BY <1>3, <3>1
    <2> QED BY <1>1, <1>2, <2>1, <2>2 DEF StreamInv, SendTypes
  <1>9. Len(stream') > 0 => Begins(1)'
    BY <1>1, <1>2, <1>5, <1>6 DEF StreamInv, Idx
  <1>10. \A j \in Idx' : stream'[j][2] \in 1..Len(posted'[stream'[j][1]])
    <2> SUFFICES ASSUME NEW j \in Idx'
                 PROVE  stream'[j][2] \in 1..Len(posted[stream'[j][1]])
      BY <1>2
    <2>1. CASE j \in Idx
      BY <1>1, <2>1 DEF StreamInv
    <2>2. CASE \E k \in 1..n : j = L + k
      BY <1>1, <2>2
    <2> QED BY <1>4, <2>1, <2>2
  <1>11. ASSUME NEW j \in Idx', Begins(j)' PROVE MessageAt(j)'
    <2>1. CASE j \in Idx
      <3>1. MessageAt(j) /\ SizeAt(j)' = SizeAt(j) /\ stream'[j] = stream[j]
        BY <1>1, <1>5, <1>11, <2>1 DEF StreamInv
      <3>2. SizeAt(j) \in Nat /\ SizeAt(j) > 0 /\ stream[j][1] \in Queues /\ stream[j][2] \in Nat
        BY <2>1, SizeInStream, HeaderAssumption
      <3>3. j + SizeAt(j) - 1 <= L
        BY <1>2, <3>1 DEF MessageAt
      <3>4. \A m \in 1..SizeAt(j) : j + m - 1 \in Idx
        BY <1>2, <2>1, <3>2, <3>3 DEF Idx
      <3>5. \A m \in 1..SizeAt(j) : stream'[j + m - 1] = <<stream'[j][1], stream'[j][2], m>>
        <4> SUFFICES ASSUME NEW m \in 1..SizeAt(j)
                     PROVE  stream'[j + m - 1] = <<stream[j][1], stream[j][2], m>>
          BY <3>1
        <4>1. j + m - 1 \in Idx /\ j + m - 1 <= L
          BY <3>4, <1>2 DEF Idx
        <4>2. stream[j + m - 1] = <<stream[j][1], stream[j][2], m>>
          BY <1>2, <3>1, <4>1 DEF MessageAt
        <4> QED BY <1>1, <4>1, <4>2
      <3>6. j + SizeAt(j)' <= Len(stream') => stream'[j + SizeAt(j)'][3] = 1
        <4>0. PICK e \in Nat : e = j + SizeAt(j)
          BY <3>2, <1>2 DEF Idx
        <4>1. CASE e <= L
          <5>1. e \in Idx /\ Begins(e)
            BY <1>2, <2>1, <3>1, <3>2, <4>0, <4>1 DEF Idx, MessageAt
          <5> QED BY <1>1, <3>1, <4>0, <5>1 DEF Begins
        <4>2. CASE ~(e <= L)
          <5>1. e = L + 1
            BY <1>2, <2>1, <3>2, <3>3, <4>0, <4>2 DEF Idx
          <5> QED BY <1>6, <3>1, <4>0, <5>1
        <4> QED BY <4>1, <4>2
      <3>7. /\ stream[j][2] <= popped[stream[j][1]]
            /\ popped[stream[j][1]] \in Nat /\ popped'[stream[j][1]] \in Nat
            /\ popped[stream[j][1]] <= popped'[stream[j][1]]
        BY <1>2, <1>3, <3>1, <3>2, <3>3 DEF MessageAt
      <3>8. stream'[j][2] <= popped'[stream'[j][1]] /\ stream'[j][2] <= popped'[stream'[j][1]] + 1
        BY <3>1, <3>2, <3>7
      <3>9. j + SizeAt(j)' - 1 <= Len(stream')
        BY <1>1, <1>2, <2>1, <3>1, <3>2, <3>3 DEF Idx
      <3> QED BY <3>1, <3>5, <3>6, <3>8, <3>9 DEF MessageAt, Begins
    <2>2. CASE j = L + 1
      <3>1. stream'[j] = <<q, i, 1>> /\ SizeAt(j)' = size
        BY <1>2, <1>6, <2>2 DEF SizeAt, Size
      <3>2. \A m \in 1..size : j + m - 1 <= L + n => stream'[j + m - 1] = <<q, i, m>>
        <4> SUFFICES ASSUME NEW m \in 1..size, j + m - 1 <= L + n
                     PROVE  stream'[j + m - 1] = <<q, i, m>>
          OBVIOUS
        <4>1. m \in 1..n /\ j + m - 1 = L + m
          BY <1>1, <1>2, <2>2
        <4> QED BY <1>1, <4>1
      <3>3. ~(j + size <= L + n)
        BY <1>1, <1>2, <2>2
      <3>4. j + size - 1 <= L + n => n = size
        BY <1>1, <1>2, <2>2
      <3>5. n = size => popped'[q] = i /\ j + size - 1 <= L + n
        BY <1>1, <1>2, <1>3, <2>2
      <3>6. i <= popped'[q] + 1
        BY <1>1, <1>3
      <3>7. link' = "up" => n = size
        BY <1>1
      <3>8. i \in Nat
        BY <1>1
      <3>9. stream'[j][1] = q /\ stream'[j][2] = i
        BY <3>1
      <3> QED BY <1>1, <3>1, <3>2, <3>3, <3>4, <3>5, <3>6, <3>7, <3>8, <3>9 DEF MessageAt
    <2> QED BY <1>7, <1>11, <2>1, <2>2
  <1>12. ASSUME NEW r \in Queues, NEW h \in 1..popped'[r]
         PROVE  \E j \in Idx' : stream'[j] = <<r, h, 1>>
    <2>1. CASE h \in 1..popped[r]
      <3>1. PICK j \in Idx : stream[j] = <<r, h, 1>>
        BY <2>1 DEF StreamInv
      <3> QED BY <1>1, <1>5, <3>1
    <2>2. CASE h \notin 1..popped[r]
      <3>1. r = q /\ h = i
        BY <1>3, <2>2
      <3> QED BY <1>6, <3>1
    <2> QED BY <2>1, <2>2
  <1>13. ASSUME NEW j \in Idx', NEW k \in Idx', Begins(j)', Begins(k)', j < k,
                stream'[j][1] = stream'[k][1]
         PROVE  stream'[j][2] < stream'[k][2]
    <2>1. CASE k \in Idx
      <3>1. j \in Idx
        BY <1>13, <1>2, <2>1 DEF Idx
      <3> QED BY <1>1, <1>5, <1>13, <2>1, <3>1 DEF StreamInv
    <2>2. CASE k = L + 1
      <3>1. j \in Idx
        BY <1>13, <1>2, <1>7, <2>2 DEF Idx
      <3>2. stream[j][1] = q /\ stream[j][2] \in Nat /\ stream'[j] = stream[j]
        BY <1>1, <1>6, <1>13, <2>2, <3>1, SizeInStream
      <3>3. MessageAt(j)
        BY <1>5, <1>13, <3>1 DEF StreamInv
      <3>4. stream[j][2] <= popped[q]
        BY <1>2, <3>2, <3>3 DEF MessageAt
      <3> QED BY <1>3, <1>6, <2>2, <3>2, <3>4
    <2> QED BY <1>7, <1>13, <2>1, <2>2
  <1> QED BY <1>8, <1>9, <1>10, <1>11, <1>12, <1>13 DEF StreamInv

\* The receiver is inside the stream.
LEMMA Places ==
    ASSUME IInv
    PROVE  /\ Len(stream) \in Nat /\ taken \in Nat /\ arrived \in Nat /\ Len(buffer) \in Nat
           /\ Len(buffer) <= taken /\ taken <= arrived /\ arrived <= Len(stream)
           /\ Start = taken - Len(buffer) /\ Start \in Nat
           /\ Start + Len(buffer) = taken
  <1>1. stream \in Seq(Unit) /\ arrived \in 0..Len(stream)
    BY DEF IInv, StreamInv, SendTypes
  <1>2. taken \in 0..arrived /\ buffer \in Seq(Unit) /\ Len(buffer) <= taken
    BY DEF IInv, RecvInv
  <1>3. Len(stream) \in Nat /\ Len(buffer) \in Nat
    BY <1>1, <1>2
  <1> QED BY <1>1, <1>2, <1>3 DEF Start

\* Nothing of what was received, or is being received, is touched by a send.
LEMMA SentKeepsReceived ==
    ASSUME IInv, NEW q \in Queues, NEW n \in Nat, Sent(q, n)
    PROVE  RecvInv' /\ GotInv'
  <1>0. PICK L \in Nat : L = Len(stream)
    BY DEF IInv, StreamInv, SendTypes
  <1>1. /\ Len(stream') = L + n
        /\ \A j \in Idx : stream'[j] = stream[j]
        /\ \A k \in 1..n : stream'[L + k] = <<q, popped[q] + 1, k>>
        /\ 1 <= n
        /\ n = Size(q, popped[q] + 1) => popped' = [popped EXCEPT ![q] = @ + 1]
        /\ n # Size(q, popped[q] + 1) => popped' = popped
    BY <1>0, SentStream DEF IInv
  <1>2. UNCHANGED <<posted, arrived, taken, phase, buffer, expect, got>>
    BY DEF Sent, recvVars
  <1>3. PICK b \in Nat : b = taken - Len(buffer) /\ b = Start
    BY Places
  <1>4. /\ b + Len(buffer) <= L /\ Len(buffer) \in Nat
        /\ b + 1 <= L => stream[b + 1][3] = 1
        /\ \A k \in 1..Len(buffer) : buffer[k] = stream[b + k]
        /\ phase = "payload_running" =>
              Header <= Len(buffer) /\ Len(buffer) < SizeAt(b + 1) /\ expect = SizeAt(b + 1) - Len(buffer)
        /\ \A j \in Idx : stream[j][3] = 1 => (j <= b <=> stream[j][2] <= Len(got[stream[j][1]]))
    <2>1. b + Len(buffer) <= L /\ Len(buffer) \in Nat
      BY <1>0, <1>3, Places
    <2>2. /\ b + 1 <= Len(stream) => Begins(b + 1)
          /\ \A k \in 1..Len(buffer) : buffer[k] = stream[b + k]
          /\ phase = "payload_running" =>
                Header <= Len(buffer) /\ Len(buffer) < SizeAt(b + 1) /\ expect = SizeAt(b + 1) - Len(buffer)
      BY <1>3 DEF IInv, RecvInv
    <2>3. \A j \in Idx : Begins(j) => (j <= b <=> stream[j][2] <= Len(got[stream[j][1]]))
      BY <1>3 DEF IInv, GotInv
    <2> QED BY <1>0, <2>1, <2>2, <2>3 DEF Begins
  <1>5. \A j \in Idx' : stream'[j][3] = 1 => (j \in Idx /\ stream'[j] = stream[j]) \/ (j = L + 1 /\ stream'[j] = <<q, popped[q] + 1, 1>>)
    <2> SUFFICES ASSUME NEW j \in Idx', stream'[j][3] = 1, j \notin Idx
                 PROVE  j = L + 1 /\ stream'[j] = <<q, popped[q] + 1, 1>>
      BY <1>1
    <2>1. j - L \in 1..n /\ j = L + (j - L)
      BY <1>0, <1>1 DEF Idx
    <2>2. stream'[j] = <<q, popped[q] + 1, j - L>>
      BY <1>1, <2>1
    <2> QED BY <2>1, <2>2
  <1>6. b + 1 <= L + n => stream'[b + 1][3] = 1
    <2>1. CASE b + 1 <= L
      BY <1>0, <1>1, <1>4, <2>1 DEF Idx
    <2>2. CASE ~(b + 1 <= L)
      <3>1. b + 1 = L + 1
        BY <1>4, <2>2
      <3> QED BY <1>1, <3>1
    <2> QED BY <2>1, <2>2
  <1>7. \A k \in 1..Len(buffer) : b + k \in Idx
    BY <1>0, <1>4 DEF Idx
  <1>8. phase = "payload_running" => b + 1 \in Idx
    BY <1>0, <1>4, HeaderAssumption DEF Idx
  <1>9. RecvInv'
    <2>1. \A k \in 1..Len(buffer) : buffer[k] = stream'[b + k]
      BY <1>1, <1>4, <1>7
    <2>2. phase = "payload_running" => stream'[b + 1] = stream[b + 1]
      BY <1>1, <1>8
    <2>3. (phase = "payload_running" =>
            /\ Header <= Len(buffer) /\ Len(buffer) < SizeAt(Start + 1)
            /\ expect = SizeAt(Start + 1) - Len(buffer))'
      <3>1. Start' = b
        BY <1>2, <1>3 DEF Start
      <3>3. SUFFICES ASSUME phase' = "payload_running"
                     PROVE  (/\ Header <= Len(buffer) /\ Len(buffer) < SizeAt(Start + 1)
                             /\ expect = SizeAt(Start + 1) - Len(buffer))'
        OBVIOUS
      <3>4. phase = "payload_running" /\ buffer' = buffer /\ expect' = expect
        BY <1>2, <3>3
      <3>5. SizeAt(Start + 1)' = SizeAt(b + 1)
        BY <1>2, <2>2, <3>1, <3>4 DEF SizeAt, Size
      <3> QED BY <1>4, <3>4, <3>5
    <2>4. taken' \in 0..arrived' /\ phase' \in Phases /\ expect' \in Nat /\ buffer' \in Seq(Unit) /\ Len(buffer') <= taken'
      BY <1>2 DEF IInv, RecvInv
    <2>5. (Start + 1 <= Len(stream) => Begins(Start + 1))'
      BY <1>0, <1>1, <1>2, <1>3, <1>6 DEF Begins, Start
    <2>7. (\A k \in 1..Len(buffer) : buffer[k] = stream[Start + k])'
      BY <1>2, <1>3, <2>1 DEF Start
    <2>8. /\ (phase = "header_ready" => Len(buffer) = 0)'
          /\ (phase = "header_running" => Len(buffer) < Header /\ expect = Header - Len(buffer))'
          /\ (phase = "header_ok" => Len(buffer) = Header)'
      BY <1>2 DEF IInv, RecvInv
    <2> QED BY <2>3, <2>4, <2>5, <2>7, <2>8 DEF RecvInv
  <1>10. GotInv'
    <2>1. \A r \in Queues : /\ Len(got[r]) \in Nat /\ popped[r] \in Nat
                            /\ popped'[r] \in Nat /\ popped[r] <= popped'[r]
      <3> SUFFICES ASSUME NEW r \in Queues
                   PROVE  /\ Len(got[r]) \in Nat /\ popped[r] \in Nat
                          /\ popped'[r] \in Nat /\ popped[r] <= popped'[r]
        OBVIOUS
      <3>1. popped \in [Queues -> Nat] /\ got[r] \in Seq(Payloads)
        BY DEF IInv, GotInv, StreamInv, SendTypes
      <3>2. CASE n = Size(q, popped[q] + 1)
        BY <1>1, <3>1, <3>2
      <3>3. CASE n # Size(q, popped[q] + 1)
        BY <1>1, <3>1, <3>3
      <3> QED BY <3>2, <3>3
    <2>2. \A r \in Queues : Len(got[r]) <= popped'[r]
      BY <2>1 DEF IInv, GotInv
    <2>3. ASSUME NEW j \in Idx', stream'[j][3] = 1
          PROVE  j <= b <=> stream'[j][2] <= Len(got[stream'[j][1]])
      <3>1. CASE j \in Idx /\ stream'[j] = stream[j]
        BY <1>4, <2>3, <3>1
      <3>2. CASE j = L + 1 /\ stream'[j] = <<q, popped[q] + 1, 1>>
        <4>1. ~(j <= b)
          BY <1>4, <3>2
        <4>2. Len(got[q]) <= popped[q] /\ Len(got[q]) \in Nat /\ popped[q] \in Nat
          BY <2>1 DEF IInv, GotInv
        <4> QED BY <3>2, <4>1, <4>2
      <3> QED BY <1>5, <2>3, <3>1, <3>2
    <2>4. (\A j \in Idx : Begins(j) => (j <= Start <=> stream[j][2] <= Len(got[stream[j][1]])))'
      BY <1>2, <1>3, <2>3 DEF Begins, Start
    <2>5. (\A r \in Queues : Len(got[r]) <= popped[r])'
      BY <1>2, <2>2
    <2>6. /\ (got \in [Queues -> Seq(Payloads)])'
          /\ (\A r \in Queues : \A i \in 1..Len(got[r]) : got[r][i] = posted[r][i])'
      BY <1>2 DEF IInv, GotInv
    <2> QED BY <2>4, <2>5, <2>6 DEF GotInv
  <1> QED BY <1>9, <1>10

----------------------------------------------------------------------------
(* Receiving *)

\* What is asked for completes the header, or the message.
LEMMA AskedIs ==
    ASSUME IInv
    PROVE  /\ Asked \in Nat /\ Asked > 0
           /\ InHeader => Len(buffer) + Asked = Header
           /\ ~InHeader => /\ Start + 1 \in Idx /\ Header <= Len(buffer)
                          /\ Len(buffer) + Asked = SizeAt(Start + 1)
  <1>1. /\ phase \in Phases /\ expect \in Nat
        /\ phase = "header_ready" => Len(buffer) = 0
        /\ phase = "header_running" => Len(buffer) < Header /\ expect = Header - Len(buffer)
        /\ phase = "header_ok" => Len(buffer) = Header
        /\ phase = "payload_running" =>
              /\ Header <= Len(buffer) /\ Len(buffer) < SizeAt(Start + 1)
              /\ expect = SizeAt(Start + 1) - Len(buffer)
    BY DEF IInv, RecvInv
  <1>2. Len(buffer) \in Nat /\ Start \in Nat /\ Start + Len(buffer) <= Len(stream) /\ Len(stream) \in Nat
    BY Places
  <1>3. CASE InHeader
    BY <1>1, <1>2, <1>3, HeaderAssumption DEF InHeader, Asked
  <1>4. CASE ~InHeader
    <2>1. Header <= Len(buffer)
      BY <1>1, <1>2, <1>4, HeaderAssumption DEF InHeader, Phases
    <2>2. Start + 1 \in Idx
      BY <1>2, <2>1, HeaderAssumption DEF Idx
    <2>3. SizeAt(Start + 1) \in Nat /\ SizeAt(Start + 1) > Header
      BY <2>2, SizeInStream DEF IInv
    <2>4. CASE phase = "payload_running"
      BY <1>1, <1>2, <1>4, <2>1, <2>2, <2>3, <2>4 DEF Asked
    <2>5. CASE phase = "header_ok"
      <3>1. 1 \in 1..Len(buffer)
        BY <1>2, <2>1, HeaderAssumption
      <3>2. buffer[1] = stream[Start + 1]
        BY <3>1 DEF IInv, RecvInv
      <3>3. Asked = posted[stream[Start + 1][1]][stream[Start + 1][2]]
        BY <2>5, <3>2 DEF Asked
      <3>4. posted[stream[Start + 1][1]][stream[Start + 1][2]] \in Nat \ {0}
        <4>1. /\ stream[Start + 1][1] \in Queues
              /\ stream[Start + 1][2] \in 1..Len(posted[stream[Start + 1][1]])
          BY <2>2, SizeInStream DEF IInv, StreamInv
        <4>2. posted[stream[Start + 1][1]][stream[Start + 1][2]] \in Payloads
          BY <4>1, SizeOf DEF IInv, StreamInv
        <4> QED BY <4>2, PayloadsAssumption
      <3>5. SizeAt(Start + 1) = Header + Asked
        BY <3>3 DEF SizeAt, Size
      <3> QED BY <1>1, <1>4, <2>1, <2>2, <2>5, <3>3, <3>4, <3>5, HeaderAssumption
    <2> QED BY <1>1, <1>4, <2>4, <2>5 DEF InHeader, Phases
  <1> QED BY <1>3, <1>4

\* The buffer is filled with what follows in the stream.
LEMMA ReceivedIs ==
    ASSUME IInv
    PROVE  /\ Available \in Nat /\ Available <= Asked /\ taken + Available <= arrived
           /\ Received \in Seq(Unit)
           /\ Len(Received) = Len(buffer) + Available
           /\ \A k \in 1..(Len(buffer) + Available) : Received[k] = stream[Start + k]
  <1>1. Available \in Nat /\ Available <= Asked /\ taken + Available <= arrived
    <2>1. Asked \in Nat /\ arrived \in Nat /\ taken \in Nat /\ taken <= arrived
      BY AskedIs, Places
    <2>2. CASE arrived - taken < Asked
      BY <2>1, <2>2 DEF Available
    <2>3. CASE ~(arrived - taken < Asked)
      <3>1. Available = Asked
        BY <2>3 DEF Available
      <3> QED BY <2>1, <2>3, <3>1
    <2> QED BY <2>2, <2>3
  <1>2. PICK n \in Nat : n = Available
    BY <1>1
  <1>3. PICK t \in Nat : t = taken
    BY Places
  <1> DEFINE more == [k \in 1..n |-> stream[t + k]]
  <1>4. \A k \in 1..n : stream[t + k] \in Unit
    <2>1. stream \in Seq(Unit)
      BY DEF IInv, StreamInv, SendTypes
    <2>2. \A k \in 1..n : t + k \in 1..Len(stream)
      BY <1>1, <1>2, <1>3, Places
    <2> SUFFICES ASSUME NEW k \in 1..n PROVE stream[t + k] \in Unit
      OBVIOUS
    <2>3. t + k \in 1..Len(stream)
      BY <2>2
    <2> QED BY <2>1, <2>3
  <1>5. more \in Seq(Unit) /\ Len(more) = n /\ \A k \in 1..n : more[k] = stream[t + k]
    BY <1>4
  <1>6. Received = buffer \o more
    BY <1>2, <1>3 DEF Received
  <1>7. buffer \in Seq(Unit) /\ \A k \in 1..Len(buffer) : buffer[k] = stream[Start + k]
    BY DEF IInv, RecvInv
  <1> HIDE DEF more
  <1>8. /\ Received \in Seq(Unit)
        /\ Len(Received) = Len(buffer) + n
        /\ \A k \in 1..(Len(buffer) + n) :
              Received[k] = IF k <= Len(buffer) THEN buffer[k] ELSE more[k - Len(buffer)]
    BY <1>5, <1>6, <1>7, ConcatProperties
  <1>9. \A k \in 1..(Len(buffer) + n) : Received[k] = stream[Start + k]
    <2> SUFFICES ASSUME NEW k \in 1..(Len(buffer) + n)
                 PROVE  Received[k] = stream[Start + k]
      OBVIOUS
    <2>1. Len(buffer) \in Nat /\ Start \in Nat /\ Start + Len(buffer) = t
      BY <1>3, Places
    <2>2. CASE k <= Len(buffer)
      BY <1>7, <1>8, <2>1, <2>2
    <2>3. CASE ~(k <= Len(buffer))
      <3>1. k - Len(buffer) \in 1..n /\ t + (k - Len(buffer)) = Start + k
        BY <2>1, <2>3
      <3>2. Received[k] = more[k - Len(buffer)]
        BY <1>8, <2>3
      <3>3. more[k - Len(buffer)] = stream[t + (k - Len(buffer))]
        BY <1>5, <3>1
      <3> QED BY <3>1, <3>2, <3>3
    <2> QED BY <2>2, <2>3
  <1> QED BY <1>1, <1>2, <1>8, <1>9

\* A part of a header or of a payload, and the end of a header.
LEMMA RecvMore ==
    ASSUME IInv, Recv, RecvPart \/ RecvHeader
    PROVE  RecvInv' /\ GotInv' /\ UNCHANGED got
  <1>1. UNCHANGED <<sendVars, netVars, got>> /\ taken' = taken + Available /\ buffer' = Received
    BY DEF Recv, RecvPart, RecvHeader
  <1>2. UNCHANGED <<posted, popped, link, stream, arrived>>
    BY <1>1 DEF sendVars, netVars
  <1>3. Start' = Start /\ Start \in Nat
    <2>1. Len(buffer') = Len(buffer) + Available /\ Available \in Nat
      BY <1>1, ReceivedIs
    <2>2. Start' = taken' - Len(buffer')
      BY DEF Start
    <2> QED BY <1>1, <2>1, <2>2, Places
  <1>4. /\ taken' \in 0..arrived' /\ buffer' \in Seq(Unit)
        /\ Len(buffer') = Len(buffer) + Available /\ Len(buffer') <= taken'
        /\ Len(buffer') \in Nat
    BY <1>1, <1>2, ReceivedIs, Places
  <1>5. \A k \in 1..Len(buffer') : buffer'[k] = stream'[Start' + k]
    BY <1>1, <1>2, <1>3, <1>4, ReceivedIs
  <1>6. (Start + 1 <= Len(stream) => Begins(Start + 1))'
    BY <1>2, <1>3 DEF IInv, RecvInv, Begins
  <1>7. SizeAt(Start + 1)' = SizeAt(Start + 1)
    BY <1>2, <1>3 DEF SizeAt, Size
  <1>8. /\ phase' \in Phases /\ expect' \in Nat
        /\ phase' = "header_ready" => Len(buffer') = 0
        /\ phase' = "header_running" => Len(buffer') < Header /\ expect' = Header - Len(buffer')
        /\ phase' = "header_ok" => Len(buffer') = Header
        /\ phase' = "payload_running" =>
              /\ Header <= Len(buffer') /\ Len(buffer') < SizeAt(Start + 1)'
              /\ expect' = SizeAt(Start + 1)' - Len(buffer')
    <2>1. /\ Asked \in Nat /\ Available \in Nat /\ Available <= Asked /\ Len(buffer) \in Nat
          /\ InHeader => Len(buffer) + Asked = Header
          /\ ~InHeader => Header <= Len(buffer) /\ Len(buffer) + Asked = SizeAt(Start + 1)
      BY AskedIs, ReceivedIs, Places
    <2>2. CASE RecvHeader
      BY <1>4, <2>1, <2>2, HeaderAssumption DEF RecvHeader, Phases
    <2>3. CASE RecvPart /\ InHeader
      BY <1>4, <2>1, <2>3, HeaderAssumption DEF RecvPart, Phases
    <2>4. CASE RecvPart /\ ~InHeader
      <3>1. /\ phase' = "payload_running" /\ expect' = Asked - Available /\ Available < Asked
        BY <2>4 DEF RecvPart
      <3> QED BY <1>4, <1>7, <2>1, <2>4, <3>1, HeaderAssumption DEF Phases
    <2> QED BY <2>2, <2>3, <2>4
  <1>9. RecvInv'
    BY <1>4, <1>5, <1>6, <1>8 DEF RecvInv
  <1>10. GotInv'
    BY <1>1, <1>2, <1>3 DEF IInv, GotInv, Begins, Idx
  <1> QED BY <1>1, <1>9, <1>10

\* The message at the place of the receiver is the next of its queue.
LEMMA NextOfQueue ==
    ASSUME IInv, Start + 1 \in Idx, Start + SizeAt(Start + 1) <= Len(stream)
    PROVE  /\ Begins(Start + 1) /\ MessageAt(Start + 1)
           /\ stream[Start + 1][2] = Len(got[stream[Start + 1][1]]) + 1
           /\ stream[Start + 1][2] <= popped[stream[Start + 1][1]]
  <1>1. PICK b \in Nat : b = Start
    BY Places
  <1>2. PICK q \in Queues, i \in Nat : q = stream[b + 1][1] /\ i = stream[b + 1][2]
    BY <1>1, SizeInStream DEF IInv
  <1>3. Begins(b + 1) /\ b + 1 \in Idx /\ Len(stream) \in Nat
    BY <1>1, Places DEF IInv, RecvInv, Idx
  <1>4. MessageAt(b + 1)
    BY <1>3 DEF IInv, StreamInv
  <1>5. i <= popped[q]
    <2>1. SizeAt(b + 1) \in Nat /\ b + SizeAt(b + 1) <= Len(stream)
      BY <1>1, <1>3, SizeInStream DEF IInv
    <2>2. b + 1 + SizeAt(b + 1) - 1 <= Len(stream)
      BY <2>1
    <2> QED BY <1>2, <1>4, <2>2 DEF MessageAt
  <1>6. PICK g \in Nat : g = Len(got[q])
    BY <1>2 DEF IInv, GotInv
  <1>7. ~(i <= g)
    <2>1. b + 1 <= b <=> i <= g
      BY <1>1, <1>2, <1>3, <1>6 DEF IInv, GotInv
    <2> QED BY <2>1
  <1>8. ~(g + 1 < i)
    <2> SUFFICES ASSUME g + 1 < i
                 PROVE  FALSE
      OBVIOUS
    <2>1. popped[q] \in Nat
      BY DEF IInv, StreamInv, SendTypes
    <2>2. g + 1 \in 1..popped[q]
      BY <1>5, <2>1
    <2>3. PICK j \in Idx : stream[j] = <<q, g + 1, 1>>
      BY <2>2 DEF IInv, StreamInv
    <2>4. Begins(j) /\ stream[j][1] = q /\ stream[j][2] = g + 1
      BY <2>3 DEF Begins
    <2>5. j <= b <=> g + 1 <= g
      BY <1>1, <1>6, <2>3, <2>4 DEF IInv, GotInv
    <2>6. j # b + 1
      BY <1>2, <2>4
    <2>7. b + 1 < j /\ j \in Nat
      BY <2>5, <2>6, <1>3 DEF Idx
    <2>8. i < g + 1
      BY <1>2, <1>3, <2>3, <2>4, <2>7 DEF IInv, StreamInv
    <2> QED BY <2>8
  <1> QED BY <1>1, <1>2, <1>3, <1>4, <1>5, <1>6, <1>7, <1>8

\* The end of a payload.
LEMMA RecvLast ==
    ASSUME IInv, Recv, RecvPayload
    PROVE  RecvInv' /\ GotInv' /\ \E q \in Queues : Channel!Deliver(q)
  <1>1. /\ UNCHANGED <<posted, popped, link, stream, arrived>>
        /\ taken' = taken + Available
        /\ phase' = "header_ready" /\ buffer' = <<>> /\ expect' = Asked
        /\ got' = [got EXCEPT ![buffer[1][1]] = Append(@, Payload(Received))]
        /\ Available = Asked
    BY DEF Recv, RecvPayload, sendVars, netVars
  <1>2. PICK b \in Nat : b = Start
    BY Places
  <1>3. /\ b + 1 \in Idx /\ Header <= Len(buffer) /\ Len(buffer) \in Nat
        /\ Len(buffer) + Available = SizeAt(b + 1) /\ Available \in Nat
    BY <1>1, <1>2, AskedIs, ReceivedIs, Places DEF RecvPayload
  <1>4. PICK s \in Nat : s = SizeAt(b + 1) /\ s > Header
    BY <1>3, SizeInStream DEF IInv
  <1>5. taken' = b + s /\ b + s <= arrived /\ arrived <= Len(stream)
    <2>1. taken' = taken + Available
      BY <1>1
    <2>2. Len(buffer) + Available = s /\ Len(buffer) \in Nat /\ Available \in Nat
      BY <1>3, <1>4
    <2>3. taken \in Nat /\ b + Len(buffer) = taken
      BY <1>2, Places
    <2>4. taken + Available <= arrived
      BY ReceivedIs
    <2>5. arrived <= Len(stream)
      BY Places
    <2> QED BY <2>1, <2>2, <2>3, <2>4, <2>5
  <1>6. PICK q \in Queues, i \in Nat : q = stream[b + 1][1] /\ i = stream[b + 1][2] /\ i >= 1
    BY <1>3, SizeInStream DEF IInv
  <1>7. /\ Begins(b + 1) /\ MessageAt(b + 1) /\ i = Len(got[q]) + 1 /\ i <= popped[q]
        /\ Len(got[q]) \in Nat /\ s = Size(q, i)
    <2>1. b + s <= Len(stream)
      BY <1>4, <1>5, Places
    <2>2. Start + 1 \in Idx /\ Start + SizeAt(Start + 1) <= Len(stream)
      BY <1>2, <1>3, <1>4, <2>1
    <2>3. got[q] \in Seq(Payloads)
      BY DEF IInv, GotInv
    <2> QED BY <1>2, <1>4, <1>6, <2>2, <2>3, NextOfQueue DEF SizeAt
  <1>8. ASSUME NEW k \in 1..s PROVE Received[k] = <<q, i, k>>
    <2>1. Received[k] = stream[b + k]
      BY <1>2, <1>3, <1>4, ReceivedIs
    <2>2. b + 1 + k - 1 <= Len(stream) /\ b + 1 + k - 1 = b + k
      BY <1>4, <1>5, Places
    <2> QED BY <1>4, <1>6, <1>7, <2>1, <2>2 DEF MessageAt
  <1>9. Payload(Received) = posted[q][i] /\ posted[q][i] \in Payloads
    <2>1. Received[1] = <<q, i, 1>>
      BY <1>4, <1>8, HeaderAssumption
    <2>2. Len(Received) = s
      BY <1>3, <1>4, ReceivedIs
    <2>3. IsMessage(Received, q, i)
      BY <1>7, <1>8, <2>2 DEF IsMessage
    <2>4. i \in 1..Len(posted[q])
      BY <1>3, <1>6 DEF IInv, StreamInv
    <2> QED BY <2>1, <2>3, <2>4, SizeOf DEF Payload, IInv, StreamInv
  <1>10. buffer[1][1] = q
    <2>1. buffer[1] = stream[b + 1]
      BY <1>2, <1>3, HeaderAssumption DEF IInv, RecvInv
    <2> QED BY <1>6, <2>1
  <1>11. got' = [got EXCEPT ![q] = Append(got[q], posted[q][i])]
    BY <1>1, <1>9, <1>10
  <1>12. /\ got' \in [Queues -> Seq(Payloads)]
         /\ Len(got'[q]) = i
         /\ \A h \in 1..(i - 1) : got'[q][h] = got[q][h]
         /\ got'[q][i] = posted[q][i]
         /\ \A r \in Queues : r # q => got'[r] = got[r]
    <2>1. got \in [Queues -> Seq(Payloads)] /\ got[q] \in Seq(Payloads)
      BY DEF IInv, GotInv
    <2>2. PICK p \in Payloads, old \in Seq(Payloads) : p = posted[q][i] /\ old = got[q]
      BY <1>9, <2>1
    <2>3. PICK new \in Seq(Payloads) : new = Append(old, p)
      BY <2>2, AppendProperties
    <2>4. Len(new) = i /\ (\A h \in 1..(i - 1) : new[h] = old[h]) /\ new[i] = p
      BY <1>7, <2>2, <2>3, AppendProperties
    <2>5. got' = [got EXCEPT ![q] = new]
      BY <1>11, <2>2, <2>3
    <2> QED BY <2>1, <2>2, <2>4, <2>5
  <1>13. Channel!Deliver(q)
    <2>1. popped[q] \in Nat /\ popped[q] <= Len(posted[q]) /\ Len(posted[q]) \in Nat
      BY DEF IInv, StreamInv, SendTypes
    <2>2. Len(got[q]) < Len(posted[q])
      BY <1>7, <2>1
    <2> QED BY <1>1, <1>7, <1>11, <2>2 DEF Channel!Deliver
  <1>14. PICK c \in Nat : c = Start' /\ c = b + s
    BY <1>1, <1>5 DEF Start
  <1>15. RecvInv'
    <2>1. c + 1 <= Len(stream) => stream[c + 1][3] = 1
      BY <1>4, <1>7, <1>14 DEF MessageAt, Begins
    <2>2. taken' \in 0..arrived' /\ expect' \in Nat /\ phase' \in Phases
      BY <1>1, <1>5, AskedIs, Places DEF Phases
    <2>3. buffer' \in Seq(Unit) /\ Len(buffer') = 0
      BY <1>1
    <2> QED BY <1>1, <1>5, <1>14, <2>1, <2>2, <2>3 DEF RecvInv, Begins
  <1>16. GotInv'
    <2>1. \A r \in Queues : Len(got'[r]) <= popped'[r]
      BY <1>1, <1>7, <1>12 DEF IInv, GotInv
    <2>2. ASSUME NEW r \in Queues, NEW h \in 1..Len(got'[r])
          PROVE  got'[r][h] = posted'[r][h]
      <3>1. CASE r # q
        BY <1>1, <1>12, <2>2, <3>1 DEF IInv, GotInv
      <3>2. CASE r = q /\ h # i
        <4>1. h \in 1..(i - 1) /\ h \in 1..Len(got[q])
          BY <1>7, <1>12, <3>2
        <4> QED BY <1>1, <1>12, <3>2, <4>1 DEF IInv, GotInv
      <3>3. CASE r = q /\ h = i
        BY <1>1, <1>12, <3>3
      <3> QED BY <3>1, <3>2, <3>3
    <2>3. ASSUME NEW j \in Idx, Begins(j)
          PROVE  j <= c <=> stream[j][2] <= Len(got'[stream[j][1]])
      <3>1. PICK r \in Queues, h \in Nat : r = stream[j][1] /\ h = stream[j][2]
        BY SizeInStream DEF IInv
      <3>2. (j <= b <=> h <= Len(got[r])) /\ j \in Nat /\ Len(got[r]) \in Nat
        BY <1>2, <2>3, <3>1 DEF IInv, GotInv, Idx
      <3>a. Len(got'[r]) = IF r = q THEN i ELSE Len(got[r])
        BY <1>12
      <3>b. j <= c <=> j <= b + s
        BY <1>14
      <3>c. (r = q => i = Len(got[r]) + 1) /\ s > 0
        BY <1>4, <1>7, HeaderAssumption
      <3>3. CASE j <= b
        <4>1. j <= b + s /\ h <= Len(got[r])
          BY <3>2, <3>3, <3>c
        <4> QED BY <3>1, <3>2, <3>a, <3>b, <3>c, <4>1
      <3>4. CASE j = b + 1
        <4>1. r = q /\ h = i /\ j <= b + s
          BY <1>4, <1>6, <3>1, <3>4, <3>c
        <4> QED BY <3>1, <3>a, <3>b, <4>1
      <3>5. CASE b + 1 < j /\ j <= b + s
        <4>1. j - b \in 1..s /\ b + 1 + (j - b) - 1 = j /\ j <= Len(stream)
          BY <3>2, <3>5, Places DEF Idx
        <4>2. stream[j] = <<q, i, j - b>>
          BY <1>4, <1>6, <1>7, <4>1 DEF MessageAt
        <4>3. j - b = 1
          BY <2>3, <4>2 DEF Begins
        <4> QED BY <3>2, <3>5, <4>3
      <3>6. CASE b + s < j
        <4>1. b + 1 < j /\ ~(j <= b) /\ ~(j <= c)
          BY <1>4, <1>14, <3>2, <3>6, HeaderAssumption
        <4>2. r = q => i < h
          BY <1>3, <1>6, <1>7, <2>3, <3>1, <4>1 DEF IInv, StreamInv
        <4> QED BY <1>7, <1>12, <3>1, <3>2, <4>1, <4>2
      <3> QED BY <3>2, <3>3, <3>4, <3>5, <3>6
    <2> QED BY <1>1, <1>12, <1>14, <2>1, <2>2, <2>3 DEF GotInv, Begins, Idx
  <1> QED BY <1>13, <1>15, <1>16

----------------------------------------------------------------------------
(* The theorems *)

\* The invariant holds initially.
LEMMA InitIInv == Init => IInv
  <1> SUFFICES ASSUME Init PROVE IInv
    OBVIOUS
  <1>1. stream = <<>> /\ Len(stream) = 0 /\ Idx = {}
    BY DEF Init, Idx
  <1>2. \A q \in Queues : posted[q] = <<>> /\ popped[q] = 0 /\ got[q] = <<>>
    BY DEF Init
  <1>3. StreamInv
    <2>1. posted \in [Queues -> Seq(Payloads)] /\ popped \in [Queues -> Nat]
      BY DEF Init
    <2>2. \A q \in Queues : popped[q] <= Len(posted[q])
      BY <1>2
    <2>3. stream \in Seq(Unit) /\ arrived \in 0..Len(stream)
      BY <1>1 DEF Init
    <2>4. SendTypes
      BY <2>1, <2>2, <2>3 DEF Init, SendTypes
    <2> QED BY <1>1, <1>2, <2>4 DEF StreamInv
  <1>4. RecvInv
    BY <1>1 DEF Init, RecvInv, Start, Phases
  <1>5. GotInv
    BY <1>1, <1>2 DEF Init, GotInv
  <1> QED BY <1>3, <1>4, <1>5 DEF IInv

\* A send keeps the invariant, and says nothing of what was queued or handled.
LEMMA SendKeeps ==
    ASSUME IInv, NEW q \in Queues, link = "up", SendWhole(q) \/ SendPart(q),
           looping' \in BOOLEAN, UNCHANGED <<posted, halted, arrived, recvVars>>
    PROVE  IInv' /\ UNCHANGED <<posted, got>>
  <1>1. 0 < Room \/ SendWhole(q)
    BY DEF SendPart
  <1>2. PICK n \in Nat : Sent(q, n)
    BY <1>1, SendIsSent DEF IInv
  <1>3. StreamInv'
    BY <1>2, SentKeepsStream DEF IInv
  <1>4. RecvInv' /\ GotInv'
    BY <1>2, SentKeepsReceived
  <1> QED BY <1>3, <1>4 DEF IInv, recvVars

\* Nothing of the invariant depends on the loop or on a program that has
\* stopped, and units that arrive only give the receiver more room.
LEMMA QuietKeeps ==
    ASSUME IInv, UNCHANGED <<posted, popped, stream, recvVars>>,
           looping' \in BOOLEAN, halted' \in BOOLEAN,
           link' = link \/ link' = "gone",
           arrived' \in arrived..Len(stream)
    PROVE  IInv' /\ UNCHANGED <<posted, got>>
  <1>1. UNCHANGED <<posted, popped, stream, taken, phase, buffer, expect, got>>
    BY DEF recvVars
  <1>2. SendTypes'
    BY <1>1 DEF IInv, StreamInv, SendTypes
  <1>3. \A j \in Idx : MessageAt(j) => MessageAt(j)'
    BY <1>1 DEF MessageAt, SizeAt, Size, Begins
  <1>4. StreamInv'
    BY <1>1, <1>2, <1>3 DEF IInv, StreamInv, Idx, Begins
  <1>5. taken' \in 0..arrived'
    <2>1. arrived' \in Nat /\ arrived <= arrived'
      BY Places
    <2> QED BY <1>1, <2>1, Places
  <1>6. RecvInv'
    BY <1>1, <1>5 DEF IInv, RecvInv, Start, Begins, SizeAt, Size
  <1>7. GotInv'
    BY <1>1 DEF IInv, GotInv, Start, Begins, Idx
  <1> QED BY <1>1, <1>4, <1>6, <1>7 DEF IInv

\* Every step keeps the invariant, and is one of the channel, or nothing to it.
LEMMA StepIInv ==
    ASSUME IInv, [Next]_vars
    PROVE  IInv' /\ [Channel!Next]_<<posted, got>>
  <1>1. looping \in BOOLEAN /\ halted \in BOOLEAN /\ arrived \in arrived..Len(stream)
    BY Places DEF IInv, StreamInv, SendTypes
  <1>2. ASSUME NEW q \in Queues, NEW p \in Payloads, Post(q, p)
        PROVE  IInv' /\ Channel!Next
    <2>1. IInv'
      BY <1>2, PostKeeps
    <2>2. Channel!Post(q, p)
      BY <1>2 DEF Post, Channel!Post, recvVars
    <2> QED BY <2>1, <2>2 DEF Channel!Next
  <1>3. CASE SendCtrl
    <2>1. /\ link = "up" /\ "ctrl" \in Queues
          /\ SendWhole("ctrl") \/ SendPart("ctrl")
          /\ UNCHANGED <<posted, halted, arrived, recvVars>>
      BY <1>3 DEF SendCtrl, Writable, Queues
    <2>2. looping' \in BOOLEAN
      BY <1>3 DEF SendCtrl
    <2> QED BY <2>1, <2>2, SendKeeps
  <1>4. CASE SendData
    <2>1. /\ link = "up" /\ "data" \in Queues
          /\ SendWhole("data") \/ SendPart("data")
          /\ UNCHANGED <<posted, halted, arrived, recvVars>> /\ looping' = looping
      BY <1>4 DEF SendData, Writable, Queues
    <2> QED BY <1>1, <2>1, SendKeeps
  <1>5. CASE SendCtrlFull
    BY <1>1, <1>5, QuietKeeps DEF SendCtrlFull, netVars
  <1>6. CASE SendCtrlRest
    BY <1>1, <1>6, QuietKeeps DEF SendCtrlRest, netVars
  <1>7. CASE Transmit
    <2>1. arrived' \in arrived..Len(stream)
      BY <1>7, Places DEF Transmit
    <2> QED BY <1>1, <1>7, <2>1, QuietKeeps DEF Transmit, sendVars
  <1>8. CASE Break
    BY <1>1, <1>8, QuietKeeps DEF Break, sendVars
  <1>9. CASE Recv
    <2>1. UNCHANGED <<sendVars, netVars>>
      BY <1>9 DEF Recv
    <2>2. StreamInv'
      <3>1. UNCHANGED <<posted, popped, looping, halted, link, stream, arrived>>
        BY <2>1 DEF sendVars, netVars
      <3>2. \A j \in Idx : MessageAt(j) => MessageAt(j)'
        BY <3>1 DEF MessageAt, SizeAt, Size, Begins
      <3> QED BY <3>1, <3>2 DEF IInv, StreamInv, SendTypes, Begins, Idx
    <2>3. CASE RecvPart \/ RecvHeader
      BY <1>9, <2>1, <2>2, <2>3, RecvMore DEF IInv, sendVars
    <2>4. CASE RecvPayload
      BY <1>9, <2>2, <2>4, RecvLast DEF IInv, Channel!Next
    <2> QED BY <1>9, <2>3, <2>4 DEF Recv
  <1>10. CASE UNCHANGED vars
    BY <1>1, <1>10, QuietKeeps DEF vars, sendVars, netVars
  <1> QED BY <1>2, <1>3, <1>4, <1>5, <1>6, <1>7, <1>8, <1>9, <1>10 DEF Next, HandleOut

\* The stream is a row of messages, and the receiver is in step with it.
THEOREM FramingInvariant == Spec => []IInv
  BY InitIInv, StepIInv, PTL DEF Spec

\* Every variable keeps its type, the lengths a message part may have among them.
THEOREM FramingTypeCorrect == Spec => []TypeOK
  <1>1. IInv => TypeOK
    <2> SUFFICES ASSUME IInv PROVE TypeOK
      OBVIOUS
    <2>1. Payloads \subseteq Nat
      BY PayloadsAssumption
    <2>2. got \in [Queues -> Seq(Nat)]
      <3>1. got \in [Queues -> Seq(Payloads)]
        BY DEF IInv, GotInv
      <3>2. \A q \in Queues : got[q] \in Seq(Nat)
        BY <2>1, <3>1, SeqMonotonic
      <3> QED BY <3>1, <3>2
    <2> QED BY <2>2 DEF IInv, StreamInv, SendTypes, RecvInv, TypeOK, Unit
  <1> QED BY <1>1, FramingInvariant, PTL

\* A connection is a channel of messages: they are handled whole, in order and
\* at most once, however nonblock_send and nonblock_recv cut them, and also
\* when the socket is closed with a part of one sent.
THEOREM FramingIsChannel == Spec => ChannelSpec
  <1>1. Init => Channel!Init
    BY DEF Init, Channel!Init
  <1>2. IInv /\ [Next]_vars => [Channel!Next]_<<posted, got>>
    BY StepIInv
  <1> QED BY <1>1, <1>2, FramingInvariant, PTL DEF Spec, ChannelSpec, Channel!Spec
=============================================================================
