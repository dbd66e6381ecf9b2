------------------------------- MODULE Framing -------------------------------
(***************************************************************************)
(* One direction of a UDT connection between two peers.                    *)
(*                                                                         *)
(* A socket has a queue of control messages and one of data, which         *)
(* handle_pkt_out_udp sends with nonblock_send, control messages first.    *)
(* UDT carries a stream.  The other end receives with nonblock_recv, which *)
(* may get any part of what it asks for: first a header of known size, and *)
(* then a payload of the length named in the header.                       *)
(*                                                                         *)
(* A unit of the stream is <<queue, index, part>>: part of the message     *)
(* that was put into the queue as number index.  The header (its first     *)
(* unit) names kind and length of the message.  MaxPosts bounds the        *)
(* messages of a queue.                                                    *)
(***************************************************************************)
EXTENDS Integers, Sequences

CONSTANTS
    Header,         \* sizeof(chunk_header_t), in units
    Payloads,       \* header.length, in units
    SndBuf,         \* UDT_SNDBUF
    MaxPending,     \* UDT_SNDDATA up to which data is sent
    MaxPosts

\* Every message has a payload: a recv of nothing returns 0, which
\* nonblock_recv does not take for the end of the payload.
ASSUME HeaderAssumption == Header \in Nat \ {0}
ASSUME PayloadsAssumption == Payloads \subseteq Nat \ {0}
ASSUME SendBoundsAssumption == SndBuf \in Nat \ {0} /\ MaxPending \in Nat /\ MaxPosts \in Nat

VARIABLES
    posted,     \* all that was put into map_udpfd_out_ctrl and map_udpfd_out_data
    popped,     \* how many of them were taken out
    looping,    \* handle_pkt_out_udp is in its loop over control messages
    halted,     \* PAUSE has stopped the sender
    link,       \* state of the connection, as the sender and as UDT see it
    stream,     \* all units given to UDT
    arrived,    \* how many of them are at the receiver
    taken,      \* how many of them were received by nonblock_recv
    phase,      \* recv_packet_state
    buffer,     \* recv_ctl_info.buffer up to offset, until it is handled
    expect,     \* recv_ctl_info.expect_len
    got         \* messages handled by handle_pkt_in_udp, by queue

sendVars == <<posted, popped, looping, halted>>
netVars == <<link, stream, arrived>>
recvVars == <<taken, phase, buffer, expect, got>>
vars == <<sendVars, netVars, recvVars>>

Queues == {"ctrl", "data"}
Phases == {"header_ready", "header_running", "header_ok", "payload_running"}

Size(q, i) == Header + posted[q][i]

TypeOK ==
    /\ posted \in [Queues -> Seq(Payloads)]
    /\ popped \in [Queues -> Nat]
    /\ looping \in BOOLEAN /\ halted \in BOOLEAN
    /\ link \in {"up", "closed", "gone"}
    /\ stream \in Seq(Queues \X Nat \X Nat)
    /\ arrived \in 0..Len(stream)
    /\ taken \in 0..arrived
    /\ phase \in Phases
    /\ buffer \in Seq(Queues \X Nat \X Nat)
    /\ expect \in Nat
    /\ got \in [Queues -> Seq(Nat)]

Init ==
    /\ posted = [q \in Queues |-> <<>>]
    /\ popped = [q \in Queues |-> 0]
    /\ looping = FALSE /\ halted = FALSE
    /\ link = "up" /\ stream = <<>> /\ arrived = 0 /\ taken = 0
    /\ phase = "header_ready" /\ buffer = <<>> /\ expect = 0
    /\ got = [q \in Queues |-> <<>>]

----------------------------------------------------------------------------
(* Sending *)

Pending == Len(stream) - arrived
Room == SndBuf - Pending
Waiting(q) == popped[q] < Len(posted[q])

\* A message is put into a queue, also when the socket is closed.
Post(q, p) ==
    /\ ~halted /\ ~looping /\ Len(posted[q]) < MaxPosts
    /\ posted' = [posted EXCEPT ![q] = Append(@, p)]
    /\ UNCHANGED <<popped, looping, halted, netVars, recvVars>>

\* The first n units of the message at the front of q.
Units(q, n) == [k \in 1..n |-> <<q, popped[q] + 1, k>>]

\* nonblock_send, in state READY, of the message at the front of q: UDT takes
\* what there is room for.
SendWhole(q) ==
    /\ Waiting(q) /\ Size(q, popped[q] + 1) <= Room
    /\ stream' = stream \o Units(q, Size(q, popped[q] + 1))
    /\ popped' = [popped EXCEPT ![q] = @ + 1]
    /\ UNCHANGED link

\* Mutant of SendPart: the socket stays open, and the message is done with.
SendPartOpen(q) ==
    /\ Waiting(q) /\ 0 < Room /\ Room < Size(q, popped[q] + 1)
    /\ stream' = stream \o Units(q, Room)
    /\ popped' = [popped EXCEPT ![q] = @ + 1]
    /\ UNCHANGED link

\* "Usually is that the sending buffer is not available, close the socket"
SendPart(q) ==
    /\ Waiting(q) /\ 0 < Room /\ Room < Size(q, popped[q] + 1)
    /\ stream' = stream \o Units(q, Room)
    /\ link' = "closed"
    /\ UNCHANGED popped

\* handle_pkt_out_udp is called when the socket is writable, and loops over the
\* control messages without asking again.
Writable == link = "up" /\ ~halted /\ (looping \/ Room > 0)

\* Mutant of SendCtrl: the loop is not left.
SendCtrlLooping ==
    /\ Writable
    /\ SendWhole("ctrl") \/ SendPart("ctrl")
    /\ looping' = TRUE
    /\ UNCHANGED <<posted, halted, arrived, recvVars>>

SendCtrl ==
    /\ Writable
    /\ SendWhole("ctrl") \/ SendPart("ctrl")
    /\ looping' = (link' = "closed" \/ popped'["ctrl"] < Len(posted["ctrl"]))
    /\ UNCHANGED <<posted, halted, arrived, recvVars>>

\* The buffer is full in the middle of the loop: UDT says EASYNCSND, the code
\* waits for EASYNCRCV and stops the program.
SendCtrlFull ==
    /\ Writable /\ looping /\ Room = 0
    /\ halted' = TRUE
    /\ UNCHANGED <<posted, popped, looping, netVars, recvVars>>

\* The loop goes on with a socket that is not connected any more.  If it has
\* broken, the send is an error.  If it is the one closed after a part was
\* sent, UDT knows it as CLOSED for a while, and nonblock_send falls off its
\* end: what it returns is undefined, an error, or not, and then the loop sends
\* the rest again, until UDT forgets the socket (NONEXIST) and the program stops.
SendCtrlRest ==
    /\ looping /\ ~halted
    /\ \/ link # "up" /\ looping' = FALSE /\ UNCHANGED halted
       \/ link = "closed" /\ halted' = TRUE /\ UNCHANGED looping
    /\ UNCHANGED <<posted, popped, netVars, recvVars>>

SendData ==
    /\ Writable /\ ~looping /\ ~Waiting("ctrl") /\ Pending <= MaxPending
    /\ SendWhole("data") \/ SendPart("data")
    /\ UNCHANGED <<posted, looping, halted, arrived, recvVars>>

----------------------------------------------------------------------------
(* UDT *)

\* UDT carries units over, also of a socket that was closed.
Transmit ==
    /\ link # "gone" /\ arrived < Len(stream)
    /\ arrived' = arrived + 1
    /\ UNCHANGED <<sendVars, link, stream, recvVars>>

\* The connection breaks, or UDT is done with a closed one.
Break ==
    /\ link = "up" \/ (link = "closed" /\ ~looping)
    /\ link' = "gone"
    /\ UNCHANGED <<sendVars, stream, arrived, recvVars>>

----------------------------------------------------------------------------
(* Receiving: one round of the loop in handle_pkt_in_udp *)

InHeader == phase \in {"header_ready", "header_running"}

\* Header and length of a payload are asked for first, and then what is left.
\* (A header that is none would name any length.)
Asked ==
    CASE phase = "header_ready" -> Header
      [] phase = "header_ok" -> posted[buffer[1][1]][buffer[1][2]]
      [] OTHER -> expect

\* What UDT has of it, maybe nothing.
Available == IF arrived - taken < Asked THEN arrived - taken ELSE Asked

\* Mutant of Received: what comes is written to the start of the buffer.
ReceivedAtStart == [k \in 1..Available |-> stream[taken + k]]

\* The buffer after what is available was written at offset.
Received == buffer \o [k \in 1..Available |-> stream[taken + k]]

IsMessage(buf, q, i) ==
    Len(buf) = Size(q, i) /\ \A k \in 1..Len(buf) : buf[k] = <<q, i, k>>

\* The payload of the message in a buffer; 0 if it is not a message.
Payload(buf) ==
    LET q == buf[1][1]  i == buf[1][2] IN IF IsMessage(buf, q, i) THEN posted[q][i] ELSE 0

RecvPart ==
    /\ Available < Asked
    /\ phase' = IF InHeader THEN "header_running" ELSE "payload_running"
    /\ buffer' = Received
    /\ expect' = Asked - Available
    /\ UNCHANGED got

RecvHeader ==
    /\ InHeader /\ Available = Asked
    /\ phase' = "header_ok"
    /\ buffer' = Received
    /\ expect' = Asked
    /\ UNCHANGED got

\* The message is complete; its header says what it is, and it is handled.
RecvPayload ==
    /\ ~InHeader /\ Available = Asked
    /\ phase' = "header_ready"
    /\ buffer' = <<>>
    /\ expect' = Asked
    /\ got' = [got EXCEPT ![buffer[1][1]] = Append(@, Payload(Received))]

Recv ==
    /\ RecvPart \/ RecvHeader \/ RecvPayload
    /\ taken' = taken + Available
    /\ UNCHANGED <<sendVars, netVars>>

----------------------------------------------------------------------------

HandleOut == SendCtrl \/ SendCtrlFull \/ SendCtrlRest \/ SendData

Next ==
    \/ \E q \in Queues, p \in Payloads : Post(q, p)
    \/ HandleOut
    \/ Transmit \/ Break
    \/ Recv

Spec == Init /\ [][Next]_vars

\* The handlers are called as long as the socket is ready, and UDT repeats what
\* it loses.
Fairness == WF_vars(HandleOut) /\ WF_vars(Transmit) /\ WF_vars(Recv)

FairSpec == Spec /\ Fairness

----------------------------------------------------------------------------
(* Properties *)

Channel == INSTANCE MessageChannel WITH
    Queues <- Queues, Payloads <- Payloads,
    posted <- posted, got <- got

\* However sends and receives cut them, and whenever a socket is closed with a
\* part of a message sent, messages are handled whole and in the order in which
\* they were queued: a connection is a channel of messages.
ChannelSpec == Channel!Spec

\* What is queued for a connection that stays is handled at the other end.
Delivered ==
    \A q \in Queues, n \in 1..MaxPosts :
        Len(posted[q]) >= n ~> Len(got[q]) >= n \/ link # "up" \/ halted
=============================================================================
