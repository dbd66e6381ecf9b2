---------------------------- MODULE StreamBuffer ----------------------------
(***************************************************************************)
(* From packets to players.                                                *)
(*                                                                         *)
(* pk_mgr::HandleStream keeps the chunks of the stream in a ring of        *)
(* bucket_size slots, the chunk with sequence number n in slot             *)
(* n % bucket_size, and moves _current_send_sequence_number, the next      *)
(* chunk to play, towards _least_sequence_number, the newest chunk heard   *)
(* of: over chunks that are in the ring, which go to the queue of every    *)
(* player, and over chunks that are too late to wait for.  Packets come    *)
(* from several parents, in any order, more than once, or never.           *)
(*                                                                         *)
(* A chunk stands for its sequence number.  The server numbers chunks from *)
(* 1 here: a slot starts with a chunk of zeros, and number 0 would be      *)
(* taken for it.  MaxSeq bounds the numbers, far below the wrap of UINT32. *)
(***************************************************************************)
EXTENDS Integers, Sequences

CONSTANTS
    Size,       \* _bucket_size
    Window,     \* pkt_rate * MAX_DELAY / 1000, the chunks worth waiting for
    Players,
    MaxSeq

ASSUME SizeAssumption == Size \in Nat \ {0}
ASSUME WindowAssumption == Window \in Nat \ {0}
ASSUME MaxSeqAssumption == MaxSeq \in Nat

VARIABLES
    started,    \* first_legal_pkt_received
    least,      \* _least_sequence_number
    current,    \* _current_send_sequence_number
    slot,       \* sequence numbers of buf_chunk_t
    halted,     \* handle_error has stopped the program
    attached,   \* _map_stream_fd_stream
    queue,      \* _queue_out_data_ptr of each player
    sending     \* chunk_ptr of _send_ctl_info, 0 when it is READY

ringVars == <<started, least, current, slot, halted>>
playerVars == <<attached, queue, sending>>
vars == <<ringVars, playerVars>>

SeqNo == 1..MaxSeq
Slot == 0..(Size - 1)

TypeOK ==
    /\ started \in BOOLEAN
    /\ least \in 0..MaxSeq
    /\ current \in Nat
    /\ slot \in [Slot -> 0..MaxSeq]
    /\ halted \in BOOLEAN
    /\ attached \in SUBSET Players
    /\ queue \in [Players -> Seq(SeqNo)]
    /\ sending \in [Players -> 0..MaxSeq]

Init ==
    /\ started = FALSE
    /\ least = 0
    /\ current = 0
    /\ slot = [i \in Slot |-> 0]
    /\ halted = FALSE
    /\ attached = {}
    /\ queue = [p \in Players |-> <<>>]
    /\ sending = [p \in Players |-> 0]

----------------------------------------------------------------------------
(* HandleStream *)

\* Mutant of Newest: every packet is taken for the newest.
NewestUnchecked(n) == n

\* The first packet starts both numbers; a newer one moves the newest, even if
\* its sender is unknown or was not asked for it, and the packet is dropped.
Newest(n) == IF started /\ n < least THEN least ELSE n
From(n) == IF started THEN current ELSE n

Heard(n) ==
    /\ started' = TRUE
    /\ least' = Newest(n)

\* Mutant of Stale: only duplicates are dropped.
StaleOnlyDuplicate(n) == n = slot[n % Size]

\* Duplicate, or older than the chunk in its slot.
Stale(n) == n <= slot[n % Size]

Dropped(n) ==
    /\ ~halted
    /\ Heard(n)
    /\ current' = From(n)
    /\ UNCHANGED <<slot, halted, playerVars>>

\* Mutant of TooFarAhead: off by one.
TooFarAheadLate(n) == Newest(n) - From(n) > Size

\* A chunk whose gap to the next one to play is larger than the ring.
TooFarAhead(n) == Newest(n) - From(n) >= Size

Halt(n) ==
    /\ ~halted /\ ~Stale(n) /\ TooFarAhead(n)
    /\ Heard(n)
    /\ current' = From(n)
    /\ slot' = [slot EXCEPT ![n % Size] = n]
    /\ halted' = TRUE
    /\ UNCHANGED playerVars

\* Mutant of SkipTo: two chunks further than the window.
SkipToTwoFurther(l, c) == IF l - c > Window THEN l - Window + 2 ELSE c

\* Chunks out of the window are supposed to be lost.  The loop compares the
\* difference of the round before, and goes one chunk further than the window.
SkipTo(l, c) == IF l - c > Window THEN l - Window + 1 ELSE c

\* From c on, the chunks before e are in the ring, and e is not, or the newest.
PlayableTo(ring, c, e, l) ==
    /\ \A k \in c..(e - 1) : ring[k % Size] = k
    /\ e = l \/ ring[e % Size] # e

\* Mutant of Chunks: one chunk too early.
ChunksShifted(c, e) == [i \in 1..(e - c) |-> c + i - 2]

Chunks(c, e) == [i \in 1..(e - c) |-> c + i - 1]

Deliver(c, e) ==
    queue' = [p \in Players |-> IF p \in attached THEN queue[p] \o Chunks(c, e) ELSE queue[p]]

\* Mutant of Accept: the next chunk to play is not moved past what was played.
AcceptWithoutAdvance(n) ==
    /\ ~halted /\ ~Stale(n) /\ ~TooFarAhead(n)
    /\ Heard(n)
    /\ slot' = [slot EXCEPT ![n % Size] = n]
    /\ LET c == SkipTo(Newest(n), From(n)) IN
       \E e \in c..Newest(n) :
         /\ PlayableTo(slot', c, e, Newest(n))
         /\ current' = c
         /\ Deliver(c, e)
    /\ UNCHANGED <<halted, attached, sending>>

Accept(n) ==
    /\ ~halted /\ ~Stale(n) /\ ~TooFarAhead(n)
    /\ Heard(n)
    /\ slot' = [slot EXCEPT ![n % Size] = n]
    /\ LET c == SkipTo(Newest(n), From(n)) IN
       \E e \in c..Newest(n) :
         /\ PlayableTo(slot', c, e, Newest(n))
         /\ current' = e
         /\ Deliver(c, e)
    /\ UNCHANGED <<halted, attached, sending>>

----------------------------------------------------------------------------
(* Players: bit_stream_httpout *)

\* add_stream: an HTTP request was accepted.
Attach(p) ==
    /\ ~halted /\ p \notin attached
    /\ attached' = attached \cup {p}
    /\ UNCHANGED <<ringVars, queue, sending>>

\* del_stream and delete: the player closed its connection.
Detach(p) ==
    /\ ~halted /\ p \in attached
    /\ attached' = attached \ {p}
    /\ queue' = [queue EXCEPT ![p] = <<>>]
    /\ sending' = [sending EXCEPT ![p] = 0]
    /\ UNCHANGED ringVars

\* handle_pkt_out: take the next chunk and send as much of it as the socket
\* takes; a chunk before the first key frame is only taken.
Take(p, done) ==
    /\ ~halted /\ sending[p] = 0 /\ queue[p] # <<>>
    /\ queue' = [queue EXCEPT ![p] = Tail(@)]
    /\ sending' = [sending EXCEPT ![p] = IF done THEN 0 ELSE Head(queue[p])]
    /\ UNCHANGED <<ringVars, attached>>

\* The socket takes the rest.
Sent(p) ==
    /\ ~halted /\ sending[p] # 0
    /\ sending' = [sending EXCEPT ![p] = 0]
    /\ UNCHANGED <<ringVars, attached, queue>>

Next ==
    \/ \E n \in SeqNo : Dropped(n) \/ Halt(n) \/ Accept(n)
    \/ \E p \in Players : Attach(p) \/ Detach(p) \/ Sent(p)
    \/ \E p \in Players, done \in BOOLEAN : Take(p, done)

Spec == Init /\ [][Next]_vars

----------------------------------------------------------------------------
(* Safety *)

\* The next chunk to play is never newer than the newest chunk, so the branch
\* "leastCurrDiff < 0" of HandleStream is never taken, although skipping chunks
\* goes one further than the window.
NeverAhead == current <= least

Pending(p) == {queue[p][i] : i \in 1..Len(queue[p])} \cup ({sending[p]} \ {0})

\* Players get the chunks in increasing order, each at most once: what waits
\* for a player is increasing, and older than everything still to come.
InOrder ==
    \A p \in Players :
        /\ \A i, j \in 1..Len(queue[p]) : i < j => queue[p][i] < queue[p][j]
        /\ \A i \in 1..Len(queue[p]) : sending[p] < queue[p][i]
        /\ \A n \in Pending(p) : n < current

\* A chunk that waits for a player is the one that was queued as long as the
\* newest chunk is less than a ring away: the queues hold pointers into the
\* ring, and a packet overwrites (and deletes) what its slot held.
QueuedIntact ==
    \A p \in Players : \A n \in Pending(p) :
        least - n < Size => slot[n % Size] = n

\* A chunk is overwritten before it was played or given up only by the packet
\* that stops the program.
NoneOverwritten ==
    [][\A i \in Slot :
          started /\ slot'[i] # slot[i] /\ current <= slot[i] /\ slot[i] # 0 => halted']_vars

\* A player that stays misses a chunk only if it was at least a window behind
\* the newest one when it was passed over.
PassedOverOnlyLate ==
    [][\A p \in attached \cap attached', n \in current..(current' - 1) :
          started /\ (\A i \in 1..Len(queue'[p]) : queue'[p][i] # n)
          => least' - n >= Window]_vars
=============================================================================
