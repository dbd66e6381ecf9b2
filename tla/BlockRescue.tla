---------------------------- MODULE BlockRescue ----------------------------
(***************************************************************************)
(* One sub-stream of an overlay of clients, and the BLOCK_RESCUE messages  *)
(* they send down (peer_mgr.cpp, timers of pk_mgr.cpp).  When the chunks   *)
(* stop, everybody below the break starves at the same time.  A second     *)
(* before it gives its parent up, a client tells its children to wait, and *)
(* they tell theirs, so that only the head of the starving part goes to    *)
(* PK.                                                                     *)
(*                                                                         *)
(* A tick is a second, all timers are whole seconds.  time_handle runs     *)
(* every few milliseconds, so nothing is due when a tick begins; messages  *)
(* take as long as they take.  MaxFaults and MaxMoves are bounds.          *)
(***************************************************************************)
EXTENDS Integers

CONSTANTS
    Clients,
    PK,             \* the tracker, which serves whoever asks
    DataTimeout,    \* DATA_TIMEOUT
    BlockTime,      \* BLOCK_RESCUE_TIME
    Interval,       \* BLOCK_RESCUE_INTERVAL
    MaxHops,        \* 5 in HandleBlockRescue
    MaxLag,         \* the ticks a message may take
    MaxFaults,
    MaxMoves

ASSUME PKAssumption == PK \notin Clients
ASSUME TimeAssumption ==
    /\ DataTimeout \in Nat \ {0, 1} /\ BlockTime \in Nat \ {0, 1}
    /\ Interval \in 1..DataTimeout - 1
ASSUME BoundAssumption == MaxHops \in Nat /\ MaxLag \in Nat /\ MaxFaults \in Nat /\ MaxMoves \in Nat

VARIABLES
    parent,         \* current_parent_pid
    child,          \* map_pid_child: <<p, c>> when c's record at p asks for the sub-stream
    timer,          \* seconds since ss_table[].timer was set
    blocked,        \* block_rescue
    blockTimer,     \* seconds since block_rescue_timer was set
    canSend,        \* can_send_block_rescue
    sendTimer,      \* seconds since block_rescue_interval was set
    mail,           \* BLOCK_RESCUE messages on the way
    cut,            \* clients whose parent sends them nothing
    gone,           \* clients that left without a word
    faults, moves   \* how many there were

timers == <<timer, blocked, blockTimer, canSend, sendTimer>>
vars == <<parent, child, timers, mail, cut, gone, faults, moves>>

Message == [from : Clients, to : Clients, value : 0..MaxHops + 1, lag : 0..MaxLag]

TypeOK ==
    /\ parent \in [Clients -> Clients \cup {PK}]
    /\ child \in SUBSET (Clients \X Clients)
    /\ timer \in [Clients -> 0..DataTimeout]
    /\ blocked \in [Clients -> BOOLEAN] /\ blockTimer \in [Clients -> 0..BlockTime]
    /\ canSend \in [Clients -> BOOLEAN] /\ sendTimer \in [Clients -> 0..Interval]
    /\ mail \in SUBSET Message
    /\ cut \in SUBSET Clients /\ gone \in SUBSET Clients
    /\ faults \in 0..MaxFaults /\ moves \in 0..MaxMoves

-----------------------------------------------------------------------------
\* Whom PK's chunks reach if only the clients of D take part: the least set
\* that has a client of D when it has its parent.
Reached(D) ==
    {c \in D : \A S \in SUBSET D :
        (\A d \in D : parent[d] \in S \cup {PK} => d \in S) => c \in S}

Fed == Reached(Clients \ (cut \cup gone))

\* Clients not in, nor below, a loop of parents.
Rooted == Reached(Clients)

Init ==
    /\ parent \in [Clients -> Clients \cup {PK}]
    /\ cut = {} /\ gone = {}
    /\ Fed = Clients
    /\ child = {e \in Clients \X Clients : parent[e[2]] = e[1]}
    /\ timer = [c \in Clients |-> 0]
    /\ blocked = [c \in Clients |-> FALSE] /\ blockTimer = [c \in Clients |-> 0]
    /\ canSend = [c \in Clients |-> TRUE] /\ sendTimer = [c \in Clients |-> 0]
    /\ mail = {} /\ faults = 0 /\ moves = 0

\* What c puts into the control queues of its children.
ToChildren(c, v) ==
    {[from |-> c, to |-> d, value |-> v, lag |-> 0] : d \in {e \in Clients : <<c, e>> \in child}}

-----------------------------------------------------------------------------
(* What time_handle finds, in its order: the interval between two messages *)
(* is over, a block is over, it is time to warn, it is time to give up.    *)
MaySend(c)  == canSend[c] \/ sendTimer[c] = Interval
Unblocks(c) == blocked[c] /\ blockTimer[c] = BlockTime
WaitsOn(c)  == blocked[c]                       \* mutant: the block never ends
Waits(c)    == blocked[c] /\ ~Unblocks(c)
WarnsLast(c) ==                                 \* mutant: no second to spare
    timer[c] = DataTimeout /\ MaySend(c) /\ ~blocked[c] /\ parent[c] # PK
Warns(c)    == /\ timer[c] >= DataTimeout - 1
               /\ MaySend(c) /\ ~blocked[c] /\ parent[c] # PK
TimesOut(c) == timer[c] = DataTimeout /\ ~Unblocks(c)
Rescues(c)  == TimesOut(c) /\ ~Waits(c)

Due(c) == /\ c \notin gone
          /\ \/ ~canSend[c] /\ MaySend(c)
             \/ Unblocks(c) \/ Warns(c) \/ TimesOut(c)

\* Mutant of TimeHandle: a timeout that is put off renews the block.
TimeHandleRenewing(c) ==
    /\ Due(c)
    /\ parent' = IF Rescues(c) THEN [parent EXCEPT ![c] = PK] ELSE parent
    /\ cut' = IF Rescues(c) THEN cut \ {c} ELSE cut
    /\ timer' = IF TimesOut(c) \/ Unblocks(c) THEN [timer EXCEPT ![c] = 0] ELSE timer
    /\ blocked' = [blocked EXCEPT ![c] = Waits(c)]
    /\ canSend' = [canSend EXCEPT ![c] = MaySend(c) /\ ~Warns(c)]
    /\ sendTimer' = IF Warns(c) THEN [sendTimer EXCEPT ![c] = 0] ELSE sendTimer
    /\ mail' = IF Warns(c) THEN mail \cup ToChildren(c, 0) ELSE mail
    /\ blockTimer' = IF TimesOut(c) THEN [blockTimer EXCEPT ![c] = 0] ELSE blockTimer
    /\ UNCHANGED <<child, gone, faults, moves>>

\* time_handle: ResetDetection sets the timer anew when a block ends, and
\* when the timeout leads to PK or is put off.
TimeHandle(c) ==
    /\ Due(c)
    /\ parent' = IF Rescues(c) THEN [parent EXCEPT ![c] = PK] ELSE parent
    /\ cut' = IF Rescues(c) THEN cut \ {c} ELSE cut
    /\ timer' = IF TimesOut(c) \/ Unblocks(c) THEN [timer EXCEPT ![c] = 0] ELSE timer
    /\ blocked' = [blocked EXCEPT ![c] = Waits(c)]
    /\ canSend' = [canSend EXCEPT ![c] = MaySend(c) /\ ~Warns(c)]
    /\ sendTimer' = IF Warns(c) THEN [sendTimer EXCEPT ![c] = 0] ELSE sendTimer
    /\ mail' = IF Warns(c) THEN mail \cup ToChildren(c, 0) ELSE mail
    /\ UNCHANGED <<child, blockTimer, gone, faults, moves>>

\* Mutants of HandleBlockRescue: nothing is passed on, the value is not
\* counted up.
HandleBlockRescueAlone(m) ==
    /\ m \in mail
    /\ IF m.value > MaxHops
       THEN mail' = mail \ {m} /\ UNCHANGED <<blocked, blockTimer>>
       ELSE /\ mail' = mail \ {m}
            /\ blocked' = [blocked EXCEPT ![m.to] = TRUE]
            /\ blockTimer' = [blockTimer EXCEPT ![m.to] = 0]
    /\ UNCHANGED <<parent, child, timer, canSend, sendTimer, cut, gone, faults, moves>>

HandleBlockRescueUncounted(m) ==
    /\ m \in mail
    /\ IF m.value > MaxHops
       THEN mail' = mail \ {m} /\ UNCHANGED <<blocked, blockTimer>>
       ELSE /\ mail' = (mail \ {m}) \cup ToChildren(m.to, m.value)
            /\ blocked' = [blocked EXCEPT ![m.to] = TRUE]
            /\ blockTimer' = [blockTimer EXCEPT ![m.to] = 0]
    /\ UNCHANGED <<parent, child, timer, canSend, sendTimer, cut, gone, faults, moves>>

\* HandleBlockRescue.  Neither the sender nor original_pid is looked at.
HandleBlockRescue(m) ==
    /\ m \in mail
    /\ IF m.value > MaxHops
       THEN mail' = mail \ {m} /\ UNCHANGED <<blocked, blockTimer>>
       ELSE /\ mail' = (mail \ {m}) \cup ToChildren(m.to, m.value + 1)
            /\ blocked' = [blocked EXCEPT ![m.to] = TRUE]
            /\ blockTimer' = [blockTimer EXCEPT ![m.to] = 0]
    /\ UNCHANGED <<parent, child, timer, canSend, sendTimer, cut, gone, faults, moves>>

\* What is on the way on a socket that was closed may be lost.
Lose(m) ==
    /\ m \in mail /\ (m.from \in gone \/ parent[m.to] # m.from)
    /\ mail' = mail \ {m}
    /\ UNCHANGED <<parent, child, timers, cut, gone, faults, moves>>

\* A SET_MANIFEST message tells p that c left it for another parent.
ChildLeaves(p, c) ==
    /\ <<p, c>> \in child /\ parent[c] # p
    /\ child' = child \ {<<p, c>>}
    /\ UNCHANGED <<parent, timers, mail, cut, gone, faults, moves>>

\* A test of p is passed, of a RESCUE or of a MOVE list: p has sent chunks
\* while c still had its old parent.  PK's list may name any client.
TestPassed(c, p) ==
    /\ moves < MaxMoves /\ moves' = moves + 1
    /\ c \notin gone /\ p \in Fed \ {c, parent[c]}
    /\ parent' = [parent EXCEPT ![c] = p]
    /\ child' = child \cup {<<p, c>>}
    /\ timer' = [timer EXCEPT ![c] = 0]
    /\ cut' = cut \ {c}
    /\ UNCHANGED <<blocked, blockTimer, canSend, sendTimer, mail, gone, faults>>

\* c's parent, or the way from it, fails.
Fail(c) ==
    /\ faults < MaxFaults /\ faults' = faults + 1
    /\ c \notin gone \cup cut
    /\ cut' = cut \cup {c}
    /\ UNCHANGED <<parent, child, timers, mail, gone, moves>>

\* The silence was a short one.
Heal(c) ==
    /\ c \in cut \ gone
    /\ cut' = cut \ {c}
    /\ UNCHANGED <<parent, child, timers, mail, gone, faults, moves>>

\* c disappears with what was on the way to it.
Leave(c) ==
    /\ faults < MaxFaults /\ faults' = faults + 1
    /\ c \notin gone
    /\ gone' = gone \cup {c}
    /\ child' = {e \in child : c \notin {e[1], e[2]}}
    /\ mail' = {m \in mail : m.to # c}
    /\ blocked' = [blocked EXCEPT ![c] = FALSE]
    /\ canSend' = [canSend EXCEPT ![c] = TRUE]
    /\ UNCHANGED <<parent, timer, blockTimer, sendTimer, cut, moves>>

\* A second passes; whoever is fed gets chunks of the sub-stream in it.
Older(t, limit) == IF t < limit THEN t + 1 ELSE t

Tick ==
    /\ \A c \in Clients : ~Due(c)
    /\ \A m \in mail : m.lag < MaxLag
    /\ timer' = [c \in Clients |-> IF c \in Fed \cup gone THEN 0 ELSE Older(timer[c], DataTimeout)]
    /\ blockTimer' = [c \in Clients |->
                         IF blocked[c] THEN Older(blockTimer[c], BlockTime) ELSE 0]
    /\ sendTimer' = [c \in Clients |->
                        IF canSend[c] THEN 0 ELSE Older(sendTimer[c], Interval)]
    /\ mail' = {[m EXCEPT !.lag = m.lag + 1] : m \in mail}
    /\ UNCHANGED <<parent, child, blocked, canSend, cut, gone, faults, moves>>

Next ==
    \/ \E c \in Clients : TimeHandle(c) \/ Fail(c) \/ Heal(c) \/ Leave(c)
    \/ \E m \in mail : HandleBlockRescue(m) \/ Lose(m)
    \/ \E p, c \in Clients : ChildLeaves(p, c) \/ TestPassed(c, p)
    \/ Tick

\* Time passes, time_handle is called for ever, UDT delivers.
Fairness ==
    /\ WF_vars(Tick)
    /\ \A c \in Clients : WF_vars(TimeHandle(c))
    /\ \A m \in Message : WF_vars(HandleBlockRescue(m))
    /\ \A p, c \in Clients : WF_vars(ChildLeaves(p, c))

Spec == Init /\ [][Next]_vars
FairSpec == Spec /\ Fairness

-----------------------------------------------------------------------------
\* A client gives its parent up though that is there and would send it chunks.
GivesUp(c) ==
    /\ TimeHandle(c) /\ Rescues(c)
    /\ parent[c] \notin gone \cup {PK} /\ c \notin cut

Warned(c) == \E m \in mail : m.to = c

\* Only the head of what starves gives its parent up: whoever does though its
\* parent is there has a parent that could not tell it to wait, because
\* it has PK for its own parent, has starved for less long or is blocked itself,
\* or the message is still on the way.  The second between the warning and the
\* timeout, and the interval between two warnings, are enough for this
\* (pk_mgr.cpp:5178, 4804).
OnlyHeadsRescue ==
    [][\A c \in Clients : GivesUp(c) =>
         LET p == parent[c] IN
         parent[p] = PK \/ timer[p] < timer[c] \/ blocked[p] \/ Warned(c)]_vars

\* A client that waits makes those below it wait: under a blocked parent only
\* a client gives up that came when the parent was blocked already.  (No client
\* of the instance is too far from the head for HandleBlockRescue's limit.)
BlocksPassOn ==
    [][\A c \in Clients : GivesUp(c) =>
         LET p == parent[c] IN
         blocked[p] => blockTimer[p] >= DataTimeout \/ Warned(c)]_vars

\* Whoever starves gets chunks again, whatever blocks reach it, unless it is
\* in or below a loop of parents (peer_mgr.cpp:488, pk_mgr.cpp:4810).
Repaired ==
    \A c \in Clients : c \notin Fed ~> c \in Fed \cup gone \/ c \notin Rooted

\* Blocks do not feed on themselves: outside of loops they end for good
\* (peer_mgr.cpp:495-545).
Calm == <>[](\A c \in Rooted \ gone : ~blocked[c])

\* The limit on hops ends every flood, in a loop too (peer_mgr.cpp:488).
FloodEnds == []<>(mail = {})
=============================================================================
