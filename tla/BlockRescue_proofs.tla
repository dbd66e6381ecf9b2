------------------------ MODULE BlockRescue_proofs ------------------------
(***************************************************************************)
(* Why one second is enough for the warning (OnlyHeadsRescue), whatever    *)
(* the overlay: a client that reaches DATA_TIMEOUT has warned its children *)
(* a tick ago, unless it is blocked or has PK for its parent; and what it  *)
(* told a child is then either still on the way or has blocked the child.  *)
(***************************************************************************)
EXTENDS BlockRescue, TLAPS

Live == Clients \ gone

\* A parent that is there knows its children (map_pid_child).
ParentKnows == \A p, c \in Live : parent[c] = p => <<p, c>> \in child

\* Between two warnings the timer was set anew after the first, or has run
\* on since: no client warns late because it warned before.
WarnedInTime ==
    \A p \in Live : ~canSend[p] =>
        timer[p] <= sendTimer[p] \/ timer[p] >= DataTimeout - 1 + sendTimer[p]

\* What p told c is on the way, and c will heed it, or c heeds it since k ticks.
Told(p, c, k) ==
    \/ \E m \in mail : m.from = p /\ m.to = c /\ m.value <= MaxHops
    \/ blocked[c] /\ blockTimer[c] <= k

\* In the second before the timeout ...
ToldAtWarning ==
    \A p, c \in Live :
        /\ parent[c] = p /\ ~canSend[p] /\ sendTimer[p] = 0
        /\ timer[p] >= DataTimeout - 1 /\ timer[c] >= DataTimeout - 1
        => Told(p, c, 0)

\* ... and when it is reached.
ToldAtTimeout ==
    \A p, c \in Live :
        /\ parent[c] = p /\ parent[p] # PK /\ ~blocked[p]
        /\ timer[p] = DataTimeout /\ timer[c] = DataTimeout
        => Told(p, c, 1)

IInv == TypeOK /\ ParentKnows /\ WarnedInTime /\ ToldAtWarning /\ ToldAtTimeout

\* The constants as numbers.
LEMMA Numbers ==
    /\ DataTimeout \in Nat /\ DataTimeout >= 2
    /\ BlockTime \in Nat /\ BlockTime >= 2
    /\ Interval \in Nat /\ Interval >= 1 /\ Interval <= DataTimeout - 1
    /\ MaxHops \in Nat /\ MaxLag \in Nat /\ MaxFaults \in Nat /\ MaxMoves \in Nat
    /\ PK \notin Clients
  BY PKAssumption, TimeAssumption, BoundAssumption

\* The variables one by one.
LEMMA Typed ==
    ASSUME TypeOK, NEW c \in Clients
    PROVE  /\ parent[c] \in Clients \cup {PK}
           /\ timer[c] \in Nat /\ timer[c] <= DataTimeout
           /\ blocked[c] \in BOOLEAN /\ blockTimer[c] \in Nat /\ blockTimer[c] <= BlockTime
           /\ canSend[c] \in BOOLEAN /\ sendTimer[c] \in Nat /\ sendTimer[c] <= Interval
  BY Numbers DEF TypeOK

\* What a client tells its children is a message.
LEMMA ChildrenTold ==
    ASSUME NEW c \in Clients, NEW v \in 0..MaxHops + 1
    PROVE  /\ ToChildren(c, v) \in SUBSET Message
           /\ \A d \in Clients : <<c, d>> \in child =>
                \E m \in ToChildren(c, v) : m.from = c /\ m.to = d /\ m.value = v
<1> DEFINE Msg(d) == [from |-> c, to |-> d, value |-> v, lag |-> 0]
<1>1. \A d \in Clients : Msg(d) \in Message
  BY Numbers DEF Message
<1>2. \A d \in Clients : Msg(d).from = c /\ Msg(d).to = d /\ Msg(d).value = v
  OBVIOUS
<1>3. \A d \in Clients : <<c, d>> \in child => Msg(d) \in ToChildren(c, v)
  BY DEF ToChildren
<1>4. \A m \in ToChildren(c, v) : \E d \in Clients : m = Msg(d)
  BY DEF ToChildren
<1> HIDE DEF Msg
<1> QED
  BY <1>1, <1>2, <1>3, <1>4

\* A clock that stops at its limit.
LEMMA OlderInRange ==
    ASSUME NEW limit \in Nat, NEW t \in 0..limit
    PROVE  /\ Older(t, limit) \in 0..limit
           /\ t < limit => Older(t, limit) = t + 1
  BY DEF Older

LEMMA InitInv == Init => IInv
<1> SUFFICES ASSUME Init
             PROVE  IInv
    OBVIOUS
<1> USE DEF Init
<1>1. TypeOK
  BY Numbers DEF TypeOK
<1>2. ParentKnows
  BY DEF ParentKnows, Live
<1>3. WarnedInTime /\ ToldAtWarning
  BY DEF WarnedInTime, ToldAtWarning, Live
<1>4. ToldAtTimeout
  BY Numbers DEF ToldAtTimeout, Live
<1> QED
  BY <1>1, <1>2, <1>3, <1>4 DEF IInv

LEMMA TypeInductive == TypeOK /\ [Next]_vars => TypeOK'
<1> SUFFICES ASSUME TypeOK, [Next]_vars
             PROVE  TypeOK'
    OBVIOUS
<1> USE Numbers
<1>1. ASSUME NEW c \in Clients, TimeHandle(c)
      PROVE  TypeOK'
  <2>1. mail' \in SUBSET Message
    BY <1>1, ChildrenTold DEF TimeHandle, TypeOK
  <2>2. /\ Waits(c) \in BOOLEAN /\ Warns(c) \in BOOLEAN /\ MaySend(c) \in BOOLEAN
        /\ (MaySend(c) /\ ~Warns(c)) \in BOOLEAN
    BY Typed DEF Waits, Unblocks, Warns, MaySend
  <2>3. blocked' \in [Clients -> BOOLEAN] /\ canSend' \in [Clients -> BOOLEAN]
    BY <1>1, <2>2 DEF TimeHandle, TypeOK
  <2>4. parent' \in [Clients -> Clients \cup {PK}] /\ cut' \in SUBSET Clients
    BY <1>1 DEF TimeHandle, TypeOK
  <2>5. timer' \in [Clients -> 0..DataTimeout] /\ sendTimer' \in [Clients -> 0..Interval]
    BY <1>1 DEF TimeHandle, TypeOK
  <2> QED
    BY <1>1, <2>1, <2>3, <2>4, <2>5 DEF TimeHandle, TypeOK
<1>2. ASSUME NEW m \in mail, HandleBlockRescue(m)
      PROVE  TypeOK'
  <2>1. m \in Message /\ m.to \in Clients /\ m.value \in 0..MaxHops + 1
    BY DEF TypeOK, Message
  <2>2. mail' \in SUBSET Message
    <3>1. CASE m.value > MaxHops
      BY <1>2, <3>1 DEF HandleBlockRescue, TypeOK
    <3>2. CASE ~(m.value > MaxHops)
      <4>1. m.value + 1 \in 0..MaxHops + 1
        BY <2>1, <3>2
      <4> QED
        BY <1>2, <2>1, <3>2, <4>1, ChildrenTold DEF HandleBlockRescue, TypeOK
    <3> QED
      BY <3>1, <3>2
  <2>3. blocked' \in [Clients -> BOOLEAN]
    BY <1>2 DEF HandleBlockRescue, TypeOK
  <2>4. blockTimer' \in [Clients -> 0..BlockTime]
    <3>1. 0 \in 0..BlockTime
      OBVIOUS
    <3>2. blockTimer' \in {blockTimer, [blockTimer EXCEPT ![m.to] = 0]}
      BY <1>2 DEF HandleBlockRescue
    <3> QED
      BY <3>1, <3>2 DEF TypeOK
  <2>5. UNCHANGED <<parent, child, timer, canSend, sendTimer, cut, gone, faults, moves>>
    BY <1>2 DEF HandleBlockRescue
  <2> QED
    BY <2>2, <2>3, <2>4, <2>5 DEF TypeOK
<1>3. ASSUME NEW m \in mail, Lose(m)
      PROVE  TypeOK'
  BY <1>3 DEF Lose, timers, TypeOK
<1>4. ASSUME NEW p \in Clients, NEW c \in Clients, ChildLeaves(p, c)
      PROVE  TypeOK'
  BY <1>4 DEF ChildLeaves, timers, TypeOK
<1>5. ASSUME NEW p \in Clients, NEW c \in Clients, TestPassed(c, p)
      PROVE  TypeOK'
  BY <1>5 DEF TestPassed, TypeOK
<1>6. ASSUME NEW c \in Clients, Fail(c) \/ Heal(c)
      PROVE  TypeOK'
  BY <1>6 DEF Fail, Heal, timers, TypeOK
<1>7. ASSUME NEW c \in Clients, Leave(c)
      PROVE  TypeOK'
  BY <1>7 DEF Leave, TypeOK
<1>8. ASSUME Tick
      PROVE  TypeOK'
  <2>1. mail' \in SUBSET Message
    BY <1>8 DEF Tick, TypeOK, Message
  <2>2. /\ timer' \in [Clients -> 0..DataTimeout]
        /\ blockTimer' \in [Clients -> 0..BlockTime]
        /\ sendTimer' \in [Clients -> 0..Interval]
    BY <1>8, OlderInRange DEF Tick, TypeOK
  <2> QED
    BY <1>8, <2>1, <2>2 DEF Tick, TypeOK
<1>9. CASE UNCHANGED vars
  BY <1>9 DEF vars, timers, TypeOK
<1> QED
  BY <1>1, <1>2, <1>3, <1>4, <1>5, <1>6, <1>7, <1>8, <1>9 DEF Next

-----------------------------------------------------------------------------
\* ParentKnows: records are dropped when the child has left or one is gone.
LEMMA ParentKnowsStep == TypeOK /\ ParentKnows /\ [Next]_vars => ParentKnows'
<1> SUFFICES ASSUME TypeOK, ParentKnows, [Next]_vars
             PROVE  ParentKnows'
    OBVIOUS
<1>1. ASSUME NEW c \in Clients, TimeHandle(c)
      PROVE  ParentKnows'
  BY <1>1, PKAssumption DEF TimeHandle, ParentKnows, Live, TypeOK
<1>2. ASSUME NEW m \in mail, HandleBlockRescue(m) \/ Lose(m)
      PROVE  ParentKnows'
  BY <1>2 DEF HandleBlockRescue, Lose, timers, ParentKnows, Live
<1>3. ASSUME NEW p \in Clients, NEW c \in Clients, ChildLeaves(p, c)
      PROVE  ParentKnows'
  BY <1>3 DEF ChildLeaves, ParentKnows, Live
<1>4. ASSUME NEW p \in Clients, NEW c \in Clients, TestPassed(c, p)
      PROVE  ParentKnows'
  BY <1>4 DEF TestPassed, ParentKnows, Live, TypeOK
<1>5. ASSUME NEW c \in Clients, Fail(c) \/ Heal(c)
      PROVE  ParentKnows'
  BY <1>5 DEF Fail, Heal, ParentKnows, Live
<1>6. ASSUME NEW x \in Clients, Leave(x)
      PROVE  ParentKnows'
  BY <1>6 DEF Leave, ParentKnows, Live
<1>7. CASE Tick \/ UNCHANGED vars
  BY <1>7 DEF Tick, vars, ParentKnows, Live
<1> QED
  BY <1>1, <1>2, <1>3, <1>4, <1>5, <1>6, <1>7 DEF Next

\* What TimeHandle(c) does to the client itself, and that it leaves the others.
LEMMA Handled ==
    ASSUME TypeOK, NEW c \in Clients, TimeHandle(c)
    PROVE  /\ UNCHANGED <<child, blockTimer, gone>>
           /\ timer'[c] \in {0, timer[c]} /\ timer'[c] < DataTimeout
           /\ blocked[c] /\ timer'[c] # 0 => blocked'[c]
           /\ ~canSend'[c] => \/ Warns(c) /\ sendTimer'[c] = 0
                              \/ ~Warns(c) /\ ~canSend[c] /\ sendTimer'[c] = sendTimer[c]
           /\ parent'[c] \in {PK, parent[c]}
           /\ mail \subseteq mail'
           /\ Warns(c) => mail' = mail \cup ToChildren(c, 0)
           /\ \A d \in Clients \ {c} :
                 /\ timer'[d] = timer[d] /\ blocked'[d] = blocked[d]
                 /\ canSend'[d] = canSend[d] /\ sendTimer'[d] = sendTimer[d]
                 /\ parent'[d] = parent[d]
<1> USE Numbers
<1>1. UNCHANGED <<child, blockTimer, gone>>
  BY DEF TimeHandle
<1>2. timer'[c] \in {0, timer[c]} /\ timer'[c] < DataTimeout
  BY Typed DEF TimeHandle, TimesOut, TypeOK
<1>3. blocked[c] /\ timer'[c] # 0 => blocked'[c]
  BY Typed DEF TimeHandle, Waits, TypeOK
<1>4. ~canSend'[c] => \/ Warns(c) /\ sendTimer'[c] = 0
                      \/ ~Warns(c) /\ ~canSend[c] /\ sendTimer'[c] = sendTimer[c]
  BY DEF TimeHandle, MaySend, TypeOK
<1>5. parent'[c] \in {PK, parent[c]}
  BY DEF TimeHandle, TypeOK
<1>6. mail \subseteq mail' /\ (Warns(c) => mail' = mail \cup ToChildren(c, 0))
  BY DEF TimeHandle
<1>7. \A d \in Clients \ {c} :
         /\ timer'[d] = timer[d] /\ blocked'[d] = blocked[d]
         /\ canSend'[d] = canSend[d] /\ sendTimer'[d] = sendTimer[d]
         /\ parent'[d] = parent[d]
  BY DEF TimeHandle, TypeOK
<1> QED
  BY <1>1, <1>2, <1>3, <1>4, <1>5, <1>6, <1>7

\* What a second does to a client that has not left.
LEMMA Aged ==
    ASSUME TypeOK, Tick, NEW c \in Live
    PROVE  /\ UNCHANGED <<parent, child, blocked, canSend, gone>>
           /\ timer[c] < DataTimeout /\ timer'[c] \in {0, timer[c] + 1}
           /\ ~canSend[c] => sendTimer[c] < Interval /\ sendTimer'[c] = sendTimer[c] + 1
           /\ blocked[c] => blockTimer[c] < BlockTime /\ blockTimer'[c] = blockTimer[c] + 1
           /\ ~Warns(c)
<1> USE Numbers
<1>1. c \in Clients /\ c \notin gone
  BY DEF Live
<1>2. ~Due(c)
  BY <1>1 DEF Tick
<1>3. ~Unblocks(c) /\ ~Warns(c) /\ ~TimesOut(c) /\ (canSend[c] \/ ~MaySend(c))
  BY <1>1, <1>2 DEF Due
<1>4. timer[c] \in 0..DataTimeout /\ sendTimer[c] \in 0..Interval /\ blockTimer[c] \in 0..BlockTime
  BY <1>1, Typed
<1>5. timer[c] < DataTimeout
  BY <1>3, <1>4 DEF TimesOut
<1>6. timer'[c] \in {0, timer[c] + 1}
  BY <1>1, <1>4, <1>5, OlderInRange DEF Tick
<1>7. ~canSend[c] => sendTimer[c] < Interval /\ sendTimer'[c] = sendTimer[c] + 1
  BY <1>1, <1>3, <1>4, OlderInRange DEF Tick, MaySend
<1>8. blocked[c] => blockTimer[c] < BlockTime /\ blockTimer'[c] = blockTimer[c] + 1
  BY <1>1, <1>3, <1>4, OlderInRange DEF Tick, Unblocks
<1> QED
  BY <1>3, <1>5, <1>6, <1>7, <1>8 DEF Tick

\* What any other step does to a client that is there after it.
LEMMA NotTicked ==
    ASSUME TypeOK, [Next]_vars, ~Tick, NEW d \in Live'
    PROVE  /\ d \in Live
           /\ timer'[d] # 0 => /\ timer'[d] = timer[d]
                               /\ parent'[d] \in {parent[d], PK}
                               /\ blocked[d] => blocked'[d]
           /\ ~canSend'[d] => \/ TimeHandle(d) /\ Warns(d) /\ sendTimer'[d] = 0
                              \/ ~canSend[d] /\ sendTimer'[d] = sendTimer[d]
<1> USE DEF Live
<1>1. ASSUME NEW c \in Clients, TimeHandle(c), c = d
      PROVE  /\ d \in Live
             /\ timer'[d] # 0 => /\ timer'[d] = timer[d]
                                 /\ parent'[d] \in {parent[d], PK}
                                 /\ blocked[d] => blocked'[d]
             /\ ~canSend'[d] => \/ TimeHandle(d) /\ Warns(d) /\ sendTimer'[d] = 0
                                \/ ~canSend[d] /\ sendTimer'[d] = sendTimer[d]
  BY <1>1, Handled
<1>2. ASSUME NEW c \in Clients, TimeHandle(c), c # d
      PROVE  /\ d \in Live /\ timer'[d] = timer[d] /\ parent'[d] = parent[d]
             /\ blocked'[d] = blocked[d]
             /\ canSend'[d] = canSend[d] /\ sendTimer'[d] = sendTimer[d]
  BY <1>2, Handled
<1>3. ASSUME NEW m \in mail, HandleBlockRescue(m)
      PROVE  /\ UNCHANGED <<gone, timer, parent, canSend, sendTimer>>
             /\ blocked[d] => blocked'[d]
  BY <1>3 DEF HandleBlockRescue, TypeOK
<1>4. ASSUME NEW m \in mail, Lose(m)
      PROVE  UNCHANGED <<gone, timer, parent, blocked, canSend, sendTimer>>
  BY <1>4 DEF Lose, timers
<1>5. ASSUME NEW p \in Clients, NEW c \in Clients, ChildLeaves(p, c)
      PROVE  UNCHANGED <<gone, timer, parent, blocked, canSend, sendTimer>>
  BY <1>5 DEF ChildLeaves, timers
<1>6. ASSUME NEW p \in Clients, NEW c \in Clients, TestPassed(c, p)
      PROVE  /\ UNCHANGED <<gone, blocked, canSend, sendTimer>>
             /\ timer'[d] # 0 => timer'[d] = timer[d] /\ parent'[d] = parent[d]
  BY <1>6 DEF TestPassed, TypeOK
<1>7. ASSUME NEW c \in Clients, Fail(c) \/ Heal(c)
      PROVE  UNCHANGED <<gone, timer, parent, blocked, canSend, sendTimer>>
  BY <1>7 DEF Fail, Heal, timers
<1>8. ASSUME NEW c \in Clients, Leave(c)
      PROVE  /\ UNCHANGED <<timer, parent, sendTimer>>
             /\ d \in Live /\ blocked'[d] = blocked[d] /\ canSend'[d] = canSend[d]
  BY <1>8 DEF Leave, TypeOK
<1>9. CASE UNCHANGED vars
  BY <1>9 DEF vars, timers
<1> QED
  BY <1>1, <1>2, <1>3, <1>4, <1>5, <1>6, <1>7, <1>8, <1>9 DEF Next

\* Told is lost only when the parent, or the child's timer, starts anew.
LEMMA ToldKept ==
    ASSUME TypeOK, [Next]_vars, ~Tick, NEW p \in Live', NEW c \in Live', NEW k \in Nat,
           parent[c] = p, timer'[c] # 0, Told(p, c, k)
    PROVE  Told(p, c, k)'
<1> USE DEF Live
<1>1. p \in Clients \ gone /\ c \in Clients \ gone /\ (blocked[c] => blocked'[c])
  BY NotTicked
<1>2. ASSUME blockTimer'[c] \in {blockTimer[c], 0}, mail \subseteq mail'
      PROVE  Told(p, c, k)'
  BY <1>1, <1>2 DEF Told
<1>3. ASSUME NEW x \in Clients, TimeHandle(x)
      PROVE  Told(p, c, k)'
  BY <1>2, <1>3, Handled
<1>4. ASSUME NEW m \in mail, HandleBlockRescue(m)
      PROVE  Told(p, c, k)'
  <2>1. CASE m.to = c /\ ~(m.value > MaxHops)
    BY <1>1, <1>4, <2>1 DEF HandleBlockRescue, Told, TypeOK
  <2>2. CASE ~(m.to = c /\ ~(m.value > MaxHops))
    <3>1. blockTimer'[c] = blockTimer[c]
      BY <1>1, <1>4, <2>2 DEF HandleBlockRescue, TypeOK
    <3>2. mail \ {m} \subseteq mail'
      BY <1>4 DEF HandleBlockRescue
    <3>3. ASSUME NEW n \in mail, n.from = p, n.to = c, n.value <= MaxHops
          PROVE  n # m
      BY <2>2, <3>3, Numbers DEF TypeOK, Message
    <3> QED
      BY <1>1, <3>1, <3>2, <3>3 DEF Told
  <2> QED
    BY <2>1, <2>2
<1>5. ASSUME NEW m \in mail, Lose(m)
      PROVE  Told(p, c, k)'
  BY <1>1, <1>5 DEF Lose, timers, Told
<1>6. ASSUME NEW q \in Clients, NEW d \in Clients, ChildLeaves(q, d) \/ TestPassed(d, q)
      PROVE  Told(p, c, k)'
  BY <1>2, <1>6 DEF ChildLeaves, TestPassed, timers
<1>7. ASSUME NEW d \in Clients, Fail(d) \/ Heal(d)
      PROVE  Told(p, c, k)'
  BY <1>2, <1>7 DEF Fail, Heal, timers
<1>8. ASSUME NEW x \in Clients, Leave(x)
      PROVE  Told(p, c, k)'
  BY <1>1, <1>8 DEF Leave, Told
<1>9. CASE UNCHANGED vars
  BY <1>2, <1>9 DEF vars, timers
<1> QED
  BY <1>3, <1>4, <1>5, <1>6, <1>7, <1>8, <1>9 DEF Next

LEMMA WarnedInTimeStep ==
    ASSUME TypeOK, TypeOK', WarnedInTime, [Next]_vars
    PROVE  WarnedInTime'
<1> USE Numbers
<1> SUFFICES ASSUME NEW p \in Live', ~canSend'[p]
             PROVE  timer'[p] <= sendTimer'[p] \/ timer'[p] >= DataTimeout - 1 + sendTimer'[p]
    BY DEF WarnedInTime
<1>1. /\ timer'[p] \in Nat /\ sendTimer'[p] \in Nat
  BY DEF TypeOK, Live
<1>2. CASE Tick
  <2>1. p \in Live
    BY <1>2 DEF Tick, Live
  <2>2. timer[p] \in Nat /\ sendTimer[p] \in Nat
    BY <2>1, Typed DEF Live
  <2>3. timer[p] <= sendTimer[p] \/ timer[p] >= DataTimeout - 1 + sendTimer[p]
    BY <1>2, <2>1, Aged DEF WarnedInTime
  <2> QED
    BY <1>1, <1>2, <2>1, <2>2, <2>3, Aged
<1>3. CASE ~Tick
  BY <1>1, <1>3, NotTicked DEF WarnedInTime, Warns
<1> QED
  BY <1>2, <1>3

LEMMA ToldAtWarningStep ==
    ASSUME TypeOK, ParentKnows, ToldAtWarning, [Next]_vars
    PROVE  ToldAtWarning'
<1> USE Numbers
<1> SUFFICES ASSUME NEW p \in Live', NEW c \in Live',
                    parent'[c] = p, ~canSend'[p], sendTimer'[p] = 0,
                    timer'[p] >= DataTimeout - 1, timer'[c] >= DataTimeout - 1
             PROVE  Told(p, c, 0)'
    BY DEF ToldAtWarning
<1>1. CASE Tick
  <2>1. p \in Live /\ p \in Clients
    BY <1>1 DEF Tick, Live
  <2> QED
    BY <1>1, <2>1, Aged, Typed
<1>2. CASE ~Tick
  <2>1. /\ p \in Live /\ c \in Live /\ p \in Clients /\ c \in Clients /\ p # PK
        /\ timer'[p] = timer[p] /\ timer'[c] = timer[c] /\ parent[c] = p
    BY <1>2, NotTicked DEF Live
  <2>2. CASE TimeHandle(p) /\ Warns(p)
    <3>1. <<p, c>> \in child
      BY <2>1 DEF ParentKnows
    <3>2. PICK m \in ToChildren(p, 0) : m.from = p /\ m.to = c /\ m.value = 0
      BY <2>1, <3>1, ChildrenTold
    <3>3. m \in mail'
      BY <2>1, <2>2, Handled
    <3> QED
      BY <3>2, <3>3 DEF Told
  <2>3. CASE ~canSend[p] /\ sendTimer'[p] = sendTimer[p]
    BY <1>2, <2>1, <2>3, ToldKept DEF ToldAtWarning
  <2> QED
    BY <1>2, <2>2, <2>3, NotTicked
<1> QED
  BY <1>1, <1>2

LEMMA ToldAtTimeoutStep ==
    ASSUME TypeOK, WarnedInTime, ToldAtWarning, ToldAtTimeout, [Next]_vars
    PROVE  ToldAtTimeout'
<1> USE Numbers
<1> SUFFICES ASSUME NEW p \in Live', NEW c \in Live',
                    parent'[c] = p, parent'[p] # PK, ~blocked'[p],
                    timer'[p] = DataTimeout, timer'[c] = DataTimeout
             PROVE  Told(p, c, 1)'
    BY DEF ToldAtTimeout
<1>1. CASE Tick
  <2>1. p \in Live /\ c \in Live /\ p \in Clients /\ c \in Clients
    BY <1>1 DEF Tick, Live
  <2>2. timer[p] = DataTimeout - 1 /\ timer[c] = DataTimeout - 1
    BY <1>1, <2>1, Aged, Typed
  <2>3. ~canSend[p] /\ sendTimer[p] < Interval /\ sendTimer[p] \in Nat
    BY <1>1, <2>1, <2>2, Aged, Typed DEF Warns, MaySend
  <2>4. sendTimer[p] = 0
    BY <2>1, <2>2, <2>3 DEF WarnedInTime
  <2>5. Told(p, c, 0)
    <3>1. parent[c] = p
      BY <1>1, <2>1, Aged
    <3> QED
      BY <2>1, <2>2, <2>3, <2>4, <3>1 DEF ToldAtWarning
  <2>6. ASSUME NEW m \in mail, m.from = p, m.to = c, m.value <= MaxHops
        PROVE  Told(p, c, 1)'
    <3> DEFINE n == [m EXCEPT !.lag = m.lag + 1]
    <3>1. n \in mail'
      BY <1>1 DEF Tick
    <3>2. n.from = p /\ n.to = c /\ n.value <= MaxHops
      BY <2>6 DEF TypeOK, Message
    <3> QED
      BY <3>1, <3>2 DEF Told
  <2>7. ASSUME blocked[c], blockTimer[c] <= 0
        PROVE  Told(p, c, 1)'
    BY <1>1, <2>1, <2>7, Aged, Typed DEF Told
  <2> QED
    BY <2>5, <2>6, <2>7 DEF Told
<1>2. CASE ~Tick
  <2>1. /\ p \in Live /\ c \in Live /\ p # PK
        /\ timer'[p] = timer[p] /\ timer'[c] = timer[c] /\ parent[c] = p
        /\ parent[p] # PK /\ ~blocked[p]
    BY <1>2, NotTicked DEF Live
  <2>2. Told(p, c, 1)
    BY <2>1 DEF ToldAtTimeout
  <2> QED
    BY <1>2, <2>1, <2>2, ToldKept
<1> QED
  BY <1>1, <1>2

-----------------------------------------------------------------------------
LEMMA InvInductive == IInv /\ [Next]_vars => IInv'
  BY TypeInductive, ParentKnowsStep, WarnedInTimeStep, ToldAtWarningStep, ToldAtTimeoutStep
  DEF IInv

\* The invariant of the warnings holds in every state.
THEOREM BlockRescueInvariant == Spec => []IInv
  BY InitInv, InvInductive, PTL DEF Spec

\* The variables keep their types, a message is told MaxHops + 1 times at most.
THEOREM BlockRescueTypeCorrect == Spec => []TypeOK
  BY BlockRescueInvariant, PTL DEF IInv

\* In every overlay, of any number of clients, only the head of what starves
\* gives up a parent that is there (pk_mgr.cpp:5178).
THEOREM OnlyTheHeadRescues == Spec => OnlyHeadsRescue
<1>1. ASSUME IInv, [Next]_vars, NEW c \in Clients, GivesUp(c),
             parent[parent[c]] # PK, ~(timer[parent[c]] < timer[c]), ~blocked[parent[c]]
      PROVE  Warned(c)
  <2> DEFINE p == parent[c]
  <2> USE Numbers
  <2>1. TypeOK
    BY <1>1 DEF IInv
  <2>2. c \in Live /\ p \in Live /\ timer[c] = DataTimeout /\ ~Unblocks(c) /\ ~Waits(c)
    BY <1>1, <2>1 DEF GivesUp, TimeHandle, Due, Rescues, TimesOut, Live, TypeOK
  <2>3. timer[p] = DataTimeout
    BY <1>1, <2>1, <2>2, Typed DEF Live
  <2>4. Told(p, c, 1)
    BY <1>1, <2>2, <2>3 DEF IInv, ToldAtTimeout
  <2>5. ~blocked[c]
    BY <2>1, <2>2 DEF Waits
  <2> QED
    BY <2>4, <2>5 DEF Told, Warned
<1>2. IInv /\ [Next]_vars =>
        [\A c \in Clients : GivesUp(c) =>
            LET p == parent[c] IN
            parent[p] = PK \/ timer[p] < timer[c] \/ blocked[p] \/ Warned(c)]_vars
  BY <1>1
<1> QED
  BY <1>2, BlockRescueInvariant, PTL DEF Spec, OnlyHeadsRescue
-----------------------------------------------------------------------------
(* Blocks are passed on.  The limit on hops ends a flood, and then a block *)
(* is not passed on; as long as no message is at the limit, it is.         *)

\* No message on the way is too old to be heeded.
WithinLimit == \A m \in mail : m.value <= MaxHops

\* A client that starves since before its parent was blocked has been told so,
\* or is being told.
PassedOn ==
    \A p, c \in Live :
        parent[c] = p /\ blocked[p] => timer[c] <= blockTimer[p] \/ Told(p, c, BlockTime)

\* What a step other than Tick does to the block of a client that has one after
\* it: nothing, or it is the block that a message brings.
LEMMA BlockKept ==
    ASSUME TypeOK, [Next]_vars, ~Tick, NEW p \in Live', blocked'[p]
    PROVE  \/ blocked[p] /\ blockTimer'[p] = blockTimer[p]
           \/ \E m \in mail : m.to = p /\ ~(m.value > MaxHops) /\ HandleBlockRescue(m)
<1> USE DEF Live
<1>1. ASSUME NEW c \in Clients, TimeHandle(c)
      PROVE  blocked[p] /\ blockTimer'[p] = blockTimer[p]
  BY <1>1 DEF TimeHandle, Waits, TypeOK
<1>2. ASSUME NEW m \in mail, HandleBlockRescue(m), ~(m.to = p /\ ~(m.value > MaxHops))
      PROVE  blocked[p] /\ blockTimer'[p] = blockTimer[p]
  BY <1>2 DEF HandleBlockRescue, TypeOK
<1>3. ASSUME NEW m \in mail, Lose(m)
      PROVE  UNCHANGED <<blocked, blockTimer>>
  BY <1>3 DEF Lose, timers
<1>4. ASSUME NEW q \in Clients, NEW c \in Clients, ChildLeaves(q, c) \/ TestPassed(c, q)
      PROVE  UNCHANGED <<blocked, blockTimer>>
  BY <1>4 DEF ChildLeaves, TestPassed, timers
<1>5. ASSUME NEW c \in Clients, Fail(c) \/ Heal(c)
      PROVE  UNCHANGED <<blocked, blockTimer>>
  BY <1>5 DEF Fail, Heal, timers
<1>6. ASSUME NEW c \in Clients, Leave(c)
      PROVE  blocked[p] /\ blockTimer'[p] = blockTimer[p]
  BY <1>6 DEF Leave, TypeOK
<1>7. CASE UNCHANGED vars
  BY <1>7 DEF vars, timers
<1> QED
  BY <1>1, <1>2, <1>3, <1>4, <1>5, <1>6, <1>7 DEF Next

LEMMA PassedOnStep ==
    ASSUME TypeOK, TypeOK', ParentKnows, PassedOn, WithinLimit', [Next]_vars
    PROVE  PassedOn'
<1> USE Numbers
<1> SUFFICES ASSUME NEW p \in Live', NEW c \in Live', parent'[c] = p, blocked'[p],
                    ~(timer'[c] <= blockTimer'[p])
             PROVE  Told(p, c, BlockTime)'
    BY DEF PassedOn
<1>1. /\ p \in Clients /\ c \in Clients /\ p # PK
      /\ timer'[c] \in Nat /\ blockTimer'[p] \in Nat /\ blockTimer'[c] <= BlockTime
      /\ timer'[c] # 0
  BY DEF Live, TypeOK
<1>2. CASE Tick
  <2>1. p \in Live /\ c \in Live /\ parent[c] = p /\ blocked[p]
    BY <1>2 DEF Tick, Live
  <2>2. timer'[c] = timer[c] + 1 /\ blockTimer'[p] = blockTimer[p] + 1
    BY <1>1, <1>2, <2>1, Aged
  <2>3. Told(p, c, BlockTime)
    BY <1>1, <2>1, <2>2, Typed DEF PassedOn
  <2>4. ASSUME NEW m \in mail, m.from = p, m.to = c, m.value <= MaxHops
        PROVE  Told(p, c, BlockTime)'
    <3> DEFINE n == [m EXCEPT !.lag = m.lag + 1]
    <3>1. n \in mail'
      BY <1>2 DEF Tick
    <3>2. n.from = p /\ n.to = c /\ n.value <= MaxHops
      BY <2>4 DEF TypeOK, Message
    <3> QED
      BY <3>1, <3>2 DEF Told
  <2>5. ASSUME blocked[c]
        PROVE  Told(p, c, BlockTime)'
    BY <1>1, <1>2, <2>1, <2>5, Aged DEF Told
  <2> QED
    BY <2>3, <2>4, <2>5 DEF Told
<1>3. CASE ~Tick
  <2>1. p \in Live /\ c \in Live /\ timer'[c] = timer[c] /\ parent[c] = p
    BY <1>1, <1>3, NotTicked
  <2>2. CASE blocked[p] /\ blockTimer'[p] = blockTimer[p]
    <3>1. Told(p, c, BlockTime)
      BY <2>1, <2>2 DEF PassedOn
    <3> QED
      BY <1>1, <1>3, <2>1, <3>1, ToldKept
  <2>3. ASSUME NEW m \in mail, m.to = p, ~(m.value > MaxHops), HandleBlockRescue(m)
        PROVE  Told(p, c, BlockTime)'
    <3>1. m.value + 1 \in 0..MaxHops + 1
      BY <2>3 DEF TypeOK, Message
    <3>2. <<p, c>> \in child
      BY <2>1 DEF ParentKnows
    <3>3. PICK n \in ToChildren(p, m.value + 1) : n.from = p /\ n.to = c
      BY <1>1, <3>1, <3>2, ChildrenTold
    <3>4. n \in mail'
      BY <2>3 DEF HandleBlockRescue
    <3> QED
      BY <3>3, <3>4 DEF WithinLimit, Told
  <2> QED
    BY <1>3, <2>2, <2>3, BlockKept
<1> QED
  BY <1>2, <1>3

\* In every overlay, loops of parents included, whatever messages are lost
\* with the sockets they were on: as long as the limit on hops is not reached,
\* only a client that came late gives up a blocked parent (peer_mgr.cpp:495-545).
THEOREM BlocksArePassedOn == Spec /\ []WithinLimit => BlocksPassOn
<1>1. Init => PassedOn
  BY DEF Init, PassedOn, Live
<1>2. IInv /\ IInv' /\ PassedOn /\ WithinLimit' /\ [Next]_vars => PassedOn'
  BY PassedOnStep DEF IInv
<1>3. ASSUME TypeOK, PassedOn, NEW c \in Clients, GivesUp(c), blocked[parent[c]]
      PROVE  blockTimer[parent[c]] >= DataTimeout \/ Warned(c)
  <2> DEFINE p == parent[c]
  <2>1. c \in Live /\ p \in Live /\ timer[c] = DataTimeout /\ ~blocked[c]
    BY <1>3, Typed DEF GivesUp, TimeHandle, Due, Rescues, TimesOut, Waits, Live
  <2>2. timer[c] <= blockTimer[p] \/ Told(p, c, BlockTime)
    BY <1>3, <2>1 DEF PassedOn
  <2>3. blockTimer[p] \in Nat /\ DataTimeout \in Nat
    BY <1>3, <2>1, Typed, Numbers DEF Live
  <2> QED
    BY <2>1, <2>2, <2>3 DEF Told, Warned
<1>4. IInv /\ PassedOn /\ [Next]_vars =>
        [\A c \in Clients : GivesUp(c) =>
            LET p == parent[c] IN
            blocked[p] => blockTimer[p] >= DataTimeout \/ Warned(c)]_vars
  BY <1>3 DEF IInv
<1> QED
  BY <1>1, <1>2, <1>4, BlockRescueInvariant, PTL DEF Spec, BlocksPassOn
=============================================================================
