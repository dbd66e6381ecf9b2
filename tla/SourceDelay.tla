----------------------------- MODULE SourceDelay -----------------------------
(***************************************************************************)
(* How late the chunks of one sub-stream are, and what is done about it.   *)
(*                                                                         *)
(* Chunks carry the time of PK's clock at which they were made.  A token   *)
(* to PK and back, once after the registration, gives an estimate of PK's  *)
(* clock; a chunk that seems to come from the future corrects it.  Too     *)
(* many late chunks in a row, and the parent is given up for PK.           *)
(*                                                                         *)
(* Times are in ms.  PK's clock differs from the client's by Skew when the *)
(* client starts and may gain or lose a ms in any ms of the client's.      *)
(* Abstracted: times are integers, for the code only takes differences of  *)
(* its UINT32 times; the two clocks of the Windows build are one; which    *)
(* state a repair or a test leads to is a choice (SubstreamTable has it).  *)
(***************************************************************************)
EXTENDS Integers

CONSTANTS
    Skew,           \* PK's clock minus the client's, at the start
    MaxDelay,       \* MAX_DELAY
    DelayTimes,     \* SOURCE_DELAY_CONTINUOUS * pkt_rate / sub_stream_num
    MaxNow,         \* bound on the client's clock
    MaxDrift,       \* bound on the ms PK's clock gains, and on those it loses
    MaxTransit,     \* bound on the delay of a chunk
    MaxRun          \* bound on late chunks in a row

ASSUME SourceDelayAssumption ==
    /\ Skew \in Int
    /\ MaxDelay \in Nat \ {0}
    /\ {DelayTimes, MaxNow, MaxDrift, MaxTransit, MaxRun} \subseteq Nat

VARIABLES
    now,            \* the client's clock
    ahead, behind,  \* the ms PK's clock has gained and lost
    sync,           \* syn_table.state
    token,          \* where the token is
    startClock,     \* lastSynStartclock, later syn_table.start_clock
    recvTime,       \* pk_RecvTime of the token
    sendTime,       \* pk_SendTime of the token
    absStart,       \* syn_table.client_abs_start_time
    roundTime,      \* syn_round_time
    totalMod,
    state,          \* ss_table[]->state.state
    source,         \* who sends the sub-stream
    inTestSuccess,  \* inTest.inTest_success
    beyond,         \* delay_beyond_count
    blocked,        \* block_rescue
    canSend,        \* can_send_block_rescue
    run             \* history: chunks in a row that were late by PK's clock

tokenVars == <<sync, token, startClock, recvTime, sendTime, roundTime>>
clockVars == <<now, ahead, behind>>
syncVars == <<tokenVars, absStart, totalMod>>
judgeVars == <<state, source, inTestSuccess, beyond, blocked, canSend, run>>
vars == <<clockVars, syncVars, judgeVars>>

\* PK's clock minus the client's.
Gain == Skew + ahead - behind
PKNow == now + Gain

\* How much the estimate is after PK's clock.
Error == absStart - (startClock + Gain)

\* diff_TimerGet_ms never returns less than 2.
Elapsed(from) == IF now - from < 2 THEN 2 ELSE now - from

Half == roundTime \div 2
OtherHalf == roundTime - Half

\* By PK's clock a chunk later than this was certainly late.
Late(delay) == delay > MaxDelay - OtherHalf - behind - 2

TypeOK ==
    /\ now \in Nat /\ ahead \in Nat /\ behind \in Nat
    /\ roundTime \in Nat /\ totalMod \in Nat /\ beyond \in Nat /\ run \in Nat
    /\ sync \in {"SYNC_UNINIT", "SYNC_ONGOING", "SYNC_FINISH"}
    /\ token \in {"none", "up", "PK", "down"}
    /\ startClock \in Int /\ recvTime \in Int /\ sendTime \in Int /\ absStart \in Int
    /\ state \in {"stable", "test", "rescue"} /\ source \in {"peer", "PK"}
    /\ state = "rescue" => source = "PK"
    /\ inTestSuccess \in BOOLEAN /\ blocked \in BOOLEAN /\ canSend \in BOOLEAN

Init ==
    /\ now = 0 /\ ahead = 0 /\ behind = 0
    /\ sync = "SYNC_UNINIT" /\ token = "none"
    /\ startClock = 0 /\ recvTime = 0 /\ sendTime = 0 /\ absStart = 0
    /\ roundTime = 0 /\ totalMod = 0
    /\ state = "stable" /\ source = "PK" /\ inTestSuccess = FALSE
    /\ beyond = 0 /\ blocked = FALSE /\ canSend = TRUE /\ run = 0

----------------------------------------------------------------------------
(* The clocks and the token *)

Tick ==
    /\ now < MaxNow
    /\ now' = now + 1
    /\ \/ UNCHANGED <<ahead, behind>>
       \/ ahead < MaxDrift /\ ahead' = ahead + 1 /\ UNCHANGED behind
       \/ behind < MaxDrift /\ behind' = behind + 1 /\ UNCHANGED ahead
    /\ UNCHANGED <<syncVars, judgeVars>>

\* syn_table_init, with send_syn_token_to_pk.
SendToken ==
    /\ sync = "SYNC_UNINIT"
    /\ sync' = "SYNC_ONGOING" /\ token' = "up"
    /\ startClock' = now /\ absStart' = 0
    /\ UNCHANGED <<clockVars, recvTime, sendTime, roundTime, totalMod, judgeVars>>

PKReceives ==
    /\ token = "up" /\ token' = "PK"
    /\ recvTime' = PKNow
    /\ UNCHANGED <<clockVars, sync, startClock, sendTime, roundTime, absStart, totalMod, judgeVars>>

PKReplies ==
    /\ token = "PK" /\ token' = "down"
    /\ sendTime' = PKNow
    /\ UNCHANGED <<clockVars, sync, startClock, recvTime, roundTime, absStart, totalMod, judgeVars>>

\* Mutant of Estimate: PK's own time is taken for the way there.
EstimateWithoutWay(round) == recvTime

\* Half the round trip is the way there.
Estimate(round) == recvTime - round \div 2

\* What is left of the time the token took without PK's own, and not less
\* than 0, since two clocks were read.
RoundTrip ==
    LET round == Elapsed(startClock) - (sendTime - recvTime)
    IN  IF round < 0 THEN 0 ELSE round

\* CHNK_CMD_PEER_SYN, with syn_recv_handler.
Reply ==
    /\ token = "down" /\ sync = "SYNC_ONGOING"
    /\ roundTime' = RoundTrip
    /\ absStart' = Estimate(RoundTrip)
    /\ sync' = "SYNC_FINISH" /\ token' = "none"
    /\ UNCHANGED <<clockVars, startClock, recvTime, sendTime, totalMod, judgeVars>>

----------------------------------------------------------------------------
(* Chunks *)

\* GetChunkSourceDelay, for a chunk that took delay ms by PK's clock; a
\* difference of 0 is given as 1.
ChunkDelay(delay) ==
    LET d == Elapsed(startClock) - (PKNow - delay - absStart)
    IN  IF d = 0 THEN 1 ELSE d

\* Mutant of Compensate: the correction is booked twice.
CompensateTwice(d) ==
    IF totalMod >= roundTime
    THEN UNCHANGED <<absStart, totalMod>>
    ELSE /\ absStart' = absStart - d
         /\ totalMod' = totalMod - d - d

\* A chunk from the future, d < 0, moves the estimate, until the corrections
\* add up to a round trip; from then on they are left undone.
Compensate(d) ==
    IF totalMod >= roundTime
    THEN UNCHANGED <<absStart, totalMod>>
    ELSE /\ absStart' = absStart - d
         /\ totalMod' = totalMod - d

GiveUpParent ==
    /\ state' = "rescue" /\ source' = "PK" /\ beyond' = 0
    /\ UNCHANGED <<inTestSuccess, blocked>>

\* Too many late chunks, and no ancestor at work on it.
Convict ==
    IF state = "stable"
    THEN IF source = "PK" THEN beyond' = 0 /\ UNCHANGED <<state, source, inTestSuccess, blocked>>
                          ELSE GiveUpParent
    ELSE /\ beyond' = beyond + 1
         /\ inTestSuccess' = (inTestSuccess /\ state # "test")
         /\ UNCHANGED <<state, source, blocked>>

\* Mutant of JudgeLate: the children are told after the verdict, and only if
\* there was none.
JudgeLateTellLast ==
    /\ canSend' = (canSend /\ (beyond = 0 \/ beyond >= DelayTimes \/ blocked \/ source = "PK"))
    /\ IF beyond + 1 > DelayTimes
       THEN IF blocked THEN beyond' = 0 /\ UNCHANGED <<state, source, inTestSuccess, blocked>>
                       ELSE Convict
       ELSE beyond' = beyond + 1 /\ UNCHANGED <<state, source, inTestSuccess, blocked>>

\* A late chunk: at the second the children are told (SendBlockRescue), unless
\* an ancestor has told this peer; then the verdict.
JudgeLate ==
    /\ canSend' = (canSend /\ (beyond = 0 \/ blocked \/ source = "PK"))
    /\ IF beyond + 1 > DelayTimes
       THEN IF blocked THEN beyond' = 0 /\ UNCHANGED <<state, source, inTestSuccess, blocked>>
                       ELSE Convict
       ELSE beyond' = beyond + 1 /\ UNCHANGED <<state, source, inTestSuccess, blocked>>

\* Mutant of JudgeTimely: a chunk in time does not end the row.
JudgeTimelyKeeping == UNCHANGED <<state, source, inTestSuccess, beyond, blocked, canSend>>

JudgeTimely == beyond' = 0 /\ UNCHANGED <<state, source, inTestSuccess, blocked, canSend>>

\* SourceDelayDetection.
Chunk(delay) ==
    /\ sync = "SYNC_FINISH"
    /\ LET d == ChunkDelay(delay) IN
         /\ IF d < 1 THEN Compensate(d) ELSE UNCHANGED <<absStart, totalMod>>
         /\ IF d > MaxDelay THEN JudgeLate ELSE JudgeTimely
    /\ run' = IF Late(delay) THEN run + 1 ELSE 0
    /\ run' <= MaxRun
    /\ UNCHANGED <<clockVars, tokenVars>>

Arrival == \E delay \in 0..MaxTransit : Chunk(delay)

\* An ancestor's BLOCK_RESCUE, and its end with ResetDetection.
Block == blocked' = TRUE /\ UNCHANGED <<clockVars, syncVars, state, source, inTestSuccess, beyond, canSend, run>>
Unblock ==
    /\ blocked /\ blocked' = FALSE /\ beyond' = 0
    /\ UNCHANGED <<clockVars, syncVars, state, source, inTestSuccess, canSend, run>>

\* BLOCK_RESCUE_INTERVAL has passed.
MayTell ==
    /\ ~canSend /\ canSend' = TRUE
    /\ UNCHANGED <<clockVars, syncVars, state, source, inTestSuccess, beyond, blocked, run>>

\* No chunk for DATA_TIMEOUT ms; a second before it the children are told.
Silent ==
    /\ canSend /\ ~blocked /\ source # "PK"
    /\ canSend' = FALSE
    /\ UNCHANGED <<clockVars, syncVars, state, source, inTestSuccess, beyond, blocked, run>>

DataTimeout ==
    /\ IF blocked THEN UNCHANGED <<state, source>> ELSE state' = "rescue" /\ source' = "PK"
    /\ beyond' = 0
    /\ UNCHANGED <<clockVars, syncVars, inTestSuccess, blocked, canSend, run>>

\* Repairs and tests, some of which end with ResetDetection.
Settle(st, src) ==
    /\ <<st, src>> # <<state, source>>
    /\ state' = st /\ source' = src
    /\ inTestSuccess' = (st = "test")
    /\ beyond' \in {0, beyond}
    /\ UNCHANGED <<clockVars, syncVars, blocked, canSend, run>>

Next ==
    \/ Tick \/ SendToken \/ PKReceives \/ PKReplies \/ Reply
    \/ Arrival
    \/ Block \/ Unblock \/ MayTell \/ Silent \/ DataTimeout
    \/ \E st \in {"stable", "test"}, src \in {"peer", "PK"} : Settle(st, src)

Spec == Init /\ [][Next]_vars

----------------------------------------------------------------------------

\* The estimate is off by half a round trip at most, and by what the clocks
\* have drifted: asymmetry of the two ways, the rounding of halves, the 2 ms
\* of diff_TimerGet_ms and corrections never add to it.
ErrorBounded ==
    sync = "SYNC_FINISH" => -Half - ahead <= Error /\ Error <= OtherHalf + behind

\* The corrections are given up only if PK's clock has gained on the client's
\* more than half a round trip; until then they never go too far.
GivesUpOnlyByDrift ==
    [][\A delay \in 0..MaxTransit :
         totalMod >= roundTime /\ ChunkDelay(delay) < 1 /\ Chunk(delay)
           => ahead > OtherHalf]_vars

\* What delay_beyond_count counts are chunks in a row that were late by PK's
\* clock too, but for the error of the estimate.
CountedAreLate == beyond <= run

\* A chunk that comes makes this peer give up its parent, or fail a test, only
\* if it ends a row of more than DelayTimes that were late by PK's clock.
NoFalseRescue ==
    [][((state # "rescue" /\ state' = "rescue") \/ (inTestSuccess /\ ~inTestSuccess')) /\ Arrival
         => run' > DelayTimes]_vars

\* Before a parent is given up the children have been told to keep still, so
\* that they do not all leave at once; not so if one late chunk is enough.
ToldBeforeRescue ==
    [][state # "rescue" /\ state' = "rescue" /\ DelayTimes > 0 /\ Arrival => ~canSend']_vars
=============================================================================
