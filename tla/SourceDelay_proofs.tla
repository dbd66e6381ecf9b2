-------------------------- MODULE SourceDelay_proofs --------------------------
(***************************************************************************)
(* Theorems about SourceDelay, for every skew, drift, delay and threshold. *)
(***************************************************************************)
EXTENDS SourceDelay, TLAPS

\* What the two ways of the token tell, and what the estimate is worth.  The
\* bounds move with every ms the clocks drift, so they hold at any time.
TokenInv ==
    /\ startClock <= now
    /\ sync = "SYNC_UNINIT" => token = "none"
    /\ token \in {"PK", "down"} => recvTime >= startClock + Gain - ahead
    /\ token = "down" => sendTime <= PKNow + behind

EstimateInv ==
    IF sync = "SYNC_FINISH"
    THEN /\ -Half - ahead <= Error - totalMod
         /\ Error <= OtherHalf + behind
    ELSE totalMod = 0

IInv == TypeOK /\ TokenInv /\ EstimateInv /\ CountedAreLate

\* Halves of a round trip.
LEMMA Halves ==
    ASSUME NEW r \in Nat
    PROVE  r \div 2 \in Nat /\ r - r \div 2 \in Nat
  BY SMT

\* The types, one by one.
LEMMA Numbers ==
    ASSUME TypeOK
    PROVE  /\ now \in Nat /\ ahead \in Nat /\ behind \in Nat
           /\ roundTime \in Nat /\ totalMod \in Nat /\ beyond \in Nat /\ run \in Nat
           /\ startClock \in Int /\ recvTime \in Int /\ sendTime \in Int /\ absStart \in Int
           /\ Skew \in Int /\ MaxDelay \in Nat \ {0} /\ DelayTimes \in Nat
           /\ Gain \in Int /\ PKNow = now + Gain /\ Error = absStart - (startClock + Gain)
           /\ Half \in Nat /\ OtherHalf \in Nat /\ Half + OtherHalf = roundTime
<1>1. /\ now \in Nat /\ ahead \in Nat /\ behind \in Nat
      /\ roundTime \in Nat /\ totalMod \in Nat /\ beyond \in Nat /\ run \in Nat
      /\ startClock \in Int /\ recvTime \in Int /\ sendTime \in Int /\ absStart \in Int
  BY DEF TypeOK
<1>2. Skew \in Int /\ MaxDelay \in Nat \ {0} /\ DelayTimes \in Nat
  BY SourceDelayAssumption
<1>3. Gain \in Int
  BY <1>1, <1>2 DEF Gain
<1>4. Half \in Nat /\ OtherHalf \in Nat
  BY <1>1, Halves DEF Half, OtherHalf
<1>5. Half + OtherHalf = roundTime
  BY <1>1, <1>4 DEF OtherHalf
<1> QED
  BY <1>1, <1>2, <1>3, <1>4, <1>5 DEF PKNow, Error

\* The delay of a chunk is what it is by PK's clock, the error of the estimate,
\* and at most 2 ms.
LEMMA DelayError ==
    ASSUME TypeOK, TokenInv, NEW delay \in Nat
    PROVE  /\ ChunkDelay(delay) \in Int
           /\ ChunkDelay(delay) < 1 => ChunkDelay(delay) >= delay + Error /\ ChunkDelay(delay) < 0
           /\ ChunkDelay(delay) > MaxDelay => delay + Error + 2 > MaxDelay
<1> DEFINE passed == now - startClock
           d == Elapsed(startClock) - (PKNow - delay - absStart)
<1>1. passed \in Nat
  BY Numbers DEF TokenInv
<1>2. Elapsed(startClock) = IF passed < 2 THEN 2 ELSE passed
  BY DEF Elapsed
<1>3. d = Elapsed(startClock) - passed + delay + Error
  BY Numbers, <1>2 DEF Elapsed
<1>4. d \in Int /\ d >= delay + Error /\ d <= delay + Error + 2
  BY Numbers, <1>1, <1>2, <1>3
<1>5. ChunkDelay(delay) = IF d = 0 THEN 1 ELSE d
  BY DEF ChunkDelay
<1> HIDE DEF d
<1> QED
  BY <1>4, <1>5, Numbers

----------------------------------------------------------------------------

LEMMA InitIInv == Init => IInv
<1> SUFFICES ASSUME Init PROVE IInv
  OBVIOUS
<1>1. TypeOK
  <2>1. /\ now \in Nat /\ ahead \in Nat /\ behind \in Nat
        /\ roundTime \in Nat /\ totalMod \in Nat /\ beyond \in Nat /\ run \in Nat
        /\ startClock \in Int /\ recvTime \in Int /\ sendTime \in Int /\ absStart \in Int
    BY DEF Init
  <2>2. /\ sync \in {"SYNC_UNINIT", "SYNC_ONGOING", "SYNC_FINISH"}
        /\ token \in {"none", "up", "PK", "down"}
        /\ state \in {"stable", "test", "rescue"} /\ source \in {"peer", "PK"}
        /\ state = "rescue" => source = "PK"
    BY DEF Init
  <2>3. inTestSuccess \in BOOLEAN /\ blocked \in BOOLEAN /\ canSend \in BOOLEAN
    BY Zenon DEF Init
  <2> QED
    BY <2>1, <2>2, <2>3 DEF TypeOK
<1>2. TokenInv
  BY DEF Init, TokenInv
<1>3. EstimateInv /\ CountedAreLate
  BY DEF Init, EstimateInv, CountedAreLate
<1> QED
  BY <1>1, <1>2, <1>3 DEF IInv

LEMMA NextTypeOK ==
    ASSUME IInv, [Next]_vars
    PROVE  TypeOK'
<1> USE DEF IInv
<1>1. CASE Tick
  BY <1>1 DEF Tick, TypeOK, syncVars, tokenVars, judgeVars
<1>2. CASE SendToken
  BY <1>2 DEF SendToken, TypeOK, clockVars, judgeVars
<1>3. CASE PKReceives
  BY <1>3, Numbers DEF PKReceives, TypeOK, clockVars, judgeVars
<1>4. CASE PKReplies
  BY <1>4, Numbers DEF PKReplies, TypeOK, clockVars, judgeVars
<1>5. CASE Reply
  <2>1. RoundTrip \in Nat
    BY Numbers DEF RoundTrip, Elapsed
  <2>2. RoundTrip \div 2 \in Nat
    BY <2>1, Halves
  <2>3. Estimate(RoundTrip) \in Int
    BY <2>1, <2>2, Numbers DEF Estimate
  <2> QED
    BY <1>5, <2>1, <2>3 DEF Reply, TypeOK, clockVars, judgeVars
<1>6. ASSUME NEW delay \in 0..MaxTransit, Chunk(delay)
      PROVE  TypeOK'
  <2>1. delay \in Nat
    BY SourceDelayAssumption
  <2> DEFINE d == ChunkDelay(delay)
  <2>2. d \in Int
    BY <2>1, DelayError
  <2> HIDE DEF d
  <2>3. absStart' \in Int /\ totalMod' \in Nat
    <3>1. CASE d < 1
      BY <1>6, <2>2, <3>1, Numbers DEF Chunk, Compensate, d
    <3>2. CASE ~(d < 1)
      BY <1>6, <3>2, Numbers DEF Chunk, d
    <3> QED
      BY <3>1, <3>2
  <2>4. JudgeLate \/ JudgeTimely
    BY <1>6 DEF Chunk
  <2>5. /\ beyond' \in Nat /\ canSend' \in BOOLEAN /\ blocked' \in BOOLEAN /\ inTestSuccess' \in BOOLEAN
        /\ state' \in {"stable", "test", "rescue"} /\ source' \in {"peer", "PK"}
        /\ state' = "rescue" => source' = "PK"
    BY <2>4 DEF TypeOK, JudgeLate, JudgeTimely, Convict, GiveUpParent
  <2>6. run' \in Nat
    BY <1>6, Numbers DEF Chunk
  <2>7. UNCHANGED <<now, ahead, behind, sync, token, startClock, recvTime, sendTime, roundTime>>
    BY <1>6 DEF Chunk, clockVars, tokenVars
  <2> QED
    BY <2>3, <2>5, <2>6, <2>7 DEF TypeOK
<1>7. CASE Block
  BY <1>7 DEF Block, TypeOK, clockVars, syncVars, tokenVars
<1>8. CASE Unblock
  BY <1>8 DEF Unblock, TypeOK, clockVars, syncVars, tokenVars
<1>9. CASE MayTell
  BY <1>9 DEF MayTell, TypeOK, clockVars, syncVars, tokenVars
<1>10. ASSUME NEW st \in {"stable", "test"}, NEW src \in {"peer", "PK"}, Settle(st, src)
       PROVE  TypeOK'
  BY <1>10 DEF Settle, TypeOK, clockVars, syncVars, tokenVars
<1>11. CASE UNCHANGED vars
  BY <1>11 DEF vars, TypeOK, clockVars, syncVars, tokenVars, judgeVars
<1>12. CASE Silent
  BY <1>12 DEF Silent, TypeOK, clockVars, syncVars, tokenVars
<1>13. CASE DataTimeout
  BY <1>13 DEF DataTimeout, TypeOK, clockVars, syncVars, tokenVars
<1> QED
  BY <1>1, <1>2, <1>3, <1>4, <1>5, <1>6, <1>7, <1>8, <1>9, <1>10, <1>11, <1>12, <1>13
     DEF Next, Arrival

\* Steps that leave the clocks and the token alone keep what the token tells,
\* and the estimate as long as they leave it alone as well.
LEMMA TokenKept ==
    ASSUME TokenInv, UNCHANGED <<clockVars, tokenVars>>
    PROVE  TokenInv'
  BY DEF TokenInv, clockVars, tokenVars, Gain, PKNow

LEMMA EstimateKept ==
    ASSUME EstimateInv, UNCHANGED <<clockVars, syncVars>>
    PROVE  EstimateInv'
  BY DEF EstimateInv, clockVars, syncVars, tokenVars, Gain, Error, Half, OtherHalf

LEMMA NextTokenInv ==
    ASSUME IInv, [Next]_vars
    PROVE  TokenInv'
<1> USE Numbers DEF IInv
<1>1. CASE Tick
  BY <1>1 DEF Tick, TokenInv, syncVars, tokenVars, Gain, PKNow
<1>2. CASE SendToken
  BY <1>2 DEF SendToken, TokenInv, clockVars
<1>3. CASE PKReceives
  BY <1>3 DEF PKReceives, TokenInv, clockVars, Gain, PKNow
<1>4. CASE PKReplies
  BY <1>4 DEF PKReplies, TokenInv, clockVars, Gain, PKNow
<1>5. CASE Reply
  BY <1>5 DEF Reply, TokenInv, clockVars
<1>6. ASSUME NEW delay \in 0..MaxTransit, Chunk(delay)
      PROVE  TokenInv'
  BY <1>6, TokenKept DEF Chunk
<1>7. CASE Block \/ Unblock \/ MayTell \/ Silent \/ DataTimeout
  BY <1>7, TokenKept DEF Block, Unblock, MayTell, Silent, DataTimeout, syncVars
<1>8. ASSUME NEW st \in {"stable", "test"}, NEW src \in {"peer", "PK"}, Settle(st, src)
      PROVE  TokenInv'
  BY <1>8, TokenKept DEF Settle, syncVars
<1>9. CASE UNCHANGED vars
  BY <1>9, TokenKept DEF vars, syncVars
<1> QED
  BY <1>1, <1>2, <1>3, <1>4, <1>5, <1>6, <1>7, <1>8, <1>9
     DEF Next, Arrival

\* The reply makes the first estimate: half the round trip is taken off PK's
\* time of receipt, and both ways have taken some of that round trip.
LEMMA FirstEstimate ==
    ASSUME IInv, Reply
    PROVE  EstimateInv'
<1> USE DEF IInv
<1> DEFINE round == RoundTrip
           half == round \div 2
<1>1. /\ token = "down" /\ totalMod = 0
      /\ recvTime >= startClock + Gain - ahead
      /\ sendTime <= now + Gain + behind
  BY Numbers DEF Reply, TokenInv, EstimateInv
<1>2. round \in Nat /\ round >= now - startClock - (sendTime - recvTime)
  BY Numbers DEF RoundTrip, Elapsed
<1>3. half \in Nat /\ round - half \in Nat
  BY <1>2, Halves
<1>4. /\ UNCHANGED <<now, ahead, behind, startClock, totalMod>>
      /\ sync' = "SYNC_FINISH" /\ roundTime' = round /\ absStart' = recvTime - half
  BY DEF Reply, Estimate, clockVars
<1> HIDE DEF round
<1>5. Half' = half /\ OtherHalf' = round - half
  BY <1>4 DEF Half, OtherHalf
<1> HIDE DEF half
<1>6. Error' = recvTime - half - (startClock + Gain)
  BY <1>4 DEF Error, Gain
<1>7. -half - ahead <= Error' - totalMod' /\ Error' <= round - half + behind
  BY <1>1, <1>2, <1>3, <1>4, <1>6, Numbers
<1> QED
  BY <1>4, <1>5, <1>7 DEF EstimateInv

\* A correction is booked for what it moves the estimate, and does not move it
\* past PK's clock.
LEMMA Corrected ==
    ASSUME IInv, NEW delay \in Nat, Chunk(delay)
    PROVE  EstimateInv'
<1> USE DEF IInv
<1> DEFINE d == ChunkDelay(delay)
<1>1. /\ sync = "SYNC_FINISH"
      /\ UNCHANGED <<now, ahead, behind, sync, startClock, roundTime>>
  BY DEF Chunk, clockVars, tokenVars
<1>2. d \in Int /\ (d < 1 => d >= delay + Error)
  BY DelayError
<1>3. IF d < 1 THEN Compensate(d) ELSE UNCHANGED <<absStart, totalMod>>
  BY DEF Chunk
<1> HIDE DEF d
<1>4. Half' = Half /\ OtherHalf' = OtherHalf /\ Gain' = Gain
  BY <1>1 DEF Half, OtherHalf, Gain
<1>5. -Half - ahead <= Error - totalMod /\ Error <= OtherHalf + behind
  BY <1>1 DEF EstimateInv
<1>6. CASE UNCHANGED <<absStart, totalMod>>
  BY <1>1, <1>4, <1>5, <1>6 DEF EstimateInv, Error
<1>7. CASE d < 1 /\ absStart' = absStart - d /\ totalMod' = totalMod - d
  <2>1. Error' = Error - d /\ Error' \in Int
    BY <1>1, <1>2, <1>4, <1>7, Numbers DEF Error
  <2>2. Error' - totalMod' = Error - totalMod /\ Error' <= 0
    BY <2>1, <1>2, <1>7, Numbers
  <2>3. OtherHalf + behind >= 0
    BY Numbers
  <2>4. /\ -Half' - ahead' <= Error' - totalMod'
        /\ Error' <= OtherHalf' + behind'
    BY <2>1, <2>2, <2>3, <1>1, <1>4, <1>5, Numbers
  <2> QED
    BY <2>4, <1>1 DEF EstimateInv
<1> QED
  BY <1>3, <1>6, <1>7 DEF Compensate

LEMMA NextEstimateInv ==
    ASSUME IInv, [Next]_vars
    PROVE  EstimateInv'
<1> USE DEF IInv
<1>1. CASE Tick
  <2>1. UNCHANGED <<sync, startClock, roundTime, absStart, totalMod>>
    BY <1>1 DEF Tick, syncVars, tokenVars
  <2>2. Half' = Half /\ OtherHalf' = OtherHalf
    BY <2>1 DEF Half, OtherHalf
  <2>3. \/ Error' = Error /\ UNCHANGED <<ahead, behind>>
        \/ Error' = Error - 1 /\ ahead' = ahead + 1 /\ behind' = behind
        \/ Error' = Error + 1 /\ behind' = behind + 1 /\ ahead' = ahead
    BY <1>1, <2>1, Numbers DEF Tick, Error, Gain
  <2> QED
    BY <2>1, <2>2, <2>3, Numbers DEF EstimateInv
<1>2. CASE SendToken
  BY <1>2 DEF SendToken, EstimateInv
<1>3. CASE PKReceives
  BY <1>3 DEF PKReceives, EstimateInv, clockVars, Gain, Error, Half, OtherHalf
<1>4. CASE PKReplies
  BY <1>4 DEF PKReplies, EstimateInv, clockVars, Gain, Error, Half, OtherHalf
<1>5. CASE Reply
  BY <1>5, FirstEstimate
<1>6. ASSUME NEW delay \in 0..MaxTransit, Chunk(delay)
      PROVE  EstimateInv'
  BY <1>6, Corrected, SourceDelayAssumption
<1>7. CASE Block \/ Unblock \/ MayTell \/ Silent \/ DataTimeout
  BY <1>7, EstimateKept DEF Block, Unblock, MayTell, Silent, DataTimeout
<1>8. ASSUME NEW st \in {"stable", "test"}, NEW src \in {"peer", "PK"}, Settle(st, src)
      PROVE  EstimateInv'
  BY <1>8, EstimateKept DEF Settle
<1>9. CASE UNCHANGED vars
  BY <1>9, EstimateKept DEF vars
<1> QED
  BY <1>1, <1>2, <1>3, <1>4, <1>5, <1>6, <1>7, <1>8, <1>9
     DEF Next, Arrival

\* A chunk that seems late is late by PK's clock, but for the error.
LEMMA SeemsLate ==
    ASSUME IInv, NEW delay \in Nat, Chunk(delay), ChunkDelay(delay) > MaxDelay
    PROVE  run' = run + 1
<1>1. sync = "SYNC_FINISH" /\ run' = IF Late(delay) THEN run + 1 ELSE 0
  BY DEF Chunk
<1>2. Error <= OtherHalf + behind
  BY <1>1 DEF IInv, EstimateInv
<1>3. delay + Error + 2 > MaxDelay
  BY DelayError DEF IInv
<1>4. Error \in Int
  BY Numbers DEF IInv
<1>5. delay > MaxDelay - OtherHalf - behind - 2
  BY <1>2, <1>3, <1>4, Numbers DEF IInv
<1> QED
  BY <1>1, <1>5 DEF Late

LEMMA NextCountedAreLate ==
    ASSUME IInv, [Next]_vars
    PROVE  CountedAreLate'
<1> USE Numbers DEF IInv, CountedAreLate
<1>1. CASE Tick \/ SendToken \/ PKReceives \/ PKReplies \/ Reply
  BY <1>1 DEF Tick, SendToken, PKReceives, PKReplies, Reply, judgeVars
<1>2. ASSUME NEW delay \in 0..MaxTransit, Chunk(delay)
      PROVE  CountedAreLate'
  <2>1. delay \in Nat /\ run' \in Nat
    BY <1>2, SourceDelayAssumption DEF Chunk
  <2>2. CASE ChunkDelay(delay) > MaxDelay
    <3>1. run' = run + 1
      BY <1>2, <2>1, <2>2, SeemsLate
    <3>2. beyond' \in {0, beyond + 1}
      BY <1>2, <2>2 DEF Chunk, JudgeLate, Convict, GiveUpParent
    <3> QED
      BY <3>1, <3>2
  <2>3. CASE ~(ChunkDelay(delay) > MaxDelay)
    BY <1>2, <2>1, <2>3 DEF Chunk, JudgeTimely
  <2> QED
    BY <2>2, <2>3
<1>3. CASE Block \/ Unblock \/ MayTell \/ Silent \/ DataTimeout
  BY <1>3 DEF Block, Unblock, MayTell, Silent, DataTimeout
<1>4. ASSUME NEW st \in {"stable", "test"}, NEW src \in {"peer", "PK"}, Settle(st, src)
      PROVE  CountedAreLate'
  BY <1>4 DEF Settle
<1>5. CASE UNCHANGED vars
  BY <1>5 DEF vars, judgeVars
<1> QED
  BY <1>1, <1>2, <1>3, <1>4, <1>5 DEF Next, Arrival

\* The inductive invariant of the token, the estimate and the count.
THEOREM DelayInvariant == Spec => []IInv
<1>1. Init => IInv
  BY InitIInv
<1>2. IInv /\ [Next]_vars => IInv'
  BY NextTypeOK, NextTokenInv, NextEstimateInv, NextCountedAreLate DEF IInv
<1> QED
  BY <1>1, <1>2, PTL DEF Spec

\* Types.
THEOREM DelayTypeCorrect == Spec => []TypeOK
<1>1. IInv => TypeOK
  BY DEF IInv
<1> QED
  BY <1>1, DelayInvariant, PTL

\* The estimate of PK's clock that GetChunkSourceDelay uses is off by half a
\* round trip at most, and by the drift.
THEOREM EstimateIsBounded == Spec => []ErrorBounded
<1>1. IInv => ErrorBounded
  BY Numbers DEF IInv, EstimateInv, ErrorBounded
<1> QED
  BY <1>1, DelayInvariant, PTL

\* total_mod reaches syn_round_time only when PK's clock has drifted.
THEOREM CorrectionsSuffice == Spec => GivesUpOnlyByDrift
<1>1. IInv => \A delay \in 0..MaxTransit :
                 totalMod >= roundTime /\ ChunkDelay(delay) < 1 /\ Chunk(delay)
                   => ahead > OtherHalf
  <2> SUFFICES ASSUME IInv, NEW delay \in 0..MaxTransit,
                      Chunk(delay), ChunkDelay(delay) < 1, totalMod >= roundTime
               PROVE  ahead > OtherHalf
    OBVIOUS
  <2>1. delay \in Nat
    BY SourceDelayAssumption
  <2>2. Error < 0
    BY <2>1, DelayError, Numbers DEF IInv
  <2>3. -Half - ahead <= Error - totalMod
    BY DEF Chunk, IInv, EstimateInv
  <2> QED
    BY <2>2, <2>3, Numbers DEF IInv
<1> QED
  BY <1>1, DelayInvariant, PTL DEF GivesUpOnlyByDrift

\* SourceDelayDetection's verdict rests on more late chunks in a row than
\* source_delay_max_times.
THEOREM VerdictsAreFounded == Spec => NoFalseRescue
<1> DEFINE Verdict == (state # "rescue" /\ state' = "rescue") \/ (inTestSuccess /\ ~inTestSuccess')
<1>1. IInv /\ Arrival /\ Verdict => run' > DelayTimes
  <2> SUFFICES ASSUME IInv, NEW delay \in 0..MaxTransit, Chunk(delay), Verdict
               PROVE  run' > DelayTimes
    BY DEF Arrival
  <2>1. ChunkDelay(delay) > MaxDelay /\ JudgeLate
    BY DEF Chunk, JudgeTimely
  <2>2. beyond + 1 > DelayTimes
    BY <2>1 DEF JudgeLate
  <2>3. run' = run + 1
    BY <2>1, SeemsLate, SourceDelayAssumption
  <2> QED
    BY <2>2, <2>3, Numbers DEF IInv, CountedAreLate
<1> QED
  BY <1>1, DelayInvariant, PTL DEF NoFalseRescue

\* SendBlockRescue goes out at the second late chunk, before the verdict.
THEOREM ChildrenAreTold == Spec => ToldBeforeRescue
<1>1. IInv /\ Arrival /\ state # "rescue" /\ state' = "rescue" /\ DelayTimes > 0 => ~canSend'
  <2> SUFFICES ASSUME IInv, NEW delay \in 0..MaxTransit, Chunk(delay),
                      state # "rescue", state' = "rescue", DelayTimes > 0
               PROVE  ~canSend'
    BY DEF Arrival
  <2>1. JudgeLate
    BY DEF Chunk, JudgeTimely
  <2>2. beyond + 1 > DelayTimes /\ ~blocked /\ source # "PK"
    BY <2>1 DEF JudgeLate, Convict
  <2>3. beyond # 0
    BY <2>2, Numbers DEF IInv
  <2> QED
    BY <2>1, <2>2, <2>3 DEF JudgeLate
<1> QED
  BY <1>1, DelayInvariant, PTL DEF ToldBeforeRescue
=============================================================================
