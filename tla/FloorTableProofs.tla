---------------------------- MODULE FloorTableProofs ----------------------------
(***************************************************************************)
(* Proofs about the floor process: first about its payment hub, for every  *)
(* set of players, hands, amounts and every bound on the calls; then about *)
(* the table that the engine of PokerTable and the hub make up together,   *)
(* where the engine's callbacks are the only callers of the hub.           *)
(***************************************************************************)
EXTENDS FloorTable, PokerTableProofs, FiniteSetTheorems, SequenceTheorems, WellFoundedInduction,
        TLAPS

-------------------------------------------------------------------------------
(* Facts about the channel functions. *)

\* A tick keeps a channel well formed, adds one tick and the satoshis, and needs an ACTIVE channel
\* and a non-negative amount (channel-fsm.ts 193-221).
LEMMA TickMeter ==
    ASSUME NEW ch \in MeteringChannel, NEW sats \in Int, tick(ch, sats).ok
    PROVE  /\ ch.state = "ACTIVE"
           /\ sats \in Nat
           /\ tick(ch, sats).value \in MeteringChannel
           /\ tick(ch, sats).value.state = ch.state
           /\ tick(ch, sats).value.currentTick = ch.currentTick + 1
           /\ tick(ch, sats).value.cumulativeSatoshis = ch.cumulativeSatoshis + sats
  <1>1. ch.state = "ACTIVE" /\ sats >= 0
    BY DEF tick, Ok, Fail
  <1>2. tick(ch, sats).value
           = [ch EXCEPT !.currentTick = @ + 1, !.cumulativeSatoshis = @ + sats]
    BY <1>1 DEF tick, Ok
  <1>3. ch.currentTick + 1 \in Nat /\ ch.cumulativeSatoshis + sats \in Nat
    BY <1>1 DEF MeteringChannel
  <1> DEFINE t == ch.currentTick + 1
             c == ch.cumulativeSatoshis + sats
             v == [ch EXCEPT !.currentTick = t, !.cumulativeSatoshis = c]
  <1>4. t \in Nat /\ c \in Nat
    BY <1>3
  <1>5. v \in MeteringChannel /\ v.state = ch.state /\ v.currentTick = t /\ v.cumulativeSatoshis = c
    <2> HIDE DEF t, c
    <2> QED BY <1>4 DEF MeteringChannel
  <1> QED BY <1>1, <1>2, <1>5

\* A transition moves the state and leaves the meters alone, whether it succeeds or fails.
LEMMA MoveMeter ==
    ASSUME NEW ch \in MeteringChannel, NEW action, NEW to \in ChannelState
    PROVE  /\ Move(ch, action, to).value \in MeteringChannel
           /\ Move(ch, action, to).value.currentTick = ch.currentTick
           /\ Move(ch, action, to).value.cumulativeSatoshis = ch.cumulativeSatoshis
  BY DEF Move, Ok, Fail, MeteringChannel

\* A freshly opened channel is well formed with both meters at zero.
LEMMA OpenedMeter ==
    /\ OpenedChannel \in MeteringChannel
    /\ OpenedChannel.currentTick = 0
    /\ OpenedChannel.cumulativeSatoshis = 0
  <1>1. /\ createChannel \in MeteringChannel
        /\ createChannel.currentTick = 0
        /\ createChannel.cumulativeSatoshis = 0
    BY DEF createChannel, MeteringChannel, ChannelState
  <1>2. /\ fund(createChannel).value \in MeteringChannel
        /\ fund(createChannel).value.currentTick = 0
        /\ fund(createChannel).value.cumulativeSatoshis = 0
    BY <1>1, MoveMeter DEF fund, ChannelState
  <1> QED BY <1>2, MoveMeter DEF OpenedChannel, activate, ChannelState

\* Closing a channel leaves its meters alone (the loop body of settleAll 282-298).
LEMMA ClosedMeter ==
    ASSUME NEW ch \in MeteringChannel
    PROVE  /\ Closed(ch).value \in MeteringChannel
           /\ Closed(ch).value.currentTick = ch.currentTick
           /\ Closed(ch).value.cumulativeSatoshis = ch.cumulativeSatoshis
           /\ Closed(ch).ok \in BOOLEAN
  <1> DEFINE r == requestClose(ch).value
             c == confirmClose(r).value
             s == settle(c)
  <1>1. r \in MeteringChannel /\ r.currentTick = ch.currentTick /\ r.cumulativeSatoshis = ch.cumulativeSatoshis
    BY MoveMeter DEF requestClose, ChannelState
  <1>2. c \in MeteringChannel /\ c.currentTick = ch.currentTick /\ c.cumulativeSatoshis = ch.cumulativeSatoshis
    <2> HIDE DEF r
    <2> QED BY <1>1, MoveMeter DEF confirmClose, ChannelState
  <1>3. /\ s.value \in MeteringChannel
        /\ s.value.currentTick = ch.currentTick
        /\ s.value.cumulativeSatoshis = ch.cumulativeSatoshis
    <2> HIDE DEF c
    <2> QED BY <1>2, MoveMeter DEF settle, ChannelState
  <1>4. s.ok \in BOOLEAN
    <2> HIDE DEF c
    <2> QED BY DEF settle, Move, Ok, Fail
  <1>5. \/ Closed(ch) = s
        \/ Closed(ch) = Fail(ch)
    BY DEF Closed
  <1>6. Fail(ch).value = ch /\ Fail(ch).ok = FALSE
    BY DEF Fail
  <1> QED
    <2> HIDE DEF s
    <2> QED BY <1>3, <1>4, <1>5, <1>6
\* Booking a job stores its proof and adds its satoshis to one of the two books.
LEMMA BookedFields ==
    ASSUME NEW sc \in SeatChannel, NEW job \in Job
    PROVE  /\ Booked(sc, job) \in SeatChannel
           /\ Booked(sc, job).channel = sc.channel
           /\ Booked(sc, job).tickProofs = Append(sc.tickProofs, job.proof)
           /\ Booked(sc, job).betSats + Booked(sc, job).awardSats
                 = sc.betSats + sc.awardSats + job.satoshis
  <1> DEFINE proofs == Append(sc.tickProofs, job.proof)
             bet    == sc.betSats + (IF job.kind = "bet" THEN job.satoshis ELSE 0)
             award  == sc.awardSats + (IF job.kind = "award" THEN job.satoshis ELSE 0)
             b      == [sc EXCEPT !.tickProofs = proofs, !.betSats = bet, !.awardSats = award]
  <1>1. /\ proofs \in Seq(Proof)
        /\ bet \in Nat
        /\ award \in Nat
        /\ bet + award = sc.betSats + sc.awardSats + job.satoshis
    BY DEF SeatChannel, Job
  <1>2. /\ b \in SeatChannel
        /\ b.channel = sc.channel
        /\ b.tickProofs = proofs
        /\ b.betSats = bet
        /\ b.awardSats = award
    <2> HIDE DEF proofs, bet, award
    <2> QED BY <1>1 DEF SeatChannel
  <1>3. Booked(sc, job) = b
    BY DEF Booked, StoredProof
  <1> QED BY <1>1, <1>2, <1>3

\* Replacing the channel of a seat by a well formed one keeps the seat well formed.
LEMMA ChannelField ==
    ASSUME NEW sc \in SeatChannel, NEW ch \in MeteringChannel
    PROVE  /\ [sc EXCEPT !.channel = ch] \in SeatChannel
           /\ [sc EXCEPT !.channel = ch].channel = ch
           /\ [sc EXCEPT !.channel = ch].tickProofs = sc.tickProofs
           /\ [sc EXCEPT !.channel = ch].betSats = sc.betSats
           /\ [sc EXCEPT !.channel = ch].awardSats = sc.awardSats
  BY DEF SeatChannel

-------------------------------------------------------------------------------
(* What each action does to the channels and the queue. *)

\* The job a call queues, given the ticked channel.
QueuedJob(kind, p, sats, h, ticked) ==
    [kind |-> kind, playerId |-> p, satoshis |-> sats, handNumber |-> h,
     proof |-> computeTickProof(ticked)]

LEMMA TickStep ==
    ASSUME HubTypeOK, NEW kind \in {"bet", "award"}, NEW p \in Players, NEW sats \in Int,
           NEW h \in Hands, Accepts(p, sats), TickChannel(kind, p, sats, h)
    PROVE  /\ p \in DOMAIN channels
           /\ sats \in Nat
           /\ DOMAIN channels' = DOMAIN channels
           /\ channels' \in [DOMAIN channels -> SeatChannel]
           /\ \A q \in DOMAIN channels :
                 /\ channels'[q].tickProofs = channels[q].tickProofs
                 /\ channels'[q].betSats = channels[q].betSats
                 /\ channels'[q].awardSats = channels[q].awardSats
                 /\ q # p => channels'[q] = channels[q]
           /\ channels'[p].channel.currentTick = channels[p].channel.currentTick + 1
           /\ channels'[p].channel.cumulativeSatoshis = channels[p].channel.cumulativeSatoshis + sats
           /\ \E job \in Job :
                 /\ jobs' = Append(jobs, job)
                 /\ job.playerId = p
                 /\ job.satoshis = sats
                 /\ job.proof.tick = channels'[p].channel.currentTick
                 /\ job.proof.cumulativeSatoshis = channels'[p].channel.cumulativeSatoshis
           /\ UNCHANGED <<handPots, settled, stats, settleResults>>
  <1> DEFINE ch     == channels[p].channel
             ticked == tick(ch, sats).value
             job    == QueuedJob(kind, p, sats, h, ticked)
  <1>1. p \in DOMAIN channels /\ tick(ch, sats).ok
    BY DEF Accepts
  <1>2. channels[p] \in SeatChannel /\ ch \in MeteringChannel
    BY <1>1 DEF HubTypeOK, SeatChannel
  <1>3. /\ sats \in Nat
        /\ ticked \in MeteringChannel
        /\ ticked.currentTick = ch.currentTick + 1
        /\ ticked.cumulativeSatoshis = ch.cumulativeSatoshis + sats
    <2> HIDE DEF ch
    <2> QED BY <1>1, <1>2, TickMeter
  <1>4. /\ channels' = [channels EXCEPT ![p] = [channels[p] EXCEPT !.channel = ticked]]
        /\ jobs' = Append(jobs, job)
        /\ UNCHANGED <<handPots, settled, stats, settleResults>>
    BY DEF TickChannel, QueuedJob
  <1> HIDE DEF ticked, ch
  <1>5. /\ job \in Job
        /\ job.playerId = p
        /\ job.satoshis = sats
        /\ job.proof.tick = ticked.currentTick
        /\ job.proof.cumulativeSatoshis = ticked.cumulativeSatoshis
    BY <1>3 DEF QueuedJob, computeTickProof, Job, Proof, MeteringChannel
  <1> HIDE DEF job
  <1> DEFINE sc == [channels[p] EXCEPT !.channel = ticked]
  <1>6. /\ sc \in SeatChannel
        /\ sc.channel = ticked
        /\ sc.tickProofs = channels[p].tickProofs
        /\ sc.betSats = channels[p].betSats
        /\ sc.awardSats = channels[p].awardSats
    BY <1>2, <1>3, ChannelField
  <1>7. channels' = [channels EXCEPT ![p] = sc]
    BY <1>4
  <1> HIDE DEF sc
  <1>8. /\ DOMAIN channels' = DOMAIN channels
        /\ channels' \in [DOMAIN channels -> SeatChannel]
        /\ channels'[p] = sc
        /\ \A q \in DOMAIN channels : q # p => channels'[q] = channels[q]
    BY <1>1, <1>6, <1>7 DEF HubTypeOK
  <1>9. \A q \in DOMAIN channels :
            /\ channels'[q].tickProofs = channels[q].tickProofs
            /\ channels'[q].betSats = channels[q].betSats
            /\ channels'[q].awardSats = channels[q].awardSats
            /\ q # p => channels'[q] = channels[q]
    BY <1>6, <1>8
  <1>10. /\ channels'[p].channel.currentTick = channels[p].channel.currentTick + 1
         /\ channels'[p].channel.cumulativeSatoshis = channels[p].channel.cumulativeSatoshis + sats
    BY <1>3, <1>6, <1>8 DEF ch
  <1>11. \E j \in Job :
            /\ jobs' = Append(jobs, j)
            /\ j.playerId = p
            /\ j.satoshis = sats
            /\ j.proof.tick = channels'[p].channel.currentTick
            /\ j.proof.cumulativeSatoshis = channels'[p].channel.cumulativeSatoshis
    BY <1>4, <1>5, <1>6, <1>8
  <1> QED BY <1>1, <1>3, <1>4, <1>8, <1>9, <1>10, <1>11

LEMMA RunJobStep ==
    ASSUME HubTypeOK, RunJob
    PROVE  LET job == Head(jobs)
               p   == job.playerId
           IN  /\ jobs # <<>>
               /\ job \in Job
               /\ p \in DOMAIN channels
               /\ jobs' = Tail(jobs)
               /\ DOMAIN channels' = DOMAIN channels
               /\ channels' \in [DOMAIN channels -> SeatChannel]
               /\ \A q \in DOMAIN channels :
                     /\ channels'[q].channel = channels[q].channel
                     /\ q # p => channels'[q] = channels[q]
               /\ channels'[p].tickProofs = Append(channels[p].tickProofs, job.proof)
               /\ channels'[p].betSats + channels'[p].awardSats
                     = channels[p].betSats + channels[p].awardSats + job.satoshis
               /\ handPots' \in [Hands -> Nat]
               /\ stats' \in HubStats
               /\ UNCHANGED <<settled, settleResults>>
  <1> DEFINE job == Head(jobs)
             p   == job.playerId
  <1>1. jobs # <<>> /\ jobs \in Seq(Job)
    BY DEF RunJob, HubTypeOK
  <1>2. job = jobs[1] /\ 1 \in 1..Len(jobs) /\ job \in Job
    BY <1>1
  <1>3. p \in DOMAIN channels
    BY <1>2 DEF HubTypeOK
  <1>4. channels[p] \in SeatChannel
    BY <1>3 DEF HubTypeOK
  <1>5. /\ channels' = [channels EXCEPT ![p] = Booked(channels[p], job)]
        /\ jobs' = Tail(jobs)
        /\ UNCHANGED <<settled, settleResults>>
    BY DEF RunJob, NextJob, RemainingJobs
  <1>6. /\ handPots' \in [Hands -> Nat]
        /\ stats' \in HubStats
    <2>1. CASE job.kind = "bet"
      <3>1. /\ handPots' = [handPots EXCEPT ![job.handNumber] = @ + job.satoshis]
            /\ stats' = BetStats(job.satoshis)
        BY <2>1 DEF RunJob, NextJob
      <3>2. handPots' \in [Hands -> Nat]
        BY <1>2, <3>1 DEF HubTypeOK, Job
      <3>3. stats' \in HubStats
        <4> DEFINE t == stats.totalTicks + 1
                   s == stats.totalSatsTransferred + job.satoshis
        <4>1. t \in Nat /\ s \in Nat
          BY <1>2, SMTT(30) DEF HubTypeOK, HubStats, Job
        <4>2. stats' = [stats EXCEPT !.totalTicks = t, !.totalSatsTransferred = s]
          BY <3>1 DEF BetStats
        <4> HIDE DEF t, s
        <4> QED BY <4>1, <4>2 DEF HubTypeOK, HubStats
      <3> QED BY <3>2, <3>3
    <2>2. CASE job.kind # "bet"
      <3>1. stats' = AwardStats(job.satoshis) /\ UNCHANGED handPots
        BY <2>2 DEF RunJob, NextJob
      <3>2. stats' \in HubStats
        <4> DEFINE t == stats.totalTicks + 1
                   n == stats.totalPotsAwarded + 1
                   s == stats.totalSatsAwarded + job.satoshis
        <4>1. t \in Nat /\ n \in Nat /\ s \in Nat
          <5>1. stats.totalTicks \in Nat /\ stats.totalPotsAwarded \in Nat /\ stats.totalSatsAwarded \in Nat
            BY DEF HubTypeOK, HubStats
          <5>2. job.satoshis \in Nat
            BY <1>2 DEF Job
          <5> QED BY <5>1, <5>2
        <4>2. stats' = [stats EXCEPT !.totalTicks = t, !.totalPotsAwarded = n, !.totalSatsAwarded = s]
          BY <3>1 DEF AwardStats
        <4> HIDE DEF t, n, s
        <4> QED BY <4>1, <4>2 DEF HubTypeOK, HubStats
      <3> QED BY <3>1, <3>2 DEF HubTypeOK
    <2> QED BY <2>1, <2>2
  <1> HIDE DEF job
  <1> DEFINE b == Booked(channels[p], job)
  <1>7. /\ b \in SeatChannel
        /\ b.channel = channels[p].channel
        /\ b.tickProofs = Append(channels[p].tickProofs, job.proof)
        /\ b.betSats + b.awardSats = channels[p].betSats + channels[p].awardSats + job.satoshis
    BY <1>2, <1>4, BookedFields
  <1>8. channels' = [channels EXCEPT ![p] = b]
    BY <1>5
  <1> HIDE DEF b
  <1>9. /\ DOMAIN channels' = DOMAIN channels
        /\ channels' \in [DOMAIN channels -> SeatChannel]
        /\ channels'[p] = b
        /\ \A q \in DOMAIN channels : q # p => channels'[q] = channels[q]
    BY <1>3, <1>7, <1>8 DEF HubTypeOK
  <1>10. \A q \in DOMAIN channels :
            /\ channels'[q].channel = channels[q].channel
            /\ q # p => channels'[q] = channels[q]
    BY <1>7, <1>9
  <1> QED BY <1>1, <1>2, <1>3, <1>5, <1>6, <1>7, <1>9, <1>10 DEF job

LEMMA SettleStep ==
    ASSUME HubTypeOK, settleAll
    PROVE  /\ DOMAIN channels' = DOMAIN channels
           /\ channels' \in [DOMAIN channels -> SeatChannel]
           /\ \A q \in DOMAIN channels :
                 /\ channels'[q].channel.currentTick = channels[q].channel.currentTick
                 /\ channels'[q].channel.cumulativeSatoshis = channels[q].channel.cumulativeSatoshis
                 /\ channels'[q].tickProofs = channels[q].tickProofs
                 /\ channels'[q].betSats = channels[q].betSats
                 /\ channels'[q].awardSats = channels[q].awardSats
           /\ stats' \in HubStats
           /\ settled' = TRUE
           /\ settleResults' \in [DOMAIN channels -> SettleResult]
           /\ UNCHANGED <<handPots, jobs>>
  <1>1. channels' = [q \in DOMAIN channels |->
                       [channels[q] EXCEPT !.channel = Closed(channels[q].channel).value]]
    BY DEF settleAll
  <1>2. ASSUME NEW q \in DOMAIN channels
        PROVE  /\ channels'[q] \in SeatChannel
               /\ channels'[q].channel.currentTick = channels[q].channel.currentTick
               /\ channels'[q].channel.cumulativeSatoshis = channels[q].channel.cumulativeSatoshis
               /\ channels'[q].tickProofs = channels[q].tickProofs
               /\ channels'[q].betSats = channels[q].betSats
               /\ channels'[q].awardSats = channels[q].awardSats
    <2> DEFINE ch == Closed(channels[q].channel).value
               sc == channels[q]
    <2>1. sc \in SeatChannel /\ sc.channel \in MeteringChannel
      BY DEF HubTypeOK, SeatChannel
    <2>2. /\ ch \in MeteringChannel
          /\ ch.currentTick = sc.channel.currentTick
          /\ ch.cumulativeSatoshis = sc.channel.cumulativeSatoshis
      BY <2>1, ClosedMeter
    <2>3. channels'[q] = [sc EXCEPT !.channel = ch]
      BY <1>1
    <2> HIDE DEF ch, sc
    <2>4. /\ [sc EXCEPT !.channel = ch] \in SeatChannel
          /\ [sc EXCEPT !.channel = ch].channel = ch
          /\ [sc EXCEPT !.channel = ch].tickProofs = sc.tickProofs
          /\ [sc EXCEPT !.channel = ch].betSats = sc.betSats
          /\ [sc EXCEPT !.channel = ch].awardSats = sc.awardSats
      BY <2>1, <2>2, ChannelField
    <2>5. /\ channels'[q] \in SeatChannel
          /\ channels'[q].channel = ch
          /\ channels'[q].tickProofs = sc.tickProofs
          /\ channels'[q].betSats = sc.betSats
          /\ channels'[q].awardSats = sc.awardSats
      BY <2>3, <2>4
    <2> QED BY <2>2, <2>5 DEF sc
  <1>3. stats' \in HubStats
    <2>1. IsFiniteSet(Closable)
      BY HubAssumption, FS_Subset DEF HubAssumption, HubTypeOK, Closable
    <2> DEFINE n == stats.totalChannelsSettled + Cardinality(Closable)
    <2>2. n \in Nat
      BY <2>1, FS_CardinalityType DEF HubTypeOK, HubStats
    <2>3. stats' = [stats EXCEPT !.totalChannelsSettled = n]
      BY DEF settleAll
    <2> HIDE DEF n
    <2> QED BY <2>2, <2>3 DEF HubTypeOK, HubStats
  <1>4. settleResults' \in [DOMAIN channels -> SettleResult]
    <2> DEFINE result(q) == [settled   |-> q \in Closable,
                             tickCount |-> Len(channels[q].tickProofs),
                             netSats   |-> channels[q].awardSats - channels[q].betSats]
    <2>1. ASSUME NEW q \in DOMAIN channels PROVE result(q) \in SettleResult
      <3>1. channels[q] \in SeatChannel
        BY DEF HubTypeOK
      <3>2. Len(channels[q].tickProofs) \in Nat /\ channels[q].awardSats - channels[q].betSats \in Int
        BY <3>1 DEF SeatChannel
      <3>3. (q \in Closable) \in BOOLEAN
        OBVIOUS
      <3> QED BY <3>2, <3>3 DEF SettleResult
    <2>2. settleResults' = [q \in DOMAIN channels |-> result(q)]
      BY DEF settleAll
    <2> HIDE DEF result
    <2> QED BY <2>1, <2>2
  <1>5. settled' = TRUE /\ UNCHANGED <<handPots, jobs>>
    BY DEF settleAll
  <1> QED BY <1>1, <1>2, <1>3, <1>4, <1>5

LEMMA OpenStep ==
    ASSUME HubTypeOK, NEW them \in SUBSET Players, DOMAIN channels = {}, openChannels(them)
    PROVE  /\ DOMAIN channels' = them
           /\ channels' \in [them -> SeatChannel]
           /\ \A q \in them : channels'[q] = [channel |-> OpenedChannel, betSats |-> 0,
                                               awardSats |-> 0, tickProofs |-> <<>>]
           /\ stats' \in HubStats
           /\ UNCHANGED <<handPots, settled, jobs, settleResults>>
  <1> DEFINE fresh == [channel |-> OpenedChannel, betSats |-> 0, awardSats |-> 0, tickProofs |-> <<>>]
  <1>1. fresh \in SeatChannel
    BY OpenedMeter DEF SeatChannel
  <1>2. channels' = [q \in DOMAIN channels \cup them |-> IF q \in them THEN fresh ELSE channels[q]]
    BY DEF openChannels
  <1>3. stats' \in HubStats
    <2>1. IsFiniteSet(them)
      BY HubAssumption, FS_Subset DEF HubAssumption
    <2> DEFINE n == stats.totalChannelsOpened + Cardinality(them)
    <2>2. n \in Nat
      BY <2>1, FS_CardinalityType DEF HubTypeOK, HubStats
    <2>3. stats' = [stats EXCEPT !.totalChannelsOpened = n]
      BY DEF openChannels
    <2> HIDE DEF n
    <2> QED BY <2>2, <2>3 DEF HubTypeOK, HubStats
  <1>4. UNCHANGED <<handPots, settled, jobs, settleResults>>
    BY DEF openChannels
  <1> HIDE DEF fresh
  <1>5. /\ DOMAIN channels' = them
        /\ channels' \in [them -> SeatChannel]
        /\ \A q \in them : channels'[q] = fresh
    BY <1>1, <1>2
  <1> QED BY <1>3, <1>4, <1>5 DEF fresh

-------------------------------------------------------------------------------
(* Type correctness. *)

LEMMA HubInitTypeOK == HubInit => HubTypeOK
  <1> SUFFICES ASSUME HubInit PROVE HubTypeOK
    OBVIOUS
  <1>1. stats \in HubStats
    BY DEF HubInit, HubStats
  <1>2. DOMAIN channels = {} /\ channels \in [DOMAIN channels -> SeatChannel]
    BY DEF HubInit
  <1>3. DOMAIN settleResults = {} /\ settleResults \in [DOMAIN settleResults -> SettleResult]
    BY DEF HubInit
  <1>4. handPots \in [Hands -> Nat] /\ settled \in BOOLEAN
    BY DEF HubInit
  <1>5. jobs \in Seq(Job) /\ \A i \in 1..Len(jobs) : jobs[i].playerId \in DOMAIN channels
    BY DEF HubInit
  <1> QED BY <1>1, <1>2, <1>3, <1>4, <1>5 DEF HubTypeOK

LEMMA HubNextTypeOK == HubTypeOK /\ [HubNext]_hubVars => HubTypeOK'
  <1> SUFFICES ASSUME HubTypeOK, [HubNext]_hubVars PROVE HubTypeOK'
    OBVIOUS
  <1>1. CASE OpenOnce
    <2>1. PICK them \in SUBSET Players : DOMAIN channels = {} /\ openChannels(them)
      BY <1>1 DEF OpenOnce
    <2>2. \A i \in 1..Len(jobs) : FALSE
      BY <2>1 DEF HubTypeOK
    <2> QED BY <2>1, <2>2, OpenStep DEF HubTypeOK
  <1>2. CASE Call
    <2>1. PICK kind \in {"bet", "award"}, p \in Players, sats \in Amounts, h \in Hands :
            Accepts(p, sats) /\ TickChannel(kind, p, sats, h)
      BY <1>2 DEF Call, recordBet, awardPot
    <2>2. sats \in Int
      BY HubAssumption DEF HubAssumption
    <2>3. PICK job \in Job : jobs' = Append(jobs, job) /\ job.playerId = p
      BY <2>1, <2>2, TickStep
    <2>4. jobs' \in Seq(Job) /\ \A i \in 1..Len(jobs') : jobs'[i].playerId \in DOMAIN channels
      BY <2>1, <2>3 DEF HubTypeOK, Accepts
    <2>5. /\ DOMAIN channels' = DOMAIN channels
          /\ channels' \in [DOMAIN channels -> SeatChannel]
          /\ UNCHANGED <<handPots, settled, stats, settleResults>>
      BY <2>1, <2>2, TickStep
    <2> QED BY <2>4, <2>5 DEF HubTypeOK
  <1>3. CASE RunJob
    <2>1. jobs # <<>> /\ jobs' = Tail(jobs)
      BY <1>3, RunJobStep
    <2>2. jobs' \in Seq(Job) /\ \A i \in 1..Len(jobs') : jobs'[i].playerId \in DOMAIN channels
      BY <2>1 DEF HubTypeOK
    <2>3. /\ DOMAIN channels' = DOMAIN channels
          /\ channels' \in [DOMAIN channels -> SeatChannel]
          /\ handPots' \in [Hands -> Nat]
          /\ stats' \in HubStats
          /\ UNCHANGED <<settled, settleResults>>
      BY <1>3, RunJobStep
    <2> QED BY <2>2, <2>3 DEF HubTypeOK
  <1>4. CASE settleAll
    BY <1>4, SettleStep DEF HubTypeOK
  <1>5. CASE UNCHANGED hubVars
    BY <1>5 DEF hubVars, HubTypeOK
  <1> QED BY <1>1, <1>2, <1>3, <1>4, <1>5 DEF HubNext

\* Every reachable state of the hub is well typed, whoever calls it and in whatever order; in
\* particular every queued continuation belongs to an opened channel, so none can fail.
THEOREM HubTypeCorrect == HubSpec => []HubTypeOK
  <1> QED BY HubInitTypeOK, HubNextTypeOK, PTL DEF HubSpec

-------------------------------------------------------------------------------
(* The receipts.  ReceiptsInOrder and ReceiptsCoverBooks speak of stored     *)
(* proofs only and are not inductive: what the next job will store has to be *)
(* known.  Queue says it for every player: the ticks queued are exactly the  *)
(* ticks without a stored receipt, in increasing order, and each queued      *)
(* total is the previous tick's total plus the satoshis of the call.         *)

Queue(p) ==
    LET sc     == channels[p]
        stored == Len(sc.tickProofs)
        now    == sc.channel.currentTick
    IN  /\ stored <= now
        /\ \A i \in 1..Len(jobs) : jobs[i].playerId = p =>
              stored < jobs[i].proof.tick /\ jobs[i].proof.tick <= now
        /\ \A i, k \in 1..Len(jobs) : jobs[i].playerId = p /\ jobs[k].playerId = p /\ i < k =>
              jobs[i].proof.tick < jobs[k].proof.tick
        /\ \A t \in (stored + 1)..now : \E i \in 1..Len(jobs) :
              jobs[i].playerId = p /\ jobs[i].proof.tick = t

Totals(p) ==
    LET sc     == channels[p]
        stored == Len(sc.tickProofs)
        now    == sc.channel.currentTick
    IN  /\ stored = now => sc.channel.cumulativeSatoshis = LastTotal(sc)
        /\ \A i \in 1..Len(jobs) : jobs[i].playerId = p =>
              /\ jobs[i].proof.tick = stored + 1 =>
                    jobs[i].proof.cumulativeSatoshis = LastTotal(sc) + jobs[i].satoshis
              /\ jobs[i].proof.tick = now =>
                    jobs[i].proof.cumulativeSatoshis = sc.channel.cumulativeSatoshis
        /\ \A i, k \in 1..Len(jobs) :
              jobs[i].playerId = p /\ jobs[k].playerId = p
                /\ jobs[k].proof.tick = jobs[i].proof.tick + 1 =>
                  jobs[k].proof.cumulativeSatoshis
                    = jobs[i].proof.cumulativeSatoshis + jobs[k].satoshis

Receipts(p) ==
    LET sc == channels[p]
    IN  /\ \A i \in 1..Len(sc.tickProofs) : sc.tickProofs[i].tick = i
        /\ \A i \in 1..(Len(sc.tickProofs) - 1) :
              sc.tickProofs[i].cumulativeSatoshis <= sc.tickProofs[i + 1].cumulativeSatoshis
        /\ sc.betSats + sc.awardSats = LastTotal(sc)

HubInv == HubTypeOK /\ \A p \in DOMAIN channels : Queue(p) /\ Totals(p) /\ Receipts(p)

\* The state a player's part of the invariant reads, with its types.
LEMMA SeatTypes ==
    ASSUME HubTypeOK, NEW p \in DOMAIN channels
    PROVE  /\ channels[p] \in SeatChannel
           /\ channels[p].tickProofs \in Seq(Proof)
           /\ Len(channels[p].tickProofs) \in Nat
           /\ channels[p].channel.currentTick \in Nat
           /\ channels[p].channel.cumulativeSatoshis \in Nat
           /\ LastTotal(channels[p]) \in Nat
           /\ channels[p].betSats + channels[p].awardSats \in Nat
  <1>1. channels[p] \in SeatChannel
    BY DEF HubTypeOK
  <1>2. channels[p].tickProofs \in Seq(Proof) /\ channels[p].channel \in MeteringChannel
    BY <1>1 DEF SeatChannel
  <1> DEFINE proofs == channels[p].tickProofs
  <1>3. LastTotal(channels[p]) \in Nat
    <2>1. CASE proofs = <<>>
      BY <2>1 DEF LastTotal
    <2>2. CASE proofs # <<>>
      <3>1. Len(proofs) \in 1..Len(proofs)
        BY <1>2, <2>2
      <3>2. proofs[Len(proofs)] \in Proof
        BY <1>2, <3>1
      <3> QED BY <2>2, <3>2 DEF LastTotal, Proof
    <2> QED BY <2>1, <2>2
  <1>4. channels[p].betSats \in Nat /\ channels[p].awardSats \in Nat
    BY <1>1 DEF SeatChannel
  <1> QED BY <1>1, <1>2, <1>3, <1>4 DEF MeteringChannel

LEMMA JobTypes ==
    ASSUME HubTypeOK, NEW i \in 1..Len(jobs)
    PROVE  /\ jobs[i] \in Job
           /\ jobs[i].proof \in Proof
           /\ jobs[i].proof.tick \in Nat
           /\ jobs[i].proof.cumulativeSatoshis \in Nat
           /\ jobs[i].satoshis \in Nat
  <1>1. jobs[i] \in Job
    BY DEF HubTypeOK
  <1>2. jobs[i].proof \in Proof /\ jobs[i].satoshis \in Nat
    BY <1>1 DEF Job
  <1> QED BY <1>1, <1>2 DEF Proof

\* The head of the queue is the next tick its channel is waiting for.
LEMMA HeadIsNext ==
    ASSUME HubTypeOK, jobs # <<>>, NEW p \in DOMAIN channels, jobs[1].playerId = p, Queue(p), Totals(p)
    PROVE  /\ jobs[1].proof.tick = Len(channels[p].tickProofs) + 1
           /\ jobs[1].proof.cumulativeSatoshis = LastTotal(channels[p]) + jobs[1].satoshis
  <1> DEFINE stored == Len(channels[p].tickProofs)
             now    == channels[p].channel.currentTick
  <1>1. Len(jobs) \in Nat /\ 1 \in 1..Len(jobs)
    BY DEF HubTypeOK
  <1>2. stored \in Nat /\ now \in Nat
    BY SeatTypes
  <1>3. stored < jobs[1].proof.tick /\ jobs[1].proof.tick <= now
    BY <1>1 DEF Queue
  <1>4. jobs[1].proof.tick \in Nat
    BY <1>1, JobTypes
  <1>5. PICK i \in 1..Len(jobs) : jobs[i].playerId = p /\ jobs[i].proof.tick = stored + 1
    <2>1. stored + 1 \in (stored + 1)..now
      BY <1>2, <1>3, <1>4
    <2> QED BY <2>1 DEF Queue
  <1>6. i = 1 \/ 1 < i
    BY <1>1
  <1>7. 1 < i => jobs[1].proof.tick < stored + 1
    BY <1>1, <1>5 DEF Queue
  <1>8. jobs[1].proof.tick = stored + 1
    BY <1>2, <1>3, <1>4, <1>5, <1>6, <1>7
  <1>9. jobs[1].proof.cumulativeSatoshis = LastTotal(channels[p]) + jobs[1].satoshis
    BY <1>1, <1>8 DEF Totals
  <1> QED BY <1>8, <1>9

\* Running the head job of another player only shifts the queue.
LEMMA ShiftOther ==
    ASSUME HubTypeOK, jobs # <<>>, jobs' = Tail(jobs),
           NEW p \in DOMAIN channels, jobs[1].playerId # p, channels'[p] = channels[p],
           Queue(p), Totals(p), Receipts(p)
    PROVE  Queue(p)' /\ Totals(p)' /\ Receipts(p)'
  <1>1. /\ Len(jobs) \in Nat \ {0}
        /\ Len(jobs') = Len(jobs) - 1
        /\ \A i \in 1..Len(jobs') : i + 1 \in 1..Len(jobs) /\ jobs'[i] = jobs[i + 1]
    BY DEF HubTypeOK
  <1>2. \A i \in 1..Len(jobs) : jobs[i].playerId = p => i - 1 \in 1..Len(jobs') /\ jobs'[i - 1] = jobs[i]
    BY <1>1
  <1>3. Queue(p)'
    <2> DEFINE stored == Len(channels[p].tickProofs)
               now    == channels[p].channel.currentTick
    <2>1. \A i, k \in 1..Len(jobs') : jobs'[i].playerId = p /\ jobs'[k].playerId = p /\ i < k =>
              jobs'[i].proof.tick < jobs'[k].proof.tick
      BY <1>1 DEF Queue
    <2>2. \A t \in (stored + 1)..now : \E i \in 1..Len(jobs') :
              jobs'[i].playerId = p /\ jobs'[i].proof.tick = t
      <3> SUFFICES ASSUME NEW t \in (stored + 1)..now
                   PROVE  \E i \in 1..Len(jobs') : jobs'[i].playerId = p /\ jobs'[i].proof.tick = t
        OBVIOUS
      <3>1. PICK i \in 1..Len(jobs) : jobs[i].playerId = p /\ jobs[i].proof.tick = t
        BY DEF Queue
      <3>2. i - 1 \in 1..Len(jobs') /\ jobs'[i - 1] = jobs[i]
        BY <1>2, <3>1
      <3> QED BY <3>1, <3>2
    <2>3. \A i \in 1..Len(jobs') : jobs'[i].playerId = p =>
              stored < jobs'[i].proof.tick /\ jobs'[i].proof.tick <= now
      BY <1>1 DEF Queue
    <2> QED BY <2>1, <2>2, <2>3 DEF Queue
  <1>4. Totals(p)'
    BY <1>1 DEF Totals, LastTotal
  <1>5. Receipts(p)'
    BY DEF Receipts, LastTotal
  <1> QED BY <1>3, <1>4, <1>5

\* Queueing a job of another player changes nothing for p.
LEMMA AppendOther ==
    ASSUME HubTypeOK, NEW job \in Job, jobs' = Append(jobs, job),
           NEW p \in DOMAIN channels, job.playerId # p, channels'[p] = channels[p],
           Queue(p), Totals(p), Receipts(p)
    PROVE  Queue(p)' /\ Totals(p)' /\ Receipts(p)'
  <1>1. /\ Len(jobs) \in Nat
        /\ Len(jobs') = Len(jobs) + 1
        /\ \A i \in 1..Len(jobs) : i \in 1..Len(jobs') /\ jobs'[i] = jobs[i]
        /\ jobs'[Len(jobs')] = job
    BY DEF HubTypeOK
  <1>2. \A i \in 1..Len(jobs') : jobs'[i].playerId = p => i \in 1..Len(jobs) /\ jobs'[i] = jobs[i]
    BY <1>1
  <1>3. Queue(p)'
    BY <1>1, <1>2 DEF Queue
  <1>4. Totals(p)'
    BY <1>2 DEF Totals, LastTotal
  <1>5. Receipts(p)'
    BY DEF Receipts, LastTotal
  <1> QED BY <1>3, <1>4, <1>5

\* A call of p queues the receipt of its next tick.
LEMMA AppendOwn ==
    ASSUME HubTypeOK, NEW p \in DOMAIN channels, NEW sats \in Nat, NEW job \in Job,
           jobs' = Append(jobs, job), job.playerId = p, job.satoshis = sats,
           channels'[p].tickProofs = channels[p].tickProofs,
           channels'[p].betSats = channels[p].betSats,
           channels'[p].awardSats = channels[p].awardSats,
           channels'[p].channel.currentTick = channels[p].channel.currentTick + 1,
           channels'[p].channel.cumulativeSatoshis = channels[p].channel.cumulativeSatoshis + sats,
           job.proof.tick = channels[p].channel.currentTick + 1,
           job.proof.cumulativeSatoshis = channels[p].channel.cumulativeSatoshis + sats,
           Queue(p), Totals(p), Receipts(p)
    PROVE  Queue(p)' /\ Totals(p)' /\ Receipts(p)'
  <1> DEFINE stored == Len(channels[p].tickProofs)
             now    == channels[p].channel.currentTick
             cum    == channels[p].channel.cumulativeSatoshis
             last   == LastTotal(channels[p])
             n      == Len(jobs)
  <1>1. /\ n \in Nat
        /\ Len(jobs') = n + 1
        /\ \A i \in 1..n : i \in 1..(n + 1) /\ jobs'[i] = jobs[i]
        /\ jobs'[n + 1] = job
        /\ \A i \in 1..(n + 1) : i \in 1..n \/ i = n + 1
    BY DEF HubTypeOK
  <1>2. stored \in Nat /\ now \in Nat /\ cum \in Nat /\ last \in Nat
    BY SeatTypes
  <1>3. \A i \in 1..n : jobs[i].proof.tick \in Nat /\ jobs[i].proof.cumulativeSatoshis \in Nat
    BY JobTypes
  <1>4. LastTotal(channels'[p]) = last
    BY DEF LastTotal
  <1>5. Queue(p)'
    <2>1. stored <= now + 1
      BY <1>2 DEF Queue
    <2>2. \A i \in 1..(n + 1) : jobs'[i].playerId = p =>
              stored < jobs'[i].proof.tick /\ jobs'[i].proof.tick <= now + 1
      BY <1>1, <1>2, <1>3 DEF Queue
    <2>3. \A i, k \in 1..(n + 1) : jobs'[i].playerId = p /\ jobs'[k].playerId = p /\ i < k =>
              jobs'[i].proof.tick < jobs'[k].proof.tick
      BY <1>1, <1>2, <1>3 DEF Queue
    <2>4. \A t \in (stored + 1)..(now + 1) : \E i \in 1..(n + 1) :
              jobs'[i].playerId = p /\ jobs'[i].proof.tick = t
      <3> SUFFICES ASSUME NEW t \in (stored + 1)..(now + 1)
                   PROVE  \E i \in 1..(n + 1) : jobs'[i].playerId = p /\ jobs'[i].proof.tick = t
        OBVIOUS
      <3>1. CASE t = now + 1
        BY <1>1, <3>1
      <3>2. CASE t # now + 1
        <4>1. t \in (stored + 1)..now
          BY <1>2, <3>2
        <4>2. PICK i \in 1..n : jobs[i].playerId = p /\ jobs[i].proof.tick = t
          BY <4>1 DEF Queue
        <4> QED BY <1>1, <4>2
      <3> QED BY <3>1, <3>2
    <2> QED BY <1>1, <2>1, <2>2, <2>3, <2>4, SMTT(30) DEF Queue
  <1>6. Totals(p)'
    <2>1. stored # now + 1
      BY <1>2 DEF Queue
    <2>2. \A i \in 1..n : jobs[i].playerId = p => jobs[i].proof.tick <= now
      BY DEF Queue
    <2>3. ASSUME NEW i \in 1..(n + 1), jobs'[i].playerId = p
          PROVE  /\ jobs'[i].proof.tick = stored + 1 =>
                       jobs'[i].proof.cumulativeSatoshis = last + jobs'[i].satoshis
                 /\ jobs'[i].proof.tick = now + 1 => jobs'[i].proof.cumulativeSatoshis = cum + sats
      <3>1. CASE i \in 1..n
        BY <1>1, <1>2, <1>3, <2>2, <2>3, <3>1 DEF Totals
      <3>2. CASE i = n + 1
        <4>1. now + 1 = stored + 1 => cum = last
          BY <1>2, SMTT(30) DEF Totals
        <4> QED BY <1>1, <1>2, <3>2, <4>1
      <3> QED BY <1>1, <3>1, <3>2
    <2>4. ASSUME NEW i \in 1..(n + 1), NEW k \in 1..(n + 1),
                 jobs'[i].playerId = p, jobs'[k].playerId = p,
                 jobs'[k].proof.tick = jobs'[i].proof.tick + 1
          PROVE  jobs'[k].proof.cumulativeSatoshis
                   = jobs'[i].proof.cumulativeSatoshis + jobs'[k].satoshis
      <3>1. CASE i \in 1..n /\ k \in 1..n
        BY <1>1, <2>4, <3>1 DEF Totals
      <3>2. CASE i \in 1..n /\ k = n + 1
        <4>1. jobs[i].proof.tick = now
          <5>1. jobs'[k].proof.tick = now + 1 /\ jobs'[i] = jobs[i] /\ jobs[i].proof.tick \in Nat
            BY <1>1, <1>3, <3>2
          <5>2. now + 1 = jobs[i].proof.tick + 1
            BY <2>4, <5>1
          <5> DEFINE t == jobs[i].proof.tick
          <5>3. t \in Nat /\ now \in Nat /\ now + 1 = t + 1
            BY <1>2, <5>1, <5>2
          <5>4. t = now
            <6> HIDE DEF t, now
            <6> QED BY <5>3
          <5> QED BY <5>4
        <4>2. jobs[i].proof.cumulativeSatoshis = cum
          BY <1>1, <2>4, <3>2, <4>1 DEF Totals
        <4> QED BY <1>1, <3>2, <4>2
      <3>3. CASE i = n + 1
        <4>1. jobs'[k].proof.tick = now + 2
          BY <1>1, <1>2, <2>4, <3>3
        <4>2. jobs'[k].proof.tick <= now + 1
          BY <1>1, <1>2, <1>3, <2>2, <2>4, SMTT(30)
        <4> QED BY <1>2, <4>1, <4>2
      <3> QED BY <1>1, <3>1, <3>2, <3>3
    <2> QED BY <1>1, <1>4, <2>1, <2>3, <2>4 DEF Totals
  <1>7. Receipts(p)'
    BY <1>4 DEF Receipts
  <1> QED BY <1>5, <1>6, <1>7

LEMMA AppendFacts ==
    ASSUME NEW S, NEW s \in Seq(S), NEW e \in S
    PROVE  /\ Len(Append(s, e)) = Len(s) + 1
           /\ Append(s, e)[Len(s) + 1] = e
           /\ \A i \in 1..Len(s) : Append(s, e)[i] = s[i]
           /\ Append(s, e) # <<>>
  OBVIOUS

\* Running the head job of p stores the receipt of its first unreceipted tick.
LEMMA ShiftOwn ==
    ASSUME HubTypeOK, jobs # <<>>, jobs' = Tail(jobs), NEW p \in DOMAIN channels,
           jobs[1].playerId = p,
           channels'[p].channel = channels[p].channel,
           channels'[p].tickProofs = Append(channels[p].tickProofs, jobs[1].proof),
           channels'[p].betSats + channels'[p].awardSats
             = channels[p].betSats + channels[p].awardSats + jobs[1].satoshis,
           Queue(p), Totals(p), Receipts(p)
    PROVE  Queue(p)' /\ Totals(p)' /\ Receipts(p)'
  <1> DEFINE proofs == channels[p].tickProofs
             stored == Len(proofs)
             now    == channels[p].channel.currentTick
             cum    == channels[p].channel.cumulativeSatoshis
             last   == LastTotal(channels[p])
             n      == Len(jobs)
             head   == jobs[1].proof
  <1>1. /\ n \in Nat \ {0}
        /\ 1 \in 1..n
        /\ Len(jobs') = n - 1
        /\ \A i \in 1..(n - 1) : i + 1 \in 1..n /\ jobs'[i] = jobs[i + 1]
        /\ \A i \in 1..n : i = 1 \/ (i - 1 \in 1..(n - 1) /\ jobs'[i - 1] = jobs[i] /\ 1 < i)
    BY DEF HubTypeOK
  <1>2. stored \in Nat /\ now \in Nat /\ cum \in Nat /\ last \in Nat /\ proofs \in Seq(Proof)
    BY SeatTypes
  <1>3. \A i \in 1..n : jobs[i].proof.tick \in Nat /\ jobs[i].proof.cumulativeSatoshis \in Nat
    BY JobTypes
  <1>4. head.tick = stored + 1 /\ head.cumulativeSatoshis = last + jobs[1].satoshis
    BY HeadIsNext
  <1>5. /\ channels'[p].tickProofs = Append(proofs, head)
        /\ Len(channels'[p].tickProofs) = stored + 1
        /\ channels'[p].tickProofs[stored + 1] = head
        /\ \A i \in 1..stored : channels'[p].tickProofs[i] = proofs[i]
        /\ channels'[p].tickProofs # <<>>
    <2>1. head \in Proof
      BY <1>1, JobTypes
    <2> QED BY <1>2, <2>1, AppendFacts
  <1>6. LastTotal(channels'[p]) = head.cumulativeSatoshis
    BY <1>5 DEF LastTotal
  <1>7. head.tick <= now
    BY <1>1 DEF Queue
  <1>8. Queue(p)'
    <2>1. \A i \in 1..(n - 1) : jobs'[i].playerId = p =>
              stored + 1 < jobs'[i].proof.tick /\ jobs'[i].proof.tick <= now
      <3> SUFFICES ASSUME NEW i \in 1..(n - 1), jobs'[i].playerId = p
                   PROVE  stored + 1 < jobs'[i].proof.tick /\ jobs'[i].proof.tick <= now
        OBVIOUS
      <3>1. i + 1 \in 1..n /\ jobs'[i] = jobs[i + 1] /\ 1 < i + 1
        BY <1>1
      <3>2. head.tick < jobs[i + 1].proof.tick
        BY <1>1, <3>1 DEF Queue
      <3>3. jobs[i + 1].proof.tick <= now
        BY <3>1 DEF Queue
      <3> QED BY <1>4, <3>1, <3>2, <3>3
    <2>2. \A i, k \in 1..(n - 1) : jobs'[i].playerId = p /\ jobs'[k].playerId = p /\ i < k =>
              jobs'[i].proof.tick < jobs'[k].proof.tick
      BY <1>1 DEF Queue
    <2>3. \A t \in (stored + 2)..now : \E i \in 1..(n - 1) :
              jobs'[i].playerId = p /\ jobs'[i].proof.tick = t
      <3> SUFFICES ASSUME NEW t \in (stored + 2)..now
                   PROVE  \E i \in 1..(n - 1) : jobs'[i].playerId = p /\ jobs'[i].proof.tick = t
        OBVIOUS
      <3>1. t \in (stored + 1)..now /\ t # stored + 1
        BY <1>2
      <3>2. PICK i \in 1..n : jobs[i].playerId = p /\ jobs[i].proof.tick = t
        BY <3>1 DEF Queue
      <3>3. i # 1
        BY <1>4, <3>1, <3>2
      <3> QED BY <1>1, <3>2, <3>3
    <2>4. stored + 1 <= now
      BY <1>4, <1>7
    <2>5. (stored + 1) + 1 = stored + 2
      BY <1>2
    <2> QED BY <1>1, <1>5, <2>1, <2>2, <2>3, <2>4, <2>5 DEF Queue
  <1>9. Totals(p)'
    <2>1. stored + 1 = now => cum = head.cumulativeSatoshis
      BY <1>1, <1>4 DEF Totals
    <2>2. \A i \in 1..(n - 1) : jobs'[i].playerId = p =>
              /\ jobs'[i].proof.tick = (stored + 1) + 1 =>
                    jobs'[i].proof.cumulativeSatoshis = head.cumulativeSatoshis + jobs'[i].satoshis
              /\ jobs'[i].proof.tick = now => jobs'[i].proof.cumulativeSatoshis = cum
      BY <1>1, <1>4 DEF Totals
    <2>3. \A i, k \in 1..(n - 1) :
              jobs'[i].playerId = p /\ jobs'[k].playerId = p
                /\ jobs'[k].proof.tick = jobs'[i].proof.tick + 1 =>
                  jobs'[k].proof.cumulativeSatoshis
                    = jobs'[i].proof.cumulativeSatoshis + jobs'[k].satoshis
      BY <1>1 DEF Totals
    <2> QED BY <1>1, <1>5, <1>6, <2>1, <2>2, <2>3 DEF Totals
  <1>10. Receipts(p)'
    <2>1. jobs[1].satoshis \in Nat
      BY <1>1, JobTypes
    <2>2. \A i \in 1..(stored + 1) : i \in 1..stored \/ i = stored + 1
      BY <1>2
    <2>3. \A i \in 1..(stored + 1) : channels'[p].tickProofs[i].tick = i
      BY <1>4, <1>5, <2>2 DEF Receipts
    <2>4. ASSUME NEW i \in 1..stored
          PROVE  channels'[p].tickProofs[i].cumulativeSatoshis
                   <= channels'[p].tickProofs[i + 1].cumulativeSatoshis
      <3>1. CASE i = stored
        <4>1. last = proofs[stored].cumulativeSatoshis
          BY <1>2, <3>1 DEF LastTotal
        <4> QED BY <1>2, <1>4, <1>5, <2>1, <3>1, <4>1, SMTT(30)
      <3>2. CASE i # stored
        <4>1. i \in 1..(stored - 1) /\ i + 1 \in 1..stored
          BY <1>2, <3>2
        <4> QED BY <1>5, <4>1 DEF Receipts
      <3> QED BY <3>1, <3>2
    <2>5. channels'[p].betSats + channels'[p].awardSats = LastTotal(channels'[p])
      BY <1>4, <1>6 DEF Receipts
    <2>6. (stored + 1) - 1 = stored
      BY <1>2
    <2> QED BY <1>5, <2>3, <2>4, <2>5, <2>6 DEF Receipts
  <1> QED BY <1>8, <1>9, <1>10

\* A step that leaves p's meters, books and receipts and the queue alone leaves its part alone.
LEMMA KeepOwn ==
    ASSUME NEW p, jobs' = jobs,
           channels'[p].channel.currentTick = channels[p].channel.currentTick,
           channels'[p].channel.cumulativeSatoshis = channels[p].channel.cumulativeSatoshis,
           channels'[p].tickProofs = channels[p].tickProofs,
           channels'[p].betSats = channels[p].betSats,
           channels'[p].awardSats = channels[p].awardSats,
           Queue(p), Totals(p), Receipts(p)
    PROVE  Queue(p)' /\ Totals(p)' /\ Receipts(p)'
  <1>1. LastTotal(channels'[p]) = LastTotal(channels[p])
    BY DEF LastTotal
  <1>2. Queue(p)'
    BY DEF Queue
  <1>3. Totals(p)'
    BY <1>1 DEF Totals
  <1>4. Receipts(p)'
    BY <1>1 DEF Receipts
  <1> QED BY <1>2, <1>3, <1>4

\* A channel that has just been opened while the queue is empty.
LEMMA FreshOwn ==
    ASSUME HubTypeOK, NEW p, Len(jobs') = 0,
           channels'[p] = [channel |-> OpenedChannel, betSats |-> 0, awardSats |-> 0, tickProofs |-> <<>>]
    PROVE  Queue(p)' /\ Totals(p)' /\ Receipts(p)'
  <1> DEFINE fresh == [channel |-> OpenedChannel, betSats |-> 0, awardSats |-> 0, tickProofs |-> <<>>]
  <1>1. /\ fresh.channel.currentTick = 0
        /\ fresh.channel.cumulativeSatoshis = 0
        /\ Len(fresh.tickProofs) = 0
        /\ fresh.betSats + fresh.awardSats = 0
        /\ LastTotal(fresh) = 0
    BY OpenedMeter DEF LastTotal
  <1>2. channels'[p] = fresh
    OBVIOUS
  <1> HIDE DEF fresh
  <1>3. Queue(p)'
    BY <1>1, <1>2 DEF Queue
  <1>4. Totals(p)'
    BY <1>1, <1>2 DEF Totals
  <1>5. Receipts(p)'
    BY <1>1, <1>2 DEF Receipts
  <1> QED BY <1>3, <1>4, <1>5

LEMMA HubInitInv == HubInit => HubInv
  <1>1. HubInit => DOMAIN channels = {}
    BY DEF HubInit
  <1> QED BY <1>1, HubInitTypeOK DEF HubInv

LEMMA HubNextInv == HubInv /\ [HubNext]_hubVars => HubInv'
  <1> SUFFICES ASSUME HubInv, [HubNext]_hubVars PROVE HubInv'
    OBVIOUS
  <1>1. HubTypeOK /\ HubTypeOK'
    BY HubNextTypeOK DEF HubInv
  <1> SUFFICES ASSUME NEW p \in DOMAIN channels' PROVE Queue(p)' /\ Totals(p)' /\ Receipts(p)'
    BY <1>1 DEF HubInv
  <1>2. p \in DOMAIN channels => Queue(p) /\ Totals(p) /\ Receipts(p)
    BY DEF HubInv
  <1>3. CASE OpenOnce
    <2>1. PICK them \in SUBSET Players : DOMAIN channels = {} /\ openChannels(them)
      BY <1>3 DEF OpenOnce
    <2>2. Len(jobs) = 0
      <3>1. Len(jobs) \in Nat /\ \A i \in 1..Len(jobs) : FALSE
        BY <1>1, <2>1 DEF HubTypeOK
      <3>2. 1 \notin 1..Len(jobs)
        BY <3>1
      <3> QED BY <3>1, <3>2
    <2>3. /\ p \in them /\ jobs' = jobs
          /\ channels'[p] = [channel |-> OpenedChannel, betSats |-> 0, awardSats |-> 0,
                             tickProofs |-> <<>>]
      BY <1>1, <2>1, OpenStep
    <2> QED BY <1>1, <2>2, <2>3, FreshOwn
  <1>4. CASE Call
    <2>1. PICK kind \in {"bet", "award"}, q \in Players, sats \in Amounts, h \in Hands :
            Accepts(q, sats) /\ TickChannel(kind, q, sats, h)
      BY <1>4 DEF Call, recordBet, awardPot
    <2>2. sats \in Int
      BY HubAssumption DEF HubAssumption
    <2>3. PICK job \in Job :
            /\ jobs' = Append(jobs, job)
            /\ job.playerId = q /\ job.satoshis = sats
            /\ job.proof.tick = channels[q].channel.currentTick + 1
            /\ job.proof.cumulativeSatoshis = channels[q].channel.cumulativeSatoshis + sats
      BY <1>1, <2>1, <2>2, TickStep
    <2>4. /\ p \in DOMAIN channels /\ sats \in Nat
          /\ channels'[p].tickProofs = channels[p].tickProofs
          /\ channels'[p].betSats = channels[p].betSats
          /\ channels'[p].awardSats = channels[p].awardSats
          /\ q # p => channels'[p] = channels[p]
          /\ channels'[q].channel.currentTick = channels[q].channel.currentTick + 1
          /\ channels'[q].channel.cumulativeSatoshis = channels[q].channel.cumulativeSatoshis + sats
      BY <1>1, <2>1, <2>2, TickStep
    <2>5. CASE q = p
      BY <1>1, <1>2, <2>3, <2>4, <2>5, AppendOwn
    <2>6. CASE q # p
      BY <1>1, <1>2, <2>3, <2>4, <2>6, AppendOther
    <2> QED BY <2>5, <2>6
  <1>5. CASE RunJob
    <2>1. /\ jobs # <<>> /\ jobs' = Tail(jobs) /\ Head(jobs) = jobs[1]
          /\ p \in DOMAIN channels
          /\ channels'[p].channel = channels[p].channel
          /\ jobs[1].playerId # p => channels'[p] = channels[p]
      BY <1>1, <1>5, RunJobStep DEF HubTypeOK
    <2>2. CASE jobs[1].playerId = p
      <3>1. /\ channels'[p].tickProofs = Append(channels[p].tickProofs, jobs[1].proof)
            /\ channels'[p].betSats + channels'[p].awardSats
                 = channels[p].betSats + channels[p].awardSats + jobs[1].satoshis
        BY <1>1, <1>5, <2>1, <2>2, RunJobStep
      <3> QED BY <1>1, <1>2, <2>1, <2>2, <3>1, ShiftOwn
    <2>3. CASE jobs[1].playerId # p
      BY <1>1, <1>2, <2>1, <2>3, ShiftOther
    <2> QED BY <2>2, <2>3
  <1>6. CASE settleAll
    BY <1>1, <1>2, <1>6, SettleStep, KeepOwn
  <1>7. CASE UNCHANGED hubVars
    BY <1>2, <1>7, KeepOwn DEF hubVars
  <1> QED BY <1>3, <1>4, <1>5, <1>6, <1>7 DEF HubNext

\* What is stored on a channel, what is still queued for it and what its meter shows fit together
\* in every reachable state.
THEOREM HubInvariant == HubSpec => []HubInv
  <1> QED BY HubInitInv, HubNextInv, PTL DEF HubSpec

\* However many bets and awards overlap at the await of recordBet and awardPot, a channel's stored
\* receipts are ticks 1, 2, 3, ... in order, with totals that never fall.
THEOREM ReceiptsAlwaysInOrder == HubSpec => []ReceiptsInOrder
  <1>1. HubInv => ReceiptsInOrder
    BY DEF HubInv, Receipts, ReceiptsInOrder
  <1> QED BY <1>1, HubInvariant, PTL

\* The bets and awards booked on a channel are always exactly the total its last receipt proves.
THEOREM ReceiptsAlwaysCoverBooks == HubSpec => []ReceiptsCoverBooks
  <1>1. HubInv => ReceiptsCoverBooks
    BY DEF HubInv, Receipts, ReceiptsCoverBooks
  <1> QED BY <1>1, HubInvariant, PTL

\* A channel without a call in flight has one receipt per tick, and its meter is its bets plus
\* its awards.
THEOREM BooksAlwaysBalance == HubSpec => []BooksBalance
  <1>1. HubInv => BooksBalance
    <2> SUFFICES ASSUME HubInv, NEW p \in DOMAIN channels, Quiet(p)
                 PROVE  /\ Len(channels[p].tickProofs) = channels[p].channel.currentTick
                        /\ channels[p].betSats + channels[p].awardSats
                             = channels[p].channel.cumulativeSatoshis
      BY DEF BooksBalance
    <2>1. HubTypeOK /\ Queue(p) /\ Totals(p) /\ Receipts(p)
      BY DEF HubInv
    <2> DEFINE stored == Len(channels[p].tickProofs)
               now    == channels[p].channel.currentTick
    <2>2. stored \in Nat /\ now \in Nat /\ stored <= now
      BY <2>1, SeatTypes DEF Queue
    <2>3. \A t \in (stored + 1)..now : FALSE
      BY <2>1 DEF Queue, Quiet
    <2>4. stored = now
      <3>1. now \notin (stored + 1)..now
        BY <2>3
      <3> HIDE DEF stored, now
      <3> QED BY <2>2, <3>1
    <2> QED BY <2>1, <2>4 DEF Totals, Receipts
  <1> QED BY <1>1, HubInvariant, PTL
-------------------------------------------------------------------------------
(* The refinement.  A player's ledger is what is stored followed by what      *)
(* waits in the queue: a call appends to it, a job moves its border.          *)

\* Induction over the naturals, for sets.
LEMMA NatSetInduction ==
    ASSUME NEW T \in SUBSET Nat, 0 \in T, \A n \in T : n + 1 \in T
    PROVE  T = Nat
  <1> DEFINE R == {ss \in Nat \X Nat : ss[1] < ss[2]}
             rest == Nat \ T
  <1> SUFFICES ASSUME rest # {} PROVE FALSE
    OBVIOUS
  <1>1. \E x \in rest : \A y \in rest : ~(<<y, x>> \in R)
    <2>1. IsWellFoundedOn(R, Nat)
      BY NatLessThanWellFounded DEF OpToRel
    <2>2. rest \in SUBSET Nat
      OBVIOUS
    <2> HIDE DEF R, rest
    <2> QED BY <2>1, <2>2, WFMin
  <1>2. PICK x \in rest : \A y \in rest : ~(y < x)
    <2>1. \A x, y \in Nat : y < x => <<y, x>> \in R
      OBVIOUS
    <2> HIDE DEF R
    <2> QED BY <1>1, <2>1
  <1>3. x \in Nat /\ x # 0 /\ x - 1 \in Nat /\ x - 1 < x
    OBVIOUS
  <1>4. x - 1 \in T
    BY <1>2, <1>3
  <1>5. (x - 1) + 1 = x
    BY <1>3
  <1> QED BY <1>4, <1>5

\* What Waiting computes: one job more with every step.
OneMore(queue, p, f, i) ==
    IF i = 0 THEN <<>> ELSE IF queue[i].playerId = p THEN Append(f[i - 1], queue[i].proof) ELSE f[i - 1]

Walk(queue, p, f) == \A i \in 0..Len(queue) : f[i] = OneMore(queue, p, f, i)

LEMMA WaitingWalks ==
    ASSUME NEW queue \in Seq(Job), NEW p
    PROVE  \E f : Walk(queue, p, f) /\ Waiting(queue, p) = f[Len(queue)]
  <1> DEFINE Goes(k) == \E f : f = [i \in 0..k |-> OneMore(queue, p, f, i)]
             T == {k \in Nat : Goes(k)}
  <1>1. 0 \in T
    <2>1. [i \in 0..0 |-> <<>>] = [i \in 0..0 |-> OneMore(queue, p, [j \in 0..0 |-> <<>>], i)]
      BY DEF OneMore
    <2> QED BY <2>1
  <1>2. ASSUME NEW k \in T PROVE k + 1 \in T
    <2>1. PICK f : f = [i \in 0..k |-> OneMore(queue, p, f, i)]
      OBVIOUS
    <2> DEFINE g == [i \in 0..(k + 1) |-> IF i <= k THEN f[i] ELSE OneMore(queue, p, f, k + 1)]
    <2>2. \A i \in 0..k : g[i] = f[i]
      OBVIOUS
    <2>3. \A i \in 0..k : f[i] = OneMore(queue, p, f, i)
      BY <2>1
    <2>4. \A i \in 1..(k + 1) : i - 1 \in 0..k
      OBVIOUS
    <2>5. g[k + 1] = OneMore(queue, p, f, k + 1)
      OBVIOUS
    <2> HIDE DEF g
    <2>6. \A i \in 0..(k + 1) : OneMore(queue, p, g, i) = OneMore(queue, p, f, i)
      BY <2>2, <2>4 DEF OneMore
    <2>7. \A i \in 0..(k + 1) : g[i] = OneMore(queue, p, g, i)
      BY <2>2, <2>3, <2>5, <2>6
    <2>8. g = [i \in 0..(k + 1) |-> OneMore(queue, p, g, i)]
      <3>1. g = [i \in 0..(k + 1) |-> g[i]]
        BY DEF g
      <3> QED BY <2>7, <3>1
    <2> QED BY <2>8
  <1>3. Len(queue) \in T
    <2>1. T \in SUBSET Nat
      OBVIOUS
    <2> HIDE DEF T
    <2>2. T = Nat
      BY <1>1, <1>2, <2>1, NatSetInduction
    <2> QED BY <2>2
  <1> DEFINE f == CHOOSE h : h = [i \in 0..Len(queue) |-> OneMore(queue, p, h, i)]
  <1>4. f = [i \in 0..Len(queue) |-> OneMore(queue, p, f, i)]
    BY <1>3
  <1>5. Waiting(queue, p) = f[Len(queue)]
    BY DEF Waiting, OneMore
  <1> HIDE DEF f
  <1> QED BY <1>4, <1>5 DEF Walk

\* Appending to what follows a sequence appends to both.
LEMMA ConcatAppend ==
    ASSUME NEW s \in Seq(Proof), NEW t \in Seq(Proof), NEW x \in Proof
    PROVE  Append(s \o t, x) = s \o Append(t, x)
  <1> DEFINE l == Append(s \o t, x)
             r == s \o Append(t, x)
  <1>1. Append(t, x) \in Seq(Proof) /\ s \o t \in Seq(Proof)
    OBVIOUS
  <1>2. l \in Seq(Proof) /\ r \in Seq(Proof)
    BY <1>1
  <1>3. Len(l) = Len(s) + Len(t) + 1 /\ Len(r) = Len(l)
    BY <1>1
  <1>4. ASSUME NEW i \in 1..Len(l) PROVE l[i] = r[i]
    <2>1. CASE i <= Len(s)
      BY <1>1, <1>3, <2>1
    <2>2. CASE i > Len(s) /\ i <= Len(s) + Len(t)
      BY <1>1, <1>3, <2>2
    <2>3. CASE i = Len(s) + Len(t) + 1
      BY <1>1, <1>3, <2>3
    <2> QED BY <1>3, <2>1, <2>2, <2>3
  <1> HIDE DEF l, r
  <1>5. l = r
    BY <1>2, <1>3, <1>4, SeqEqual
  <1> QED BY <1>5 DEF l, r

LEMMA WaitingType ==
    ASSUME NEW queue \in Seq(Job), NEW p
    PROVE  Waiting(queue, p) \in Seq(Proof)
  <1>1. PICK f : Walk(queue, p, f) /\ Waiting(queue, p) = f[Len(queue)]
    BY WaitingWalks
  <1> DEFINE T == {i \in Nat : i <= Len(queue) => f[i] \in Seq(Proof)}
  <1>2. 0 \in T
    <2>1. 0 \in 0..Len(queue)
      OBVIOUS
    <2>2. f[0] = <<>>
      BY <1>1, <2>1 DEF Walk, OneMore
    <2>3. f[0] \in Seq(Proof)
      BY <2>2, EmptySeq
    <2> QED BY <2>3
  <1>3. ASSUME NEW i \in T PROVE i + 1 \in T
    <2> SUFFICES ASSUME i + 1 <= Len(queue) PROVE f[i + 1] \in Seq(Proof)
      OBVIOUS
    <2>1. f[i + 1] = OneMore(queue, p, f, i + 1) /\ f[i] \in Seq(Proof) /\ i + 1 # 0 /\ (i + 1) - 1 = i
      BY <1>1 DEF Walk
    <2>2. queue[i + 1] \in Job
      OBVIOUS
    <2>3. queue[i + 1].proof \in Proof
      BY <2>2 DEF Job
    <2> QED BY <2>1, <2>3 DEF OneMore
  <1>4. Len(queue) \in T
    <2>1. T \in SUBSET Nat
      OBVIOUS
    <2> HIDE DEF T
    <2>2. T = Nat
      BY <1>2, <1>3, <2>1, NatSetInduction
    <2> QED BY <2>2
  <1> QED BY <1>1, <1>4

LEMMA WaitingEmpty == ASSUME NEW p PROVE Waiting(<<>>, p) = <<>>
  <1>0. PICK none : none = <<>>
    OBVIOUS
  <1>1. none \in Seq(Job) /\ Len(none) = 0
    BY <1>0
  <1>2. PICK f : Walk(none, p, f) /\ Waiting(none, p) = f[Len(none)]
    BY <1>1, WaitingWalks
  <1>3. f[0] = <<>>
    BY <1>1, <1>2 DEF Walk, OneMore
  <1> QED BY <1>0, <1>1, <1>2, <1>3

\* A job that is queued waits behind those of its player.
LEMMA WaitingAppend ==
    ASSUME NEW queue \in Seq(Job), NEW job \in Job, NEW p
    PROVE  Waiting(Append(queue, job), p) =
              IF job.playerId = p THEN Append(Waiting(queue, p), job.proof) ELSE Waiting(queue, p)
  <1>0. PICK more : more = Append(queue, job)
    OBVIOUS
  <1>1. /\ more \in Seq(Job) /\ Len(more) = Len(queue) + 1 /\ Len(queue) \in Nat /\ more[Len(queue) + 1] = job
        /\ \A i \in 1..Len(queue) : more[i] = queue[i]
    BY <1>0
  <1>2. PICK f : Walk(queue, p, f) /\ Waiting(queue, p) = f[Len(queue)]
    BY WaitingWalks
  <1>3. PICK g : Walk(more, p, g) /\ Waiting(more, p) = g[Len(more)]
    BY <1>1, WaitingWalks
  <1> DEFINE T == {i \in Nat : i <= Len(queue) => f[i] = g[i]}
  <1>4. 0 \in T
    BY <1>1, <1>2, <1>3 DEF Walk, OneMore
  <1>5. ASSUME NEW i \in T PROVE i + 1 \in T
    <2> SUFFICES ASSUME i + 1 <= Len(queue) PROVE f[i + 1] = g[i + 1]
      OBVIOUS
    <2>1. f[i + 1] = OneMore(queue, p, f, i + 1) /\ g[i + 1] = OneMore(more, p, g, i + 1)
      BY <1>1, <1>2, <1>3 DEF Walk
    <2>2. f[i] = g[i] /\ (i + 1) - 1 = i /\ more[i + 1] = queue[i + 1]
      BY <1>1
    <2> QED BY <2>1, <2>2 DEF OneMore
  <1>6. f[Len(queue)] = g[Len(queue)]
    <2>1. T \in SUBSET Nat
      OBVIOUS
    <2> HIDE DEF T
    <2>2. T = Nat
      BY <1>4, <1>5, <2>1, NatSetInduction
    <2> QED BY <1>1, <2>2 DEF T
  <1>7. g[Len(queue) + 1] = OneMore(more, p, g, Len(queue) + 1) /\ (Len(queue) + 1) - 1 = Len(queue)
    BY <1>1, <1>3 DEF Walk
  <1> QED BY <1>0, <1>1, <1>2, <1>3, <1>6, <1>7 DEF OneMore

\* The queue's head waits in front of everything else.
LEMMA WaitingTail ==
    ASSUME NEW queue \in Seq(Job), queue # <<>>, NEW p
    PROVE  Waiting(queue, p) =
              IF queue[1].playerId = p THEN <<queue[1].proof>> \o Waiting(Tail(queue), p)
              ELSE Waiting(Tail(queue), p)
  <1>0. PICK less : less = Tail(queue)
    OBVIOUS
  <1>1. /\ less \in Seq(Job) /\ Len(queue) = Len(less) + 1 /\ Len(less) \in Nat
        /\ \A i \in 1..Len(less) : less[i] = queue[i + 1]
    BY <1>0
  <1>2. PICK f : Walk(queue, p, f) /\ Waiting(queue, p) = f[Len(queue)]
    BY WaitingWalks
  <1>3. PICK g : Walk(less, p, g) /\ Waiting(less, p) = g[Len(less)]
    BY <1>1, WaitingWalks
  <1>4. queue[1].proof \in Proof
    <2>1. queue[1] \in Job
      BY <1>1
    <2> QED BY <2>1 DEF Job
  <1>5. PICK first : first = IF queue[1].playerId = p THEN <<queue[1].proof>> ELSE <<>>
    OBVIOUS
  <1>6. first \in Seq(Proof)
    BY <1>4, <1>5
  <1> DEFINE T == {i \in Nat : i <= Len(less) => g[i] \in Seq(Proof) /\ f[i + 1] = first \o g[i]}
  <1>7. 0 \in T
    <2>1. g[0] = <<>>
      BY <1>1, <1>3 DEF Walk, OneMore
    <2>2. f[0] = <<>>
      BY <1>1, <1>2 DEF Walk, OneMore
    <2>3. f[1] = OneMore(queue, p, f, 1)
      BY <1>1, <1>2 DEF Walk
    <2>4. f[1] = first
      <3>1. f[1] = IF queue[1].playerId = p THEN Append(f[0], queue[1].proof) ELSE f[0]
        BY <2>3 DEF OneMore
      <3>2. Append(<<>>, queue[1].proof) = <<queue[1].proof>>
        OBVIOUS
      <3> QED BY <1>5, <2>2, <3>1, <3>2
    <2>5. <<>> \in Seq(Proof) /\ first \o <<>> = first
      BY <1>6, ConcatEmptySeq, EmptySeq
    <2>6. g[0] \in Seq(Proof) /\ f[0 + 1] = first \o g[0]
      BY <2>1, <2>4, <2>5
    <2> QED BY <2>6
  <1>8. ASSUME NEW i \in T PROVE i + 1 \in T
    <2> SUFFICES ASSUME i + 1 <= Len(less)
                 PROVE  g[i + 1] \in Seq(Proof) /\ f[(i + 1) + 1] = first \o g[i + 1]
      OBVIOUS
    <2>1. /\ g[i + 1] = OneMore(less, p, g, i + 1)
          /\ f[(i + 1) + 1] = OneMore(queue, p, f, (i + 1) + 1)
      BY <1>1, <1>2, <1>3 DEF Walk
    <2>2. /\ g[i] \in Seq(Proof) /\ f[i + 1] = first \o g[i] /\ less[i + 1] = queue[(i + 1) + 1]
          /\ (i + 1) - 1 = i /\ ((i + 1) + 1) - 1 = i + 1 /\ i + 1 # 0 /\ (i + 1) + 1 # 0
      BY <1>1
    <2>3. less[i + 1].proof \in Proof
      <3>1. less[i + 1] \in Job
        BY <1>1
      <3> QED BY <3>1 DEF Job
    <2>4. CASE less[i + 1].playerId = p
      <3>1. g[i + 1] = Append(g[i], less[i + 1].proof) /\ f[(i + 1) + 1] = Append(first \o g[i], less[i + 1].proof)
        BY <2>1, <2>2, <2>4 DEF OneMore
      <3>2. Append(g[i], less[i + 1].proof) \in Seq(Proof)
        BY <2>2, <2>3
      <3>3. Append(first \o g[i], less[i + 1].proof) = first \o Append(g[i], less[i + 1].proof)
        BY <1>6, <2>2, <2>3, ConcatAppend
      <3> QED BY <3>1, <3>2, <3>3
    <2>5. CASE less[i + 1].playerId # p
      BY <2>1, <2>2, <2>5 DEF OneMore
    <2> QED BY <2>4, <2>5
  <1>9. g[Len(less)] \in Seq(Proof) /\ f[Len(less) + 1] = first \o g[Len(less)]
    <2>1. T \in SUBSET Nat
      OBVIOUS
    <2> HIDE DEF T
    <2>2. T = Nat
      BY <1>7, <1>8, <2>1, NatSetInduction
    <2>3. Len(less) \in T
      BY <1>1, <2>2
    <2> QED BY <1>1, <2>3 DEF T
  <1>10. Waiting(queue, p) = first \o Waiting(less, p)
    BY <1>1, <1>2, <1>3, <1>9
  <1>11. <<>> \o Waiting(less, p) = Waiting(less, p)
    BY <1>1, WaitingType
  <1> QED BY <1>0, <1>5, <1>10, <1>11

\* The ledgers of the abstract specification, and the invariant the refinement needs.
LedgerOf(p) == channels[p].tickProofs \o Waiting(jobs, p)

Active(p)  == channels[p].channel.state = "ACTIVE"
Settled(p) == channels[p].channel.state = "SETTLED"

LedgerInv ==
    /\ (\A p \in DOMAIN channels : Active(p)) \/ (\A p \in DOMAIN channels : Settled(p))
    /\ \A p \in DOMAIN channels : /\ Len(LedgerOf(p)) = channels[p].channel.currentTick
                                  /\ Ledger!Total(LedgerOf(p)) = channels[p].channel.cumulativeSatoshis

LEMMA LedgerTypes ==
    ASSUME HubTypeOK, NEW p \in DOMAIN channels
    PROVE  /\ channels[p] \in SeatChannel /\ channels[p].channel \in MeteringChannel
           /\ channels[p].tickProofs \in Seq(Proof) /\ Waiting(jobs, p) \in Seq(Proof)
           /\ LedgerOf(p) \in Seq(Proof)
  <1>1. channels[p] \in SeatChannel /\ jobs \in Seq(Job)
    BY DEF HubTypeOK
  <1>2. channels[p].channel \in MeteringChannel /\ channels[p].tickProofs \in Seq(Proof)
    BY <1>1 DEF SeatChannel
  <1>3. Waiting(jobs, p) \in Seq(Proof)
    BY <1>1, WaitingType
  <1> QED BY <1>1, <1>2, <1>3 DEF LedgerOf

\* What every step does to the ledgers and to the states of the channels.
LedgerStep ==
    \/ /\ DOMAIN channels = {} /\ DOMAIN channels' # {} /\ DOMAIN channels' \subseteq Players
       /\ \A p \in DOMAIN channels' : Active(p)' /\ LedgerOf(p)' = <<>>
    \/ /\ DOMAIN channels' = DOMAIN channels
       /\ \A p \in DOMAIN channels : LedgerOf(p)' = LedgerOf(p)
       /\ \/ \A p \in DOMAIN channels : Active(p)' = Active(p) /\ Settled(p)' = Settled(p)
          \/ /\ \A p \in DOMAIN channels : Active(p)
             /\ \A p \in DOMAIN channels : Settled(p)'
    \/ \E p \in DOMAIN channels, sats \in Amounts :
          /\ DOMAIN channels' = DOMAIN channels
          /\ Active(p) /\ sats >= 0
          /\ LedgerOf(p)' = Append(LedgerOf(p), [tick |-> Len(LedgerOf(p)) + 1,
                                                 cumulativeSatoshis |-> Ledger!Total(LedgerOf(p)) + sats])
          /\ \A q \in DOMAIN channels \ {p} : LedgerOf(q)' = LedgerOf(q)
          /\ \A q \in DOMAIN channels : Active(q)' = Active(q) /\ Settled(q)' = Settled(q)

LEMMA OpenLedger ==
    ASSUME HubTypeOK, OpenOnce
    PROVE  LedgerStep /\ LedgerInv'
  <1>1. PICK them \in SUBSET Players : DOMAIN channels = {} /\ openChannels(them)
    BY DEF OpenOnce
  <1>2. /\ DOMAIN channels' = them /\ them # {} /\ jobs' = jobs
        /\ \A q \in them : channels'[q] = [channel |-> OpenedChannel, betSats |-> 0,
                                            awardSats |-> 0, tickProofs |-> <<>>]
    BY <1>1, OpenStep DEF openChannels
  <1>3. jobs = <<>>
    <2>1. jobs \in Seq(Job) /\ \A i \in 1..Len(jobs) : FALSE
      BY <1>1 DEF HubTypeOK
    <2>2. Len(jobs) = 0
      <3>1. Len(jobs) \in Nat /\ 1 \notin 1..Len(jobs)
        BY <2>1
      <3> QED BY <3>1
    <2> QED BY <2>1, <2>2
  <1>4. OpenedChannel.state = "ACTIVE" /\ OpenedChannel.currentTick = 0 /\ OpenedChannel.cumulativeSatoshis = 0
    BY OpenedMeter DEF OpenedChannel, createChannel, fund, activate, Move, canTransition, transitionTable, Ok
  <1>5. ASSUME NEW q \in them
        PROVE  /\ LedgerOf(q)' = <<>> /\ Active(q)'
               /\ channels'[q].channel.currentTick = 0 /\ channels'[q].channel.cumulativeSatoshis = 0
    <2>1. channels'[q].tickProofs = <<>> /\ channels'[q].channel = OpenedChannel
      BY <1>2
    <2>2. Waiting(jobs', q) = <<>>
      BY <1>2, <1>3, WaitingEmpty
    <2>3. LedgerOf(q)' = <<>> \o <<>>
      BY <2>1, <2>2 DEF LedgerOf
    <2> QED BY <1>4, <2>1, <2>3 DEF Active
  <1>6. LedgerStep
    BY <1>1, <1>2, <1>5 DEF LedgerStep
  <1>7. Len(<<>>) = 0 /\ Ledger!Total(<<>>) = 0
    BY DEF Ledger!Total
  <1>8. LedgerInv'
    BY <1>2, <1>5, <1>7 DEF LedgerInv
  <1> QED BY <1>6, <1>8

LEMMA CallLedger ==
    ASSUME HubTypeOK, LedgerInv, Call
    PROVE  LedgerStep /\ LedgerInv'
  <1>1. PICK kind \in {"bet", "award"}, p \in Players, sats \in Amounts, h \in Hands :
          Accepts(p, sats) /\ TickChannel(kind, p, sats, h)
    BY DEF Call, recordBet, awardPot
  <1>2. sats \in Int
    BY HubAssumption DEF HubAssumption
  <1>3. PICK job \in Job :
          /\ jobs' = Append(jobs, job) /\ job.playerId = p
          /\ job.proof.tick = channels[p].channel.currentTick + 1
          /\ job.proof.cumulativeSatoshis = channels[p].channel.cumulativeSatoshis + sats
    BY <1>1, <1>2, TickStep
  <1>4. /\ p \in DOMAIN channels /\ sats \in Nat /\ DOMAIN channels' = DOMAIN channels
        /\ \A q \in DOMAIN channels : channels'[q].tickProofs = channels[q].tickProofs
        /\ \A q \in DOMAIN channels : q # p => channels'[q] = channels[q]
        /\ channels'[p].channel.currentTick = channels[p].channel.currentTick + 1
        /\ channels'[p].channel.cumulativeSatoshis = channels[p].channel.cumulativeSatoshis + sats
    BY <1>1, <1>2, TickStep
  <1>5. Active(p) /\ channels'[p].channel.state = channels[p].channel.state
    <2>1. channels[p].channel \in MeteringChannel /\ tick(channels[p].channel, sats).ok
      BY <1>1, <1>4, LedgerTypes DEF Accepts
    <2>2. /\ channels[p].channel.state = "ACTIVE"
          /\ tick(channels[p].channel, sats).value.state = channels[p].channel.state
      BY <1>2, <2>1, TickMeter
    <2>3. channels' = [channels EXCEPT ![p].channel = tick(channels[p].channel, sats).value]
      BY <1>1 DEF TickChannel
    <2>4. channels[p] \in SeatChannel /\ channels \in [DOMAIN channels -> SeatChannel]
      BY <1>4 DEF HubTypeOK
    <2> QED BY <1>4, <2>2, <2>3, <2>4 DEF Active, SeatChannel
  <1>6. jobs \in Seq(Job) /\ job.proof \in Proof
    BY DEF HubTypeOK, Job
  <1>7. ASSUME NEW q \in DOMAIN channels \ {p} PROVE LedgerOf(q)' = LedgerOf(q)
    BY <1>3, <1>4, <1>6, WaitingAppend DEF LedgerOf
  <1>8. LedgerOf(p)' = Append(LedgerOf(p), job.proof)
    <2>1. Waiting(jobs', p) = Append(Waiting(jobs, p), job.proof)
      BY <1>3, <1>6, WaitingAppend
    <2>2. channels[p].tickProofs \in Seq(Proof) /\ Waiting(jobs, p) \in Seq(Proof)
      BY <1>4, LedgerTypes
    <2>3. channels[p].tickProofs \o Append(Waiting(jobs, p), job.proof) =
            Append(channels[p].tickProofs \o Waiting(jobs, p), job.proof)
      BY <1>6, <2>2, ConcatAppend
    <2> QED BY <1>4, <2>1, <2>3 DEF LedgerOf
  <1>9. LedgerOf(p) \in Seq(Proof)
    BY <1>4, LedgerTypes
  <1>10. job.proof = [tick |-> Len(LedgerOf(p)) + 1, cumulativeSatoshis |-> Ledger!Total(LedgerOf(p)) + sats]
    <2>1. /\ Len(LedgerOf(p)) = channels[p].channel.currentTick
          /\ Ledger!Total(LedgerOf(p)) = channels[p].channel.cumulativeSatoshis
      BY <1>4 DEF LedgerInv
    <2> QED BY <1>3, <1>6, <2>1 DEF Proof
  <1>11. \A q \in DOMAIN channels : Active(q)' = Active(q) /\ Settled(q)' = Settled(q)
    BY <1>4, <1>5 DEF Active, Settled
  <1>12. LedgerStep
    <2>1. sats >= 0
      BY <1>4
    <2> QED BY <1>4, <1>5, <1>7, <1>8, <1>10, <1>11, <2>1 DEF LedgerStep
  <1>13. /\ Len(LedgerOf(p)') = Len(LedgerOf(p)) + 1
         /\ Ledger!Total(LedgerOf(p)') = job.proof.cumulativeSatoshis
    <2>0. PICK entries : entries = LedgerOf(p)
      OBVIOUS
    <2>1. entries \in Seq(Proof) /\ LedgerOf(p)' = Append(entries, job.proof)
      BY <1>8, <1>9, <2>0
    <2>2. /\ Append(entries, job.proof) # <<>> /\ Len(Append(entries, job.proof)) = Len(entries) + 1
          /\ Append(entries, job.proof)[Len(entries) + 1] = job.proof
      BY <2>1
    <2> QED BY <2>0, <2>1, <2>2 DEF Ledger!Total
  <1>14. LedgerInv'
    <2>1. ASSUME NEW q \in DOMAIN channels
          PROVE  /\ Len(LedgerOf(q)') = channels'[q].channel.currentTick
                 /\ Ledger!Total(LedgerOf(q)') = channels'[q].channel.cumulativeSatoshis
      <3>1. CASE q = p
        BY <1>3, <1>4, <1>13, <3>1 DEF LedgerInv
      <3>2. CASE q # p
        BY <1>4, <1>7, <3>2 DEF LedgerInv
      <3> QED BY <3>1, <3>2
    <2> QED BY <1>4, <1>11, <2>1 DEF LedgerInv
  <1> QED BY <1>12, <1>14

LEMMA JobLedger ==
    ASSUME HubTypeOK, LedgerInv, RunJob
    PROVE  LedgerStep /\ LedgerInv'
  <1>0. PICK job : job = jobs[1]
    OBVIOUS
  <1>1. jobs \in Seq(Job) /\ jobs # <<>> /\ job \in Job /\ Head(jobs) = job
    BY <1>0 DEF HubTypeOK, RunJob
  <1>2. /\ job.playerId \in DOMAIN channels /\ jobs' = Tail(jobs) /\ DOMAIN channels' = DOMAIN channels
        /\ \A q \in DOMAIN channels : /\ channels'[q].channel = channels[q].channel
                                      /\ q # job.playerId => channels'[q] = channels[q]
        /\ channels'[job.playerId].tickProofs = Append(channels[job.playerId].tickProofs, job.proof)
    BY <1>1, RunJobStep
  <1>3. ASSUME NEW q \in DOMAIN channels PROVE LedgerOf(q)' = LedgerOf(q)
    <2>1. CASE q # job.playerId
      <3>1. jobs[1].playerId # q /\ channels'[q] = channels[q]
        BY <1>0, <1>2, <2>1
      <3>2. Waiting(jobs', q) = Waiting(jobs, q)
        BY <1>1, <1>2, <3>1, WaitingTail
      <3> QED BY <3>1, <3>2 DEF LedgerOf
    <2>2. CASE q = job.playerId
      <3>1. Waiting(jobs, q) = <<job.proof>> \o Waiting(jobs', q)
        BY <1>0, <1>1, <1>2, <2>2, WaitingTail
      <3>2. jobs' \in Seq(Job)
        BY <1>1, <1>2
      <3>3. Waiting(jobs', q) \in Seq(Proof) /\ channels[q].tickProofs \in Seq(Proof) /\ job.proof \in Proof
        BY <1>1, <3>2, WaitingType, LedgerTypes DEF Job
      <3>4. PICK s, t, x : s = channels[q].tickProofs /\ t = Waiting(jobs', q) /\ x = job.proof
        OBVIOUS
      <3>5. Append(s, x) \o t = s \o (<<x>> \o t)
        <4>1. s \in Seq(Proof) /\ t \in Seq(Proof) /\ x \in Proof
          BY <3>3, <3>4
        <4>2. <<x>> \in Seq(Proof) /\ Append(s, x) = s \o <<x>>
          BY <4>1, AppendIsConcat
        <4> QED BY <4>1, <4>2, ConcatAssociative
      <3>6. channels'[q].tickProofs \o Waiting(jobs', q) = channels[q].tickProofs \o (<<job.proof>> \o Waiting(jobs', q))
        <4>1. channels'[q].tickProofs = Append(channels[q].tickProofs, job.proof)
          BY <1>2, <2>2
        <4> QED BY <3>4, <3>5, <4>1
      <3> QED BY <3>1, <3>6 DEF LedgerOf
    <2> QED BY <2>1, <2>2
  <1>4. \A q \in DOMAIN channels : Active(q)' = Active(q) /\ Settled(q)' = Settled(q)
    BY <1>2 DEF Active, Settled
  <1>5. LedgerStep
    BY <1>2, <1>3, <1>4 DEF LedgerStep
  <1>6. LedgerInv'
    BY <1>2, <1>3, <1>4 DEF LedgerInv
  <1> QED BY <1>5, <1>6

\* Closing settles an active channel and leaves a settled one as it is.
LEMMA ClosedState ==
    ASSUME NEW ch \in MeteringChannel
    PROVE  ch.state \in {"ACTIVE", "SETTLED"} => Closed(ch).value.state = "SETTLED"
  <1>1. CASE ch.state = "ACTIVE"
    <2> DEFINE r == [ch EXCEPT !.state = "CLOSING_REQUESTED"]
               c == [r EXCEPT !.state = "CLOSING_CONFIRMED"]
               s == [c EXCEPT !.state = "SETTLED"]
    <2>1. requestClose(ch) = Ok(r)
      BY <1>1 DEF requestClose, Move, canTransition, transitionTable
    <2>2. r.state = "CLOSING_REQUESTED" /\ c.state = "CLOSING_CONFIRMED" /\ s.state = "SETTLED"
      BY DEF MeteringChannel
    <2> HIDE DEF r
    <2>3. confirmClose(r) = Ok(c)
      BY <2>2 DEF confirmClose, Move, canTransition, transitionTable
    <2> HIDE DEF c
    <2>4. settle(c) = Ok(s)
      BY <2>2 DEF settle, Move, canTransition, transitionTable
    <2> HIDE DEF s
    <2> QED BY <2>1, <2>2, <2>3, <2>4 DEF Closed, Ok
  <1>2. CASE ch.state = "SETTLED"
    <2>1. ~requestClose(ch).ok
      BY <1>2 DEF requestClose, Move, canTransition, transitionTable, Fail
    <2> QED BY <1>2, <2>1 DEF Closed, Fail
  <1> QED BY <1>1, <1>2

LEMMA SettleLedger ==
    ASSUME HubTypeOK, LedgerInv, settleAll
    PROVE  LedgerStep /\ LedgerInv'
  <1>1. /\ DOMAIN channels' = DOMAIN channels /\ jobs' = jobs
        /\ \A q \in DOMAIN channels :
              /\ channels'[q].channel.currentTick = channels[q].channel.currentTick
              /\ channels'[q].channel.cumulativeSatoshis = channels[q].channel.cumulativeSatoshis
              /\ channels'[q].tickProofs = channels[q].tickProofs
    BY SettleStep
  <1>2. \A q \in DOMAIN channels : LedgerOf(q)' = LedgerOf(q)
    BY <1>1 DEF LedgerOf
  <1>3. ASSUME NEW q \in DOMAIN channels PROVE Settled(q)'
    <2>1. channels'[q].channel = Closed(channels[q].channel).value
      BY <1>1, LedgerTypes DEF settleAll, SeatChannel
    <2>2. channels[q].channel.state \in {"ACTIVE", "SETTLED"} /\ channels[q].channel \in MeteringChannel
      BY LedgerTypes DEF LedgerInv, Active, Settled
    <2>3. Closed(channels[q].channel).value.state = "SETTLED"
      BY <2>2, ClosedState
    <2> QED BY <2>1, <2>3 DEF Settled
  <1>4. \/ \A q \in DOMAIN channels : Active(q)' = Active(q) /\ Settled(q)' = Settled(q)
        \/ \A q \in DOMAIN channels : Active(q)
    <2>1. ASSUME \A q \in DOMAIN channels : Settled(q)
          PROVE  \A q \in DOMAIN channels : Active(q)' = Active(q) /\ Settled(q)' = Settled(q)
      BY <1>3, <2>1 DEF Active, Settled
    <2> QED BY <2>1 DEF LedgerInv
  <1>5. LedgerStep
    BY <1>1, <1>2, <1>3, <1>4 DEF LedgerStep
  <1>6. LedgerInv'
    BY <1>1, <1>2, <1>3 DEF LedgerInv
  <1> QED BY <1>5, <1>6

LEMMA LedgerNext ==
    ASSUME HubTypeOK, LedgerInv, [HubNext]_hubVars
    PROVE  LedgerStep /\ LedgerInv'
  <1>1. CASE UNCHANGED hubVars
    BY <1>1 DEF hubVars, LedgerStep, LedgerInv, LedgerOf, Active, Settled
  <1> QED BY <1>1, OpenLedger, CallLedger, JobLedger, SettleLedger DEF HubNext

\* Each such step is one of the abstract specification, or invisible to it.
LEMMA LedgerRefines ==
    ASSUME HubTypeOK, HubTypeOK', LedgerInv, LedgerStep
    PROVE  [Ledger!Next]_(Ledger!ledgerVars)
  <1> DEFINE open   == {p \in DOMAIN channels : channels[p].channel.state = "ACTIVE"}
             closed == {p \in DOMAIN channels : channels[p].channel.state = "SETTLED"}
             ledger == [p \in Players |-> IF p \in DOMAIN channels THEN channels[p].tickProofs \o Waiting(jobs, p)
                                         ELSE <<>>]
  <1>1. /\ open = {p \in DOMAIN channels : Active(p)} /\ closed = {p \in DOMAIN channels : Settled(p)}
        /\ open' = {p \in DOMAIN channels' : Active(p)'} /\ closed' = {p \in DOMAIN channels' : Settled(p)'}
    BY DEF Active, Settled
  <1>2. /\ ledger = [p \in Players |-> IF p \in DOMAIN channels THEN LedgerOf(p) ELSE <<>>]
        /\ ledger' = [p \in Players |-> IF p \in DOMAIN channels' THEN LedgerOf(p)' ELSE <<>>]
    BY DEF LedgerOf
  <1>3. DOMAIN channels \subseteq Players /\ DOMAIN channels' \subseteq Players
    BY DEF HubTypeOK
  <1>4. \A p : ~(Active(p) /\ Settled(p)) /\ ~(Active(p)' /\ Settled(p)')
    BY DEF Active, Settled
  <1> HIDE DEF open, closed, ledger
  <1>5. CASE /\ DOMAIN channels = {} /\ DOMAIN channels' # {} /\ DOMAIN channels' \subseteq Players
             /\ \A p \in DOMAIN channels' : Active(p)' /\ LedgerOf(p)' = <<>>
    <2>1. open = {} /\ closed = {} /\ open' = DOMAIN channels' /\ closed' = {}
      BY <1>1, <1>4, <1>5
    <2>2. ledger' = ledger
      BY <1>2, <1>5
    <2>3. open' \in SUBSET Players /\ open' # {} /\ closed' = closed
      BY <1>5, <2>1
    <2>4. open' \in (SUBSET Players) \ {{}}
      BY <2>3
    <2>5. Ledger!Open
      BY <2>1, <2>2, <2>3, <2>4 DEF Ledger!Open, open, closed, ledger
    <2> QED BY <2>5 DEF Ledger!Next
  <1>6. CASE /\ DOMAIN channels' = DOMAIN channels
             /\ \A p \in DOMAIN channels : LedgerOf(p)' = LedgerOf(p)
             /\ \A p \in DOMAIN channels : Active(p)' = Active(p) /\ Settled(p)' = Settled(p)
    <2>1. open' = open /\ closed' = closed /\ ledger' = ledger
      BY <1>1, <1>2, <1>6
    <2> QED BY <2>1 DEF Ledger!ledgerVars, open, closed, ledger
  <1>7. CASE /\ DOMAIN channels' = DOMAIN channels
             /\ \A p \in DOMAIN channels : LedgerOf(p)' = LedgerOf(p)
             /\ \A p \in DOMAIN channels : Active(p)
             /\ \A p \in DOMAIN channels : Settled(p)'
    <2>1. ledger' = ledger /\ open = DOMAIN channels /\ closed' = open /\ open' = {} /\ closed = {}
      BY <1>1, <1>2, <1>4, <1>7
    <2>2. CASE open = {}
      BY <2>1, <2>2 DEF Ledger!ledgerVars, open, closed, ledger
    <2>3. CASE open # {}
      <3>1. Ledger!Close
        BY <2>1, <2>3 DEF Ledger!Close, open, closed, ledger
      <3> QED BY <3>1 DEF Ledger!Next
    <2> QED BY <2>2, <2>3
  <1>8. ASSUME NEW p \in DOMAIN channels, NEW sats \in Amounts,
               DOMAIN channels' = DOMAIN channels, Active(p), sats >= 0,
               LedgerOf(p)' = Append(LedgerOf(p), [tick |-> Len(LedgerOf(p)) + 1,
                                                   cumulativeSatoshis |-> Ledger!Total(LedgerOf(p)) + sats]),
               \A q \in DOMAIN channels \ {p} : LedgerOf(q)' = LedgerOf(q),
               \A q \in DOMAIN channels : Active(q)' = Active(q) /\ Settled(q)' = Settled(q)
        PROVE  Ledger!Next
    <2>1. open' = open /\ closed' = closed /\ p \in open
      BY <1>1, <1>8
    <2>2. ledger[p] = LedgerOf(p) /\ p \in Players
      BY <1>2, <1>3
    <2>3. ledger' = [ledger EXCEPT ![p] = Append(@, [tick |-> Len(@) + 1,
                                                     cumulativeSatoshis |-> Ledger!Total(@) + sats])]
      BY <1>2, <1>8, <2>2
    <2>4. Ledger!Transfer(p, sats)
      BY <1>8, <2>1, <2>3 DEF Ledger!Transfer, open, closed, ledger
    <2> QED BY <2>2, <2>4 DEF Ledger!Next
  <1> QED BY <1>5, <1>6, <1>7, <1>8 DEF LedgerStep

\* The hub implements one append-only ledger per channel that is closed for good, whatever calls overlap
\* at the await and whenever the hub is settled (recordBet, awardPot, settleAll).
THEOREM HubImplementsLedger == HubSpec => ImplementsLedger
  <1>1. HubInit => LedgerInv /\ Ledger!Init
    <2> SUFFICES ASSUME HubInit PROVE LedgerInv /\ Ledger!Init
      OBVIOUS
    <2>1. DOMAIN channels = {}
      BY DEF HubInit
    <2> QED BY <2>1 DEF LedgerInv, Ledger!Init
  <1>2. HubTypeOK /\ HubTypeOK' /\ LedgerInv /\ [HubNext]_hubVars => LedgerInv' /\ [Ledger!Next]_(Ledger!ledgerVars)
    BY LedgerNext, LedgerRefines
  <1> QED BY <1>1, <1>2, HubTypeCorrect, PTL DEF HubSpec, ImplementsLedger, Ledger!Spec

-------------------------------------------------------------------------------
(* The floor's table.                                                         *)

-------------------------------------------------------------------------------
(* Weighing the queue.  What a job will add to a book, to a hand's record or  *)
(* to a count is its weight; the queue's is the sum of its jobs'.             *)

Weights == [Job -> Nat]

Weigh(queue, w) ==
    LET upTo[i \in 0..Len(queue)] == IF i = 0 THEN 0 ELSE upTo[i - 1] + w[queue[i]]
    IN  upTo[Len(queue)]

BetOf(p)   == [j \in Job |-> IF j.kind = "bet" /\ j.playerId = p THEN j.satoshis ELSE 0]
AwardOf(p) == [j \in Job |-> IF j.kind = "award" /\ j.playerId = p THEN j.satoshis ELSE 0]
TickOf(p)  == [j \in Job |-> IF j.playerId = p THEN 1 ELSE 0]
BetIn(h)   == [j \in Job |-> IF j.kind = "bet" /\ j.handNumber = h THEN j.satoshis ELSE 0]
IsAward    == [j \in Job |-> IF j.kind = "award" THEN 1 ELSE 0]

LEMMA WeightTypes ==
    /\ \A p : BetOf(p) \in Weights /\ AwardOf(p) \in Weights /\ TickOf(p) \in Weights
    /\ \A h : BetIn(h) \in Weights
    /\ IsAward \in Weights
  <1>1. \A j \in Job : j.satoshis \in Nat
    BY DEF Job
  <1> QED BY <1>1 DEF Weights, BetOf, AwardOf, TickOf, BetIn, IsAward

Heavier(queue, w, f, i) == IF i = 0 THEN 0 ELSE f[i - 1] + w[queue[i]]

Weighed(queue, w, f) == \A i \in 0..Len(queue) : f[i] = Heavier(queue, w, f, i)

LEMMA WeighWalks ==
    ASSUME NEW queue \in Seq(Job), NEW w \in Weights
    PROVE  \E f : Weighed(queue, w, f) /\ Weigh(queue, w) = f[Len(queue)]
  <1> DEFINE Goes(k) == \E f : f = [i \in 0..k |-> Heavier(queue, w, f, i)]
             T == {k \in Nat : Goes(k)}
  <1>1. 0 \in T
    <2>1. [i \in 0..0 |-> 0] = [i \in 0..0 |-> Heavier(queue, w, [j \in 0..0 |-> 0], i)]
      BY DEF Heavier
    <2> QED BY <2>1
  <1>2. ASSUME NEW k \in T PROVE k + 1 \in T
    <2>1. PICK f : f = [i \in 0..k |-> Heavier(queue, w, f, i)]
      OBVIOUS
    <2> DEFINE g == [i \in 0..(k + 1) |-> IF i <= k THEN f[i] ELSE Heavier(queue, w, f, k + 1)]
    <2>2. \A i \in 0..k : g[i] = f[i]
      OBVIOUS
    <2>3. \A i \in 0..k : f[i] = Heavier(queue, w, f, i)
      BY <2>1
    <2>4. \A i \in 1..(k + 1) : i - 1 \in 0..k
      OBVIOUS
    <2>5. g[k + 1] = Heavier(queue, w, f, k + 1)
      OBVIOUS
    <2> HIDE DEF g
    <2>6. \A i \in 0..(k + 1) : Heavier(queue, w, g, i) = Heavier(queue, w, f, i)
      BY <2>2, <2>4 DEF Heavier
    <2>7. \A i \in 0..(k + 1) : g[i] = Heavier(queue, w, g, i)
      BY <2>2, <2>3, <2>5, <2>6
    <2>8. g = [i \in 0..(k + 1) |-> Heavier(queue, w, g, i)]
      <3>1. g = [i \in 0..(k + 1) |-> g[i]]
        BY DEF g
      <3> QED BY <2>7, <3>1
    <2> QED BY <2>8
  <1>3. Len(queue) \in T
    <2>1. T \in SUBSET Nat
      OBVIOUS
    <2> HIDE DEF T
    <2>2. T = Nat
      BY <1>1, <1>2, <2>1, NatSetInduction
    <2> QED BY <2>2
  <1> DEFINE f == CHOOSE h : h = [i \in 0..Len(queue) |-> Heavier(queue, w, h, i)]
  <1>4. f = [i \in 0..Len(queue) |-> Heavier(queue, w, f, i)]
    BY <1>3
  <1>5. Weigh(queue, w) = f[Len(queue)]
    BY DEF Weigh, Heavier
  <1> HIDE DEF f
  <1> QED BY <1>4, <1>5 DEF Weighed

LEMMA WeighType ==
    ASSUME NEW queue \in Seq(Job), NEW w \in Weights
    PROVE  Weigh(queue, w) \in Nat
  <1>1. PICK f : Weighed(queue, w, f) /\ Weigh(queue, w) = f[Len(queue)]
    BY WeighWalks
  <1> DEFINE T == {i \in Nat : i <= Len(queue) => f[i] \in Nat}
  <1>2. 0 \in T
    BY <1>1 DEF Weighed, Heavier
  <1>3. ASSUME NEW i \in T PROVE i + 1 \in T
    <2> SUFFICES ASSUME i + 1 <= Len(queue) PROVE f[i + 1] \in Nat
      OBVIOUS
    <2>1. f[i + 1] = Heavier(queue, w, f, i + 1) /\ f[i] \in Nat /\ i + 1 # 0 /\ (i + 1) - 1 = i
      BY <1>1 DEF Weighed
    <2>2. queue[i + 1] \in Job
      OBVIOUS
    <2>3. w[queue[i + 1]] \in Nat
      BY <2>2 DEF Weights
    <2> QED BY <2>1, <2>3 DEF Heavier
  <1>4. Len(queue) \in T
    <2>1. T \in SUBSET Nat
      OBVIOUS
    <2> HIDE DEF T
    <2>2. T = Nat
      BY <1>2, <1>3, <2>1, NatSetInduction
    <2> QED BY <2>2
  <1> QED BY <1>1, <1>4

LEMMA WeighEmpty == ASSUME NEW w \in Weights PROVE Weigh(<<>>, w) = 0
  <1>0. PICK none : none = <<>>
    OBVIOUS
  <1>1. none \in Seq(Job) /\ Len(none) = 0
    BY <1>0
  <1>2. PICK f : Weighed(none, w, f) /\ Weigh(none, w) = f[Len(none)]
    BY <1>1, WeighWalks
  <1>3. f[0] = 0
    BY <1>1, <1>2 DEF Weighed, Heavier
  <1> QED BY <1>0, <1>1, <1>2, <1>3

\* A job that is queued adds its weight.
LEMMA WeighAppend ==
    ASSUME NEW queue \in Seq(Job), NEW job \in Job, NEW w \in Weights
    PROVE  Weigh(Append(queue, job), w) = Weigh(queue, w) + w[job]
  <1>0. PICK more : more = Append(queue, job)
    OBVIOUS
  <1>1. /\ more \in Seq(Job) /\ Len(more) = Len(queue) + 1 /\ Len(queue) \in Nat /\ more[Len(queue) + 1] = job
        /\ \A i \in 1..Len(queue) : more[i] = queue[i]
    BY <1>0
  <1>2. PICK f : Weighed(queue, w, f) /\ Weigh(queue, w) = f[Len(queue)]
    BY WeighWalks
  <1>3. PICK g : Weighed(more, w, g) /\ Weigh(more, w) = g[Len(more)]
    BY <1>1, WeighWalks
  <1> DEFINE T == {i \in Nat : i <= Len(queue) => f[i] = g[i]}
  <1>4. 0 \in T
    BY <1>1, <1>2, <1>3 DEF Weighed, Heavier
  <1>5. ASSUME NEW i \in T PROVE i + 1 \in T
    <2> SUFFICES ASSUME i + 1 <= Len(queue) PROVE f[i + 1] = g[i + 1]
      OBVIOUS
    <2>1. f[i + 1] = Heavier(queue, w, f, i + 1) /\ g[i + 1] = Heavier(more, w, g, i + 1)
      BY <1>1, <1>2, <1>3 DEF Weighed
    <2>2. f[i] = g[i] /\ (i + 1) - 1 = i /\ more[i + 1] = queue[i + 1]
      BY <1>1
    <2> QED BY <2>1, <2>2 DEF Heavier
  <1>6. f[Len(queue)] = g[Len(queue)]
    <2>1. T \in SUBSET Nat
      OBVIOUS
    <2> HIDE DEF T
    <2>2. T = Nat
      BY <1>4, <1>5, <2>1, NatSetInduction
    <2> QED BY <1>1, <2>2 DEF T
  <1>7. g[Len(queue) + 1] = Heavier(more, w, g, Len(queue) + 1) /\ (Len(queue) + 1) - 1 = Len(queue)
    BY <1>1, <1>3 DEF Weighed
  <1> QED BY <1>0, <1>1, <1>2, <1>3, <1>6, <1>7 DEF Heavier

\* A job that has run takes its weight out of the queue.
LEMMA WeighTail ==
    ASSUME NEW queue \in Seq(Job), queue # <<>>, NEW w \in Weights
    PROVE  Weigh(queue, w) = w[queue[1]] + Weigh(Tail(queue), w)
  <1>0. PICK less : less = Tail(queue)
    OBVIOUS
  <1>1. /\ less \in Seq(Job) /\ Len(queue) = Len(less) + 1 /\ Len(less) \in Nat
        /\ \A i \in 1..Len(less) : less[i] = queue[i + 1]
        /\ queue[1] \in Job
    BY <1>0
  <1>2. PICK f : Weighed(queue, w, f) /\ Weigh(queue, w) = f[Len(queue)]
    BY WeighWalks
  <1>3. PICK g : Weighed(less, w, g) /\ Weigh(less, w) = g[Len(less)]
    BY <1>1, WeighWalks
  <1>4. PICK first : first = w[queue[1]]
    OBVIOUS
  <1>5. first \in Nat
    BY <1>1, <1>4 DEF Weights
  <1> DEFINE T == {i \in Nat : i <= Len(less) => g[i] \in Nat /\ f[i + 1] = first + g[i]}
  <1>6. 0 \in T
    <2>1. g[0] = 0 /\ f[0] = 0
      BY <1>1, <1>2, <1>3 DEF Weighed, Heavier
    <2>2. f[1] = Heavier(queue, w, f, 1)
      BY <1>1, <1>2 DEF Weighed
    <2> QED BY <1>4, <1>5, <2>1, <2>2 DEF Heavier
  <1>7. ASSUME NEW i \in T PROVE i + 1 \in T
    <2> SUFFICES ASSUME i + 1 <= Len(less)
                 PROVE  g[i + 1] \in Nat /\ f[(i + 1) + 1] = first + g[i + 1]
      OBVIOUS
    <2>1. /\ g[i + 1] = Heavier(less, w, g, i + 1)
          /\ f[(i + 1) + 1] = Heavier(queue, w, f, (i + 1) + 1)
      BY <1>1, <1>2, <1>3 DEF Weighed
    <2>2. /\ g[i] \in Nat /\ f[i + 1] = first + g[i] /\ less[i + 1] = queue[(i + 1) + 1]
          /\ (i + 1) - 1 = i /\ ((i + 1) + 1) - 1 = i + 1 /\ i + 1 # 0 /\ (i + 1) + 1 # 0
      BY <1>1
    <2>3. w[less[i + 1]] \in Nat
      <3>1. less[i + 1] \in Job
        BY <1>1
      <3> QED BY <3>1 DEF Weights
    <2>4. g[i + 1] = g[i] + w[less[i + 1]] /\ f[(i + 1) + 1] = f[i + 1] + w[less[i + 1]]
      BY <2>1, <2>2 DEF Heavier
    <2> QED BY <1>5, <2>2, <2>3, <2>4
  <1>8. g[Len(less)] \in Nat /\ f[Len(less) + 1] = first + g[Len(less)]
    <2>1. T \in SUBSET Nat
      OBVIOUS
    <2> HIDE DEF T
    <2>2. T = Nat
      BY <1>6, <1>7, <2>1, NatSetInduction
    <2>3. Len(less) \in T
      BY <1>1, <2>2
    <2> QED BY <1>1, <2>3 DEF T
  <1> QED BY <1>0, <1>1, <1>2, <1>3, <1>4, <1>8

-------------------------------------------------------------------------------
(* The hub's books with what is queued for them: a call adds to them, running *)
(* a job leaves them as they are.                                             *)

Bets(p)     == channels[p].betSats + Weigh(jobs, BetOf(p))
Awards(p)   == channels[p].awardSats + Weigh(jobs, AwardOf(p))
Ticks(p)    == Len(channels[p].tickProofs) + Weigh(jobs, TickOf(p))
Recorded(h) == handPots[h] + Weigh(jobs, BetIn(h))
PotsAwarded == stats.totalPotsAwarded + Weigh(jobs, IsAward)

LEMMA BookTypes ==
    ASSUME HubTypeOK
    PROVE  /\ \A p \in DOMAIN channels : /\ channels[p].betSats \in Nat /\ channels[p].awardSats \in Nat
                                         /\ Len(channels[p].tickProofs) \in Nat
                                         /\ channels[p].channel.currentTick \in Nat
                                         /\ channels[p].channel.cumulativeSatoshis \in Nat
           /\ \A h \in Hands : handPots[h] \in Nat
           /\ stats.totalPotsAwarded \in Nat
           /\ \A w \in Weights : Weigh(jobs, w) \in Nat
  <1>1. ASSUME NEW p \in DOMAIN channels
        PROVE  /\ channels[p].betSats \in Nat /\ channels[p].awardSats \in Nat
               /\ Len(channels[p].tickProofs) \in Nat
               /\ channels[p].channel.currentTick \in Nat
               /\ channels[p].channel.cumulativeSatoshis \in Nat
    <2>1. channels[p] \in SeatChannel
      BY DEF HubTypeOK
    <2> QED BY <2>1, SeatTypes DEF SeatChannel
  <1>2. \A h \in Hands : handPots[h] \in Nat
    BY DEF HubTypeOK
  <1>3. stats.totalPotsAwarded \in Nat
    BY DEF HubTypeOK, HubStats
  <1>4. \A w \in Weights : Weigh(jobs, w) \in Nat
    BY WeighType DEF HubTypeOK
  <1> QED BY <1>1, <1>2, <1>3, <1>4

\* What a call queues.
LEMMA CallQueues ==
    ASSUME HubTypeOK, NEW kind \in {"bet", "award"}, NEW p \in Players, NEW sats \in Int, NEW h \in Hands,
           Accepts(p, sats), TickChannel(kind, p, sats, h)
    PROVE  \E job \in Job : /\ jobs' = Append(jobs, job)
                            /\ job.kind = kind /\ job.playerId = p /\ job.satoshis = sats /\ job.handNumber = h
  <1> DEFINE ticked == tick(channels[p].channel, sats).value
             queued == QueuedJob(kind, p, sats, h, ticked)
  <1>2. jobs' = Append(jobs, queued)
    BY DEF TickChannel, QueuedJob
  <1>3. queued \in Job
    <2>1. channels[p].channel \in MeteringChannel /\ tick(channels[p].channel, sats).ok
      BY DEF HubTypeOK, SeatChannel, Accepts
    <2>2. ticked \in MeteringChannel /\ sats \in Nat
      BY <2>1, TickMeter
    <2> HIDE DEF ticked
    <2> QED BY <2>2 DEF QueuedJob, computeTickProof, Job, Proof, MeteringChannel
  <1>4. queued.kind = kind /\ queued.playerId = p /\ queued.satoshis = sats /\ queued.handNumber = h
    BY DEF QueuedJob
  <1> QED BY <1>2, <1>3, <1>4

LEMMA CallTypeOK ==
    ASSUME HubTypeOK, NEW kind \in {"bet", "award"}, NEW p \in Players, NEW sats \in Int, NEW h \in Hands,
           Accepts(p, sats), TickChannel(kind, p, sats, h)
    PROVE  HubTypeOK'
  <1>1. PICK job \in Job : jobs' = Append(jobs, job) /\ job.playerId = p
    BY TickStep
  <1>2. jobs' \in Seq(Job) /\ \A i \in 1..Len(jobs') : jobs'[i].playerId \in DOMAIN channels
    BY <1>1 DEF HubTypeOK, Accepts
  <1>3. /\ DOMAIN channels' = DOMAIN channels
        /\ channels' \in [DOMAIN channels -> SeatChannel]
        /\ UNCHANGED <<handPots, settled, stats, settleResults>>
    BY TickStep
  <1> QED BY <1>2, <1>3 DEF HubTypeOK

LEMMA CallCounts ==
    ASSUME HubTypeOK, NEW kind \in {"bet", "award"}, NEW p \in Players, NEW sats \in Int, NEW h \in Hands,
           Accepts(p, sats), TickChannel(kind, p, sats, h)
    PROVE  /\ sats \in Nat /\ DOMAIN channels' = DOMAIN channels
           /\ UNCHANGED <<settled, settleResults>>
           /\ \A q \in DOMAIN channels :
                 /\ channels'[q].channel.state = channels[q].channel.state
                 /\ channels'[q].channel.currentTick
                       = channels[q].channel.currentTick + (IF q = p THEN 1 ELSE 0)
                 /\ channels'[q].channel.cumulativeSatoshis
                       = channels[q].channel.cumulativeSatoshis + (IF q = p THEN sats ELSE 0)
                 /\ Bets(q)' = Bets(q) + (IF kind = "bet" /\ q = p THEN sats ELSE 0)
                 /\ Awards(q)' = Awards(q) + (IF kind = "award" /\ q = p THEN sats ELSE 0)
                 /\ Ticks(q)' = Ticks(q) + (IF q = p THEN 1 ELSE 0)
           /\ \A k \in Hands : Recorded(k)' = Recorded(k) + (IF kind = "bet" /\ k = h THEN sats ELSE 0)
           /\ PotsAwarded' = PotsAwarded + (IF kind = "award" THEN 1 ELSE 0)
  <1>1. /\ p \in DOMAIN channels /\ sats \in Nat
        /\ DOMAIN channels' = DOMAIN channels
        /\ \A q \in DOMAIN channels :
              /\ channels'[q].tickProofs = channels[q].tickProofs
              /\ channels'[q].betSats = channels[q].betSats
              /\ channels'[q].awardSats = channels[q].awardSats
              /\ q # p => channels'[q] = channels[q]
        /\ channels'[p].channel.currentTick = channels[p].channel.currentTick + 1
        /\ channels'[p].channel.cumulativeSatoshis = channels[p].channel.cumulativeSatoshis + sats
        /\ UNCHANGED <<handPots, settled, stats, settleResults>>
    BY TickStep
  <1>2. channels'[p].channel.state = channels[p].channel.state
    <2> DEFINE ticked == tick(channels[p].channel, sats).value
    <2>1. channels[p] \in SeatChannel /\ channels[p].channel \in MeteringChannel /\ tick(channels[p].channel, sats).ok
      BY <1>1 DEF HubTypeOK, SeatChannel, Accepts
    <2>2. ticked \in MeteringChannel /\ ticked.state = channels[p].channel.state
      BY <2>1, TickMeter
    <2>3. channels' = [channels EXCEPT ![p] = [channels[p] EXCEPT !.channel = ticked]]
      BY DEF TickChannel
    <2> HIDE DEF ticked
    <2>4. [channels[p] EXCEPT !.channel = ticked].channel = ticked
      BY <2>1, <2>2, ChannelField
    <2> QED BY <1>1, <2>2, <2>3, <2>4
  <1>3. PICK job \in Job : /\ jobs' = Append(jobs, job)
                           /\ job.kind = kind /\ job.playerId = p /\ job.satoshis = sats /\ job.handNumber = h
    BY CallQueues
  <1>4. jobs \in Seq(Job) /\ \A w \in Weights : Weigh(jobs, w) \in Nat /\ Weigh(jobs', w) = Weigh(jobs, w) + w[job]
    BY <1>3, WeighType, WeighAppend DEF HubTypeOK
  <1>5. /\ \A q : BetOf(q)[job] = IF kind = "bet" /\ q = p THEN sats ELSE 0
        /\ \A q : AwardOf(q)[job] = IF kind = "award" /\ q = p THEN sats ELSE 0
        /\ \A q : TickOf(q)[job] = IF q = p THEN 1 ELSE 0
        /\ \A k : BetIn(k)[job] = IF kind = "bet" /\ k = h THEN sats ELSE 0
        /\ IsAward[job] = IF kind = "award" THEN 1 ELSE 0
    BY <1>3 DEF BetOf, AwardOf, TickOf, BetIn, IsAward
  <1>6. /\ \A q : Weigh(jobs', BetOf(q)) = Weigh(jobs, BetOf(q)) + (IF kind = "bet" /\ q = p THEN sats ELSE 0)
        /\ \A q : Weigh(jobs', AwardOf(q)) = Weigh(jobs, AwardOf(q)) + (IF kind = "award" /\ q = p THEN sats ELSE 0)
        /\ \A q : Weigh(jobs', TickOf(q)) = Weigh(jobs, TickOf(q)) + (IF q = p THEN 1 ELSE 0)
        /\ \A k : Weigh(jobs', BetIn(k)) = Weigh(jobs, BetIn(k)) + (IF kind = "bet" /\ k = h THEN sats ELSE 0)
        /\ Weigh(jobs', IsAward) = Weigh(jobs, IsAward) + (IF kind = "award" THEN 1 ELSE 0)
        /\ \A q : Weigh(jobs, BetOf(q)) \in Nat /\ Weigh(jobs, AwardOf(q)) \in Nat /\ Weigh(jobs, TickOf(q)) \in Nat
        /\ \A k : Weigh(jobs, BetIn(k)) \in Nat
        /\ Weigh(jobs, IsAward) \in Nat
    BY <1>4, <1>5, WeightTypes
  <1>7. ASSUME NEW q \in DOMAIN channels
        PROVE  /\ channels'[q].channel.state = channels[q].channel.state
               /\ channels'[q].channel.currentTick
                     = channels[q].channel.currentTick + (IF q = p THEN 1 ELSE 0)
               /\ channels'[q].channel.cumulativeSatoshis
                     = channels[q].channel.cumulativeSatoshis + (IF q = p THEN sats ELSE 0)
               /\ Bets(q)' = Bets(q) + (IF kind = "bet" /\ q = p THEN sats ELSE 0)
               /\ Awards(q)' = Awards(q) + (IF kind = "award" /\ q = p THEN sats ELSE 0)
               /\ Ticks(q)' = Ticks(q) + (IF q = p THEN 1 ELSE 0)
    <2>1. /\ channels[q].betSats \in Nat /\ channels[q].awardSats \in Nat
          /\ Len(channels[q].tickProofs) \in Nat
          /\ channels[q].channel.currentTick \in Nat /\ channels[q].channel.cumulativeSatoshis \in Nat
      BY BookTypes
    <2>2. /\ channels'[q].channel.state = channels[q].channel.state
          /\ channels'[q].channel.currentTick = channels[q].channel.currentTick + (IF q = p THEN 1 ELSE 0)
          /\ channels'[q].channel.cumulativeSatoshis
                = channels[q].channel.cumulativeSatoshis + (IF q = p THEN sats ELSE 0)
      BY <1>1, <1>2, <2>1
    <2>3. Bets(q)' = Bets(q) + (IF kind = "bet" /\ q = p THEN sats ELSE 0)
      <3> DEFINE more == IF kind = "bet" /\ q = p THEN sats ELSE 0
                 stored == channels[q].betSats
                 left == Weigh(jobs, BetOf(q))
      <3>1. Bets(q) = stored + left /\ Bets(q)' = channels'[q].betSats + Weigh(jobs', BetOf(q))
        BY DEF Bets
      <3>2. channels'[q].betSats = stored /\ Weigh(jobs', BetOf(q)) = left + more
        BY <1>1, <1>6
      <3>3. stored \in Nat /\ left \in Nat /\ more \in Int
        BY <1>6, <2>1
      <3> HIDE DEF more, stored, left
      <3>4. Bets(q)' = Bets(q) + more
        BY <3>1, <3>2, <3>3
      <3> QED BY <3>4 DEF more
    <2>4. Awards(q)' = Awards(q) + (IF kind = "award" /\ q = p THEN sats ELSE 0)
      <3> DEFINE more == IF kind = "award" /\ q = p THEN sats ELSE 0
                 stored == channels[q].awardSats
                 left == Weigh(jobs, AwardOf(q))
      <3>1. Awards(q) = stored + left /\ Awards(q)' = channels'[q].awardSats + Weigh(jobs', AwardOf(q))
        BY DEF Awards
      <3>2. channels'[q].awardSats = stored /\ Weigh(jobs', AwardOf(q)) = left + more
        BY <1>1, <1>6
      <3>3. stored \in Nat /\ left \in Nat /\ more \in Int
        BY <1>6, <2>1
      <3> HIDE DEF more, stored, left
      <3>4. Awards(q)' = Awards(q) + more
        BY <3>1, <3>2, <3>3
      <3> QED BY <3>4 DEF more
    <2>5. Ticks(q)' = Ticks(q) + (IF q = p THEN 1 ELSE 0)
      <3>1. Len(channels'[q].tickProofs) = Len(channels[q].tickProofs)
        BY <1>1
      <3>2. /\ Weigh(jobs', TickOf(q)) = Weigh(jobs, TickOf(q)) + (IF q = p THEN 1 ELSE 0)
            /\ Weigh(jobs, TickOf(q)) \in Nat
        BY <1>6
      <3>3. /\ Ticks(q) = Len(channels[q].tickProofs) + Weigh(jobs, TickOf(q))
            /\ Ticks(q)' = Len(channels'[q].tickProofs) + Weigh(jobs', TickOf(q))
        BY DEF Ticks
      <3> QED BY <2>1, <3>1, <3>2, <3>3
    <2> QED BY <2>2, <2>3, <2>4, <2>5
  <1>8. ASSUME NEW k \in Hands
        PROVE  Recorded(k)' = Recorded(k) + (IF kind = "bet" /\ k = h THEN sats ELSE 0)
    BY <1>1, <1>6, BookTypes DEF Recorded
  <1>9. PotsAwarded' = PotsAwarded + (IF kind = "award" THEN 1 ELSE 0)
    BY <1>1, <1>6, BookTypes DEF PotsAwarded
  <1> QED BY <1>1, <1>7, <1>8, <1>9

LEMMA JobTypeOK ==
    ASSUME HubTypeOK, RunJob
    PROVE  HubTypeOK'
  <1>1. jobs # <<>> /\ jobs' = Tail(jobs)
    BY RunJobStep
  <1>2. jobs' \in Seq(Job) /\ \A i \in 1..Len(jobs') : jobs'[i].playerId \in DOMAIN channels
    BY <1>1 DEF HubTypeOK
  <1>3. /\ DOMAIN channels' = DOMAIN channels
        /\ channels' \in [DOMAIN channels -> SeatChannel]
        /\ handPots' \in [Hands -> Nat]
        /\ stats' \in HubStats
        /\ UNCHANGED <<settled, settleResults>>
    BY RunJobStep
  <1> QED BY <1>2, <1>3 DEF HubTypeOK

LEMMA JobCounts ==
    ASSUME HubTypeOK, RunJob
    PROVE  /\ DOMAIN channels' = DOMAIN channels
           /\ UNCHANGED <<settled, settleResults>>
           /\ \A q \in DOMAIN channels :
                 /\ channels'[q].channel = channels[q].channel
                 /\ Bets(q)' = Bets(q) /\ Awards(q)' = Awards(q) /\ Ticks(q)' = Ticks(q)
           /\ \A k \in Hands : Recorded(k)' = Recorded(k)
           /\ PotsAwarded' = PotsAwarded
  <1>1. PICK job : job = Head(jobs)
    OBVIOUS
  <1>2. PICK p : p = job.playerId
    OBVIOUS
  <1>3. /\ jobs # <<>> /\ job \in Job /\ p \in DOMAIN channels /\ jobs' = Tail(jobs)
        /\ DOMAIN channels' = DOMAIN channels
        /\ \A q \in DOMAIN channels :
              /\ channels'[q].channel = channels[q].channel
              /\ q # p => channels'[q] = channels[q]
        /\ channels'[p].tickProofs = Append(channels[p].tickProofs, job.proof)
        /\ UNCHANGED <<settled, settleResults>>
    BY <1>1, <1>2, RunJobStep
  <1>4. /\ channels[p] \in SeatChannel /\ channels[p].tickProofs \in Seq(Proof)
        /\ job.satoshis \in Nat /\ job.handNumber \in Hands /\ job.kind \in {"bet", "award"} /\ job.proof \in Proof
    BY <1>3 DEF HubTypeOK, SeatChannel, Job
  <1>5. /\ channels'[p].betSats = channels[p].betSats + (IF job.kind = "bet" THEN job.satoshis ELSE 0)
        /\ channels'[p].awardSats = channels[p].awardSats + (IF job.kind = "award" THEN job.satoshis ELSE 0)
    <2> DEFINE sc     == channels[p]
               proofs == Append(sc.tickProofs, job.proof)
               bet    == sc.betSats + (IF job.kind = "bet" THEN job.satoshis ELSE 0)
               award  == sc.awardSats + (IF job.kind = "award" THEN job.satoshis ELSE 0)
               b      == [sc EXCEPT !.tickProofs = proofs, !.betSats = bet, !.awardSats = award]
    <2>1. channels' = [channels EXCEPT ![p] = b]
      BY <1>1, <1>2 DEF RunJob, NextJob, Booked, StoredProof
    <2>2. b.betSats = bet /\ b.awardSats = award
      <3> HIDE DEF proofs, bet, award
      <3> QED BY <1>4 DEF SeatChannel
    <2> HIDE DEF b
    <2>3. channels'[p] = b
      BY <1>3, <2>1
    <2> QED BY <2>2, <2>3
  <1>6. \A k \in Hands : handPots'[k] = handPots[k] + (IF job.kind = "bet" /\ k = job.handNumber THEN job.satoshis ELSE 0)
    <2>1. handPots \in [Hands -> Nat]
      BY DEF HubTypeOK
    <2>2. CASE job.kind = "bet"
      <3>1. handPots' = [handPots EXCEPT ![job.handNumber] = @ + job.satoshis]
        BY <1>1, <2>2 DEF RunJob, NextJob
      <3> QED BY <1>4, <2>1, <2>2, <3>1
    <2>3. CASE job.kind # "bet"
      <3>1. handPots' = handPots
        BY <1>1, <2>3 DEF RunJob, NextJob
      <3> QED BY <2>1, <2>3, <3>1
    <2> QED BY <2>2, <2>3
  <1>7. stats'.totalPotsAwarded = stats.totalPotsAwarded + (IF job.kind = "award" THEN 1 ELSE 0)
    <2>1. stats \in HubStats
      BY DEF HubTypeOK
    <2>2. CASE job.kind = "bet"
      <3>1. stats' = BetStats(job.satoshis)
        BY <1>1, <2>2 DEF RunJob, NextJob
      <3> QED BY <2>1, <2>2, <3>1 DEF BetStats, HubStats
    <2>3. CASE job.kind # "bet"
      <3>1. stats' = AwardStats(job.satoshis)
        BY <1>1, <2>3 DEF RunJob, NextJob
      <3> DEFINE t == stats.totalTicks + 1
                 n == stats.totalPotsAwarded + 1
                 s == stats.totalSatsAwarded + job.satoshis
      <3>2. stats' = [stats EXCEPT !.totalTicks = t, !.totalPotsAwarded = n, !.totalSatsAwarded = s]
        BY <3>1 DEF AwardStats
      <3>3. stats'.totalPotsAwarded = n
        <4> HIDE DEF t, n, s
        <4> QED BY <2>1, <3>2 DEF HubStats
      <3> QED BY <1>4, <2>3, <3>3
    <2> QED BY <2>2, <2>3
  <1>8. /\ jobs \in Seq(Job) /\ job = jobs[1] /\ jobs' \in Seq(Job)
        /\ \A w \in Weights : w[job] \in Nat /\ Weigh(jobs', w) \in Nat /\ Weigh(jobs, w) = w[job] + Weigh(jobs', w)
    <2>1. jobs \in Seq(Job) /\ jobs' \in Seq(Job) /\ job = jobs[1]
      BY <1>1, <1>3 DEF HubTypeOK
    <2>2. ASSUME NEW w \in Weights PROVE w[job] \in Nat
      BY <1>3 DEF Weights
    <2> QED BY <1>3, <2>1, <2>2, WeighType, WeighTail
  <1>9. /\ \A q : BetOf(q)[job] = IF job.kind = "bet" /\ q = p THEN job.satoshis ELSE 0
        /\ \A q : AwardOf(q)[job] = IF job.kind = "award" /\ q = p THEN job.satoshis ELSE 0
        /\ \A q : TickOf(q)[job] = IF q = p THEN 1 ELSE 0
        /\ \A k : BetIn(k)[job] = IF job.kind = "bet" /\ k = job.handNumber THEN job.satoshis ELSE 0
        /\ IsAward[job] = IF job.kind = "award" THEN 1 ELSE 0
    BY <1>2, <1>3 DEF BetOf, AwardOf, TickOf, BetIn, IsAward
  <1>10. /\ \A q : Weigh(jobs, BetOf(q)) = Weigh(jobs', BetOf(q)) + (IF job.kind = "bet" /\ q = p THEN job.satoshis ELSE 0)
         /\ \A q : Weigh(jobs, AwardOf(q)) = Weigh(jobs', AwardOf(q)) + (IF job.kind = "award" /\ q = p THEN job.satoshis ELSE 0)
         /\ \A q : Weigh(jobs, TickOf(q)) = Weigh(jobs', TickOf(q)) + (IF q = p THEN 1 ELSE 0)
         /\ \A k : Weigh(jobs, BetIn(k)) = Weigh(jobs', BetIn(k)) + (IF job.kind = "bet" /\ k = job.handNumber THEN job.satoshis ELSE 0)
         /\ Weigh(jobs, IsAward) = Weigh(jobs', IsAward) + (IF job.kind = "award" THEN 1 ELSE 0)
         /\ \A q : Weigh(jobs', BetOf(q)) \in Nat /\ Weigh(jobs', AwardOf(q)) \in Nat /\ Weigh(jobs', TickOf(q)) \in Nat
         /\ \A k : Weigh(jobs', BetIn(k)) \in Nat
         /\ Weigh(jobs', IsAward) \in Nat
    <2>1. /\ \A q : BetOf(q) \in Weights /\ AwardOf(q) \in Weights /\ TickOf(q) \in Weights
          /\ \A k : BetIn(k) \in Weights
          /\ IsAward \in Weights
      BY WeightTypes
    <2>2. ASSUME NEW w \in Weights
          PROVE  w[job] \in Nat /\ Weigh(jobs', w) \in Nat /\ Weigh(jobs, w) = Weigh(jobs', w) + w[job]
      BY <1>8
    <2> QED BY <1>9, <2>1, <2>2
  <1>11. ASSUME NEW q \in DOMAIN channels
         PROVE  Bets(q)' = Bets(q) /\ Awards(q)' = Awards(q) /\ Ticks(q)' = Ticks(q)
    <2>1. /\ channels[q].betSats \in Nat /\ channels[q].awardSats \in Nat /\ Len(channels[q].tickProofs) \in Nat
      BY BookTypes
    <2>2. /\ channels'[q].betSats = channels[q].betSats + (IF job.kind = "bet" /\ q = p THEN job.satoshis ELSE 0)
          /\ channels'[q].awardSats = channels[q].awardSats + (IF job.kind = "award" /\ q = p THEN job.satoshis ELSE 0)
          /\ Len(channels'[q].tickProofs) = Len(channels[q].tickProofs) + (IF q = p THEN 1 ELSE 0)
      <3>1. CASE q = p
        BY <1>3, <1>4, <1>5, <3>1
      <3>2. CASE q # p
        BY <1>3, <2>1, <3>2
      <3> QED BY <3>1, <3>2
    <2>3. Bets(q)' = Bets(q)
      BY <1>4, <1>10, <2>1, <2>2 DEF Bets
    <2>4. Awards(q)' = Awards(q)
      BY <1>4, <1>10, <2>1, <2>2 DEF Awards
    <2>5. Ticks(q)' = Ticks(q)
      <3>1. /\ Weigh(jobs, TickOf(q)) = Weigh(jobs', TickOf(q)) + (IF q = p THEN 1 ELSE 0)
            /\ Weigh(jobs', TickOf(q)) \in Nat
        BY <1>10
      <3>2. /\ Ticks(q) = Len(channels[q].tickProofs) + Weigh(jobs, TickOf(q))
            /\ Ticks(q)' = Len(channels'[q].tickProofs) + Weigh(jobs', TickOf(q))
        BY DEF Ticks
      <3> DEFINE stored == Len(channels[q].tickProofs)
                 left == Weigh(jobs', TickOf(q))
                 one == IF q = p THEN 1 ELSE 0
      <3>3. Ticks(q) = stored + (left + one) /\ Ticks(q)' = (stored + one) + left
        BY <2>2, <3>1, <3>2
      <3>4. stored \in Nat /\ left \in Nat /\ one \in Nat
        BY <2>1, <3>1
      <3> HIDE DEF stored, left, one
      <3> QED BY <3>3, <3>4
    <2> QED BY <2>3, <2>4, <2>5
  <1>12. ASSUME NEW k \in Hands PROVE Recorded(k)' = Recorded(k)
    BY <1>4, <1>6, <1>10, BookTypes DEF Recorded
  <1>13. PotsAwarded' = PotsAwarded
    BY <1>7, <1>10, BookTypes DEF PotsAwarded
  <1> QED BY <1>3, <1>11, <1>12, <1>13

-------------------------------------------------------------------------------
(* The invariant of the floor. *)

FloorTypeOK ==
    /\ stage \in {"opening", "playing", "settled"}
    /\ potLog \in Seq(Nat) /\ Len(potLog) = hand
    /\ offBook \in [Seats -> Int]
    /\ hand <= HandsPerTable /\ (hand < HandsPerTable \/ pc = "done")
    /\ \A i \in Seats : seats[i].player = i \/ seats[i].player >= NumSeats

Unopened == TableInit /\ HubInit /\ potLog = <<>> /\ offBook = [i \in Seats |-> StartingChips]

Opened ==
    /\ DOMAIN channels = Seats
    /\ settled = (stage = "settled")
    /\ \A p \in Seats :
          /\ channels[p].channel.state = IF stage = "settled" THEN "SETTLED" ELSE "ACTIVE"
          /\ channels[p].channel.currentTick = Ticks(p)
          /\ channels[p].channel.cumulativeSatoshis = Bets(p) + Awards(p)

Prize(i) == IF pc = "complete" /\ i = winner THEN pot ELSE 0

Stacks ==
    \A i \in Seats : seats[i].player = i => seats[i].chips = offBook[i] + Awards(i) - Bets(i) + Prize(i)

Everybody == \A i \in Seats : seats[i].player = i

Played ==
    /\ \A k \in 1..hand : Recorded(k - 1) + SmallBlind + BigBlind = potLog[k]
    /\ PotsAwarded = hand
    /\ pc = "topup" => Recorded(hand) = 0
    /\ pc \in {"betting", "showdown", "complete"} => Recorded(hand) + SmallBlind + BigBlind = pot
    /\ \A h \in (hand + 1)..(HandsPerTable - 1) : Recorded(h) = 0

Reported ==
    /\ jobs = <<>> /\ finalReport = <<Summary(channels)>>
    /\ \A p \in Seats : settleResults[p].netSats = channels[p].awardSats - channels[p].betSats

FloorInv ==
    /\ TableInv /\ HubTypeOK /\ FloorTypeOK
    /\ stage = "opening" => Unopened
    /\ stage # "opening" => Opened /\ Stacks /\ (Everybody => Played)
    /\ stage = "settled" => Reported

\* The numbers of seats and hands, and what they are included in.
LEMMA Numbers ==
    /\ NumSeats \in Nat /\ NumSeats >= 2 /\ HandsPerTable \in Nat
    /\ StartingChips \in Nat /\ BigBlind \in Nat /\ SmallBlind \in Nat /\ SmallBlind > 0
    /\ Seats \subseteq Nat /\ Seats \subseteq Players /\ \A i \in Seats : i < NumSeats
    /\ 0..(HandsPerTable - 1) \subseteq Hands
  BY TableAssumption, FloorAssumption DEF TableAssumption, FloorAssumption, Seats

LEMMA OpenedState == OpenedChannel.state = "ACTIVE"
  <1> DEFINE f == [createChannel EXCEPT !.state = "FUNDED"]
             a == [f EXCEPT !.state = "ACTIVE"]
  <1>1. fund(createChannel) = Ok(f)
    BY DEF fund, Move, canTransition, transitionTable, createChannel
  <1>2. f.state = "FUNDED" /\ a.state = "ACTIVE"
    BY DEF createChannel
  <1> HIDE DEF f
  <1>3. activate(f) = Ok(a)
    BY <1>2 DEF activate, Move, canTransition, transitionTable
  <1> HIDE DEF a
  <1> QED BY <1>1, <1>2, <1>3 DEF OpenedChannel, Ok

\* Every answer moves the chips it names.
LEMMA AnswerMoves ==
    ASSUME NEW d \in Decisions
    PROVE  Moved(seats[startIdx], d) =
              IF d.action \in {"call", "bet", "raise", "all-in"} THEN d.amount ELSE 0
  <1> DEFINE seat   == seats[startIdx]
             toCall == currentBet - seat.currentBet
             bets   == {Answer("bet", smaller(size, seat.chips)) : size \in BetSizes}
             raises == {Answer("raise", smaller(size, seat.chips)) : size \in RaiseSizes(toCall)}
  <1>1. PICK answer \in selectHeuristicAction(seat) : d = Decision(seat, answer)
    BY DEF Decisions
  <1>2. CASE d = Fallback(seat)
    BY <1>2 DEF Fallback, Answer, Moved
  <1>3. CASE d = answer
    <2>1. \/ answer = Answer("fold", 0) \/ answer = Answer("check", 0)
          \/ answer \in bets \/ answer \in raises
          \/ answer = Answer("call", toCall) /\ seat.chips >= toCall
          \/ answer = Answer("all-in", seat.chips)
      <3>1. CASE toCall = 0
        <4>1. answer \in bets \cup {Answer("check", 0)}
          BY <3>1 DEF selectHeuristicAction
        <4> HIDE DEF bets, toCall
        <4> QED BY <4>1
      <3>2. CASE toCall # 0
        <4>1. answer \in {Answer("fold", 0)}
                 \cup (IF seat.chips > toCall * 2 THEN raises ELSE {})
                 \cup (IF seat.chips >= toCall THEN {Answer("call", toCall)} ELSE {Answer("all-in", seat.chips)})
          BY <3>2 DEF selectHeuristicAction
        <4> HIDE DEF raises, toCall, seat
        <4> QED BY <4>1
      <3> QED BY <3>1, <3>2
    <2>2. CASE answer = Answer("fold", 0) \/ answer = Answer("check", 0)
      BY <1>3, <2>2 DEF Answer, Moved
    <2>3. CASE answer \in bets
      <3>1. PICK size \in BetSizes : answer = Answer("bet", smaller(size, seat.chips))
        BY <2>3
      <3> QED BY <1>3, <3>1 DEF Answer, Moved, smaller
    <2>4. CASE answer \in raises
      <3>1. PICK size \in RaiseSizes(toCall) : answer = Answer("raise", smaller(size, seat.chips))
        BY <2>4
      <3> QED BY <1>3, <3>1 DEF Answer, Moved, smaller
    <2>5. CASE answer = Answer("call", toCall) /\ seat.chips >= toCall
      BY <1>3, <2>5 DEF Answer, Moved, smaller
    <2>6. CASE answer = Answer("all-in", seat.chips)
      BY <1>3, <2>6 DEF Answer, Moved
    <2> QED BY <2>1, <2>2, <2>3, <2>4, <2>5, <2>6
  <1> QED BY <1>1, <1>2, <1>3 DEF Decision

-------------------------------------------------------------------------------
(* What a step does to the books, for the hand's record and for every player. *)

BooksMove(p, bet, award, h) ==
    /\ HubTypeOK' /\ Opened'
    /\ \A q \in Seats : /\ Bets(q)' = Bets(q) + (IF q = p THEN bet ELSE 0)
                        /\ Awards(q)' = Awards(q) + (IF q = p THEN award ELSE 0)
    /\ \A k \in 0..(HandsPerTable - 1) : Recorded(k)' = Recorded(k) + (IF k = h /\ p \in Seats THEN bet ELSE 0)
    /\ PotsAwarded' = PotsAwarded + (IF award > 0 /\ p \in Seats THEN 1 ELSE 0)

LEMMA CountTypes ==
    ASSUME HubTypeOK, Opened
    PROVE  /\ \A p \in Seats : Bets(p) \in Nat /\ Awards(p) \in Nat /\ Ticks(p) \in Nat
           /\ \A h \in 0..(HandsPerTable - 1) : Recorded(h) \in Nat
           /\ PotsAwarded \in Nat
  <1>1. \A w \in Weights : Weigh(jobs, w) \in Nat
    BY BookTypes
  <1>2. /\ \A p : Weigh(jobs, BetOf(p)) \in Nat /\ Weigh(jobs, AwardOf(p)) \in Nat /\ Weigh(jobs, TickOf(p)) \in Nat
        /\ \A h : Weigh(jobs, BetIn(h)) \in Nat
        /\ Weigh(jobs, IsAward) \in Nat
    BY <1>1, WeightTypes
  <1>3. ASSUME NEW p \in Seats PROVE Bets(p) \in Nat /\ Awards(p) \in Nat /\ Ticks(p) \in Nat
    <2>1. /\ channels[p].betSats \in Nat /\ channels[p].awardSats \in Nat
          /\ Len(channels[p].tickProofs) \in Nat
      BY BookTypes DEF Opened
    <2>2. Weigh(jobs, BetOf(p)) \in Nat /\ Weigh(jobs, AwardOf(p)) \in Nat /\ Weigh(jobs, TickOf(p)) \in Nat
      BY <1>2
    <2>3. Bets(p) \in Nat /\ Awards(p) \in Nat
      BY <2>1, <2>2 DEF Bets, Awards
    <2>4. Ticks(p) \in Nat
      <3> DEFINE stored == Len(channels[p].tickProofs)
                 left == Weigh(jobs, TickOf(p))
      <3>1. Ticks(p) = stored + left
        BY DEF Ticks
      <3>2. stored \in Nat /\ left \in Nat
        BY <2>1, <2>2
      <3> HIDE DEF stored, left
      <3> QED BY <3>1, <3>2
    <2> QED BY <2>3, <2>4
  <1>4. ASSUME NEW h \in 0..(HandsPerTable - 1) PROVE Recorded(h) \in Nat
    <2>1. handPots[h] \in Nat
      BY Numbers, BookTypes
    <2>2. Weigh(jobs, BetIn(h)) \in Nat
      BY <1>2
    <2> QED BY <2>1, <2>2 DEF Recorded
  <1>5. PotsAwarded \in Nat
    BY <1>2, BookTypes DEF PotsAwarded
  <1> QED BY <1>3, <1>4, <1>5

LEMMA BooksStay ==
    ASSUME HubTypeOK, Opened, UNCHANGED hubVars, stage' = stage, NEW p, NEW h
    PROVE  BooksMove(p, 0, 0, h)
  <1>1. /\ channels' = channels /\ jobs' = jobs /\ handPots' = handPots /\ stats' = stats /\ settled' = settled
        /\ settleResults' = settleResults
    BY DEF hubVars
  <1>2. HubTypeOK'
    BY <1>1 DEF HubTypeOK
  <1>3. /\ \A q \in Seats : Bets(q)' = Bets(q) /\ Awards(q)' = Awards(q) /\ Ticks(q)' = Ticks(q)
        /\ \A k \in 0..(HandsPerTable - 1) : Recorded(k)' = Recorded(k)
        /\ PotsAwarded' = PotsAwarded
    BY <1>1 DEF Bets, Awards, Ticks, Recorded, PotsAwarded
  <1>4. Opened'
    BY <1>1, <1>3 DEF Opened
  <1> QED BY <1>2, <1>3, <1>4, CountTypes DEF BooksMove

\* While the table plays, a channel takes whatever its player moves.
LEMMA OpenAccepts ==
    ASSUME Opened, stage = "playing", NEW p, NEW sats \in Nat
    PROVE  Accepts(p, sats) <=> p \in Seats
  <1>1. ~settled /\ DOMAIN channels = Seats
    BY DEF Opened
  <1>2. ASSUME p \in Seats PROVE tick(channels[p].channel, sats).ok
    BY <1>2 DEF Opened, tick, Ok
  <1> QED BY <1>1, <1>2 DEF Accepts

LEMMA BooksCalled ==
    ASSUME HubTypeOK, Opened, stage' = stage, NEW kind \in {"bet", "award"}, NEW p \in Seats, NEW sats \in Nat,
           NEW h \in 0..(HandsPerTable - 1), Accepts(p, sats), TickChannel(kind, p, sats, h), sats > 0
    PROVE  BooksMove(p, IF kind = "bet" THEN sats ELSE 0, IF kind = "award" THEN sats ELSE 0, h)
  <1>1. p \in Players /\ h \in Hands /\ sats \in Int /\ DOMAIN channels = Seats
    BY Numbers DEF Opened
  <1>2. /\ DOMAIN channels' = DOMAIN channels
        /\ UNCHANGED <<settled, settleResults>>
        /\ \A q \in DOMAIN channels :
              /\ channels'[q].channel.state = channels[q].channel.state
              /\ channels'[q].channel.currentTick
                    = channels[q].channel.currentTick + (IF q = p THEN 1 ELSE 0)
              /\ channels'[q].channel.cumulativeSatoshis
                    = channels[q].channel.cumulativeSatoshis + (IF q = p THEN sats ELSE 0)
              /\ Bets(q)' = Bets(q) + (IF kind = "bet" /\ q = p THEN sats ELSE 0)
              /\ Awards(q)' = Awards(q) + (IF kind = "award" /\ q = p THEN sats ELSE 0)
              /\ Ticks(q)' = Ticks(q) + (IF q = p THEN 1 ELSE 0)
        /\ \A k \in Hands : Recorded(k)' = Recorded(k) + (IF kind = "bet" /\ k = h THEN sats ELSE 0)
        /\ PotsAwarded' = PotsAwarded + (IF kind = "award" THEN 1 ELSE 0)
    BY <1>1, CallCounts
  <1>3. HubTypeOK'
    BY <1>1, CallTypeOK
  <1>4. \A q \in Seats : Bets(q) \in Nat /\ Awards(q) \in Nat /\ Ticks(q) \in Nat
    BY CountTypes
  <1>5. ASSUME NEW q \in Seats
        PROVE  /\ channels'[q].channel.state = IF stage' = "settled" THEN "SETTLED" ELSE "ACTIVE"
               /\ channels'[q].channel.currentTick = Ticks(q)'
               /\ channels'[q].channel.cumulativeSatoshis = Bets(q)' + Awards(q)'
    <2>1. /\ channels[q].channel.state = IF stage = "settled" THEN "SETTLED" ELSE "ACTIVE"
          /\ channels[q].channel.currentTick = Ticks(q)
          /\ channels[q].channel.cumulativeSatoshis = Bets(q) + Awards(q)
      BY DEF Opened
    <2>2. /\ Bets(q) \in Nat /\ Awards(q) \in Nat /\ Ticks(q) \in Nat
      BY <1>4
    <2>3. /\ channels'[q].channel.state = channels[q].channel.state
          /\ channels'[q].channel.currentTick
                = channels[q].channel.currentTick + (IF q = p THEN 1 ELSE 0)
          /\ channels'[q].channel.cumulativeSatoshis
                = channels[q].channel.cumulativeSatoshis + (IF q = p THEN sats ELSE 0)
          /\ Bets(q)' = Bets(q) + (IF kind = "bet" /\ q = p THEN sats ELSE 0)
          /\ Awards(q)' = Awards(q) + (IF kind = "award" /\ q = p THEN sats ELSE 0)
          /\ Ticks(q)' = Ticks(q) + (IF q = p THEN 1 ELSE 0)
      BY <1>1, <1>2
    <2>4. CASE q = p
      <3>1. CASE kind = "bet"
        BY <2>1, <2>2, <2>3, <2>4, <3>1
      <3>2. CASE kind = "award"
        BY <2>1, <2>2, <2>3, <2>4, <3>2
      <3> QED BY <3>1, <3>2
    <2>5. CASE q # p
      BY <2>1, <2>2, <2>3, <2>5
    <2> QED BY <2>4, <2>5
  <1>6. Opened'
    BY <1>1, <1>2, <1>5 DEF Opened
  <1>7. \A q \in Seats : /\ Bets(q)' = Bets(q) + (IF q = p THEN IF kind = "bet" THEN sats ELSE 0 ELSE 0)
                         /\ Awards(q)' = Awards(q) + (IF q = p THEN IF kind = "award" THEN sats ELSE 0 ELSE 0)
    BY <1>1, <1>2
  <1>8. \A k \in 0..(HandsPerTable - 1) :
           Recorded(k)' = Recorded(k) + (IF k = h /\ p \in Seats THEN IF kind = "bet" THEN sats ELSE 0 ELSE 0)
    BY <1>2, Numbers
  <1>9. PotsAwarded' = PotsAwarded + (IF (IF kind = "award" THEN sats ELSE 0) > 0 /\ p \in Seats THEN 1 ELSE 0)
    BY <1>2
  <1> QED BY <1>3, <1>6, <1>7, <1>8, <1>9 DEF BooksMove

\* onAction books what the turn moved (table-payment-hub.ts 373-386).
LEMMA ActionBooks ==
    ASSUME HubTypeOK, Opened, stage = "playing", stage' = stage, NEW p, NEW action, NEW amount,
           NEW moved \in Nat, moved = (IF action \in {"call", "bet", "raise", "all-in"} THEN amount ELSE 0),
           NEW h \in 0..(HandsPerTable - 1), onAction(p, action, amount, h)
    PROVE  BooksMove(p, moved, 0, h)
  <1>1. CASE action \in {"call", "bet", "raise", "all-in"} /\ amount > 0 /\ p \in Seats
    <2>1. amount = moved /\ Accepts(p, moved)
      BY <1>1, OpenAccepts
    <2>2. TickChannel("bet", p, moved, h) /\ moved > 0
      BY <1>1, <2>1 DEF onAction, recordBet
    <2>3. BooksMove(p, IF "bet" = "bet" THEN moved ELSE 0, IF "bet" = "award" THEN moved ELSE 0, h)
      BY <1>1, <2>1, <2>2, BooksCalled
    <2> QED BY <2>3
  <1>2. CASE ~(action \in {"call", "bet", "raise", "all-in"} /\ amount > 0)
    <2>1. UNCHANGED hubVars
      BY <1>2 DEF onAction
    <2>2. moved = 0
      BY <1>2
    <2> QED BY <2>1, <2>2, BooksStay
  <1>3. CASE action \in {"call", "bet", "raise", "all-in"} /\ amount > 0 /\ p \notin Seats
    <2>1. ~Accepts(p, amount)
      BY <1>3, OpenAccepts
    <2>2. UNCHANGED hubVars
      BY <1>3, <2>1 DEF onAction
    <2>3. BooksMove(p, 0, 0, h)
      BY <2>2, BooksStay
    <2> QED BY <1>3, <2>3 DEF BooksMove
  <1> QED BY <1>1, <1>2, <1>3

LEMMA CompleteBooks ==
    ASSUME HubTypeOK, Opened, stage = "playing", stage' = stage, NEW p, NEW prize \in Nat,
           NEW h \in 0..(HandsPerTable - 1), onHandComplete(p, prize, h)
    PROVE  BooksMove(p, 0, prize, h)
  <1>1. CASE prize > 0 /\ p \in Seats
    <2>1. Accepts(p, prize)
      BY <1>1, OpenAccepts
    <2>2. TickChannel("award", p, prize, h)
      BY <1>1, <2>1 DEF onHandComplete, awardPot
    <2>3. BooksMove(p, IF "award" = "bet" THEN prize ELSE 0, IF "award" = "award" THEN prize ELSE 0, h)
      BY <1>1, <2>1, <2>2, BooksCalled
    <2> QED BY <2>3
  <1>2. CASE prize = 0
    <2>1. UNCHANGED hubVars
      BY <1>2 DEF onHandComplete
    <2> QED BY <1>2, <2>1, BooksStay
  <1>3. CASE prize > 0 /\ p \notin Seats
    <2>1. UNCHANGED hubVars
      BY <1>3, OpenAccepts DEF onHandComplete
    <2>2. BooksMove(p, 0, 0, h)
      BY <2>1, BooksStay
    <2> QED BY <1>3, <2>2 DEF BooksMove
  <1> QED BY <1>1, <1>2, <1>3

LEMMA JobBooks ==
    ASSUME HubTypeOK, Opened, RunJob, stage' = stage, NEW p, NEW h
    PROVE  BooksMove(p, 0, 0, h)
  <1>1. /\ DOMAIN channels = Seats /\ DOMAIN channels' = DOMAIN channels
        /\ UNCHANGED <<settled, settleResults>>
        /\ \A q \in DOMAIN channels :
              /\ channels'[q].channel = channels[q].channel
              /\ Bets(q)' = Bets(q) /\ Awards(q)' = Awards(q) /\ Ticks(q)' = Ticks(q)
        /\ \A k \in Hands : Recorded(k)' = Recorded(k)
        /\ PotsAwarded' = PotsAwarded
    BY JobCounts DEF Opened
  <1>2. HubTypeOK'
    BY JobTypeOK
  <1>3. Opened'
    BY <1>1 DEF Opened
  <1>4. /\ \A q \in Seats : Bets(q)' = Bets(q) /\ Awards(q)' = Awards(q)
        /\ \A k \in 0..(HandsPerTable - 1) : Recorded(k)' = Recorded(k)
    BY <1>1, Numbers
  <1> QED BY <1>1, <1>2, <1>3, <1>4, CountTypes DEF BooksMove

-------------------------------------------------------------------------------
(* Every step keeps the invariant.  What it needs of the table's own steps is *)
(* which player sits where and how the stacks and the pot move.               *)

\* Nobody sits down at another seat.
SameFaces ==
    \A i \in Seats : /\ seats'[i].player = i => seats[i].player = i
                     /\ seats'[i].player = i \/ seats'[i].player >= NumSeats

LEMMA FacesStay ==
    ASSUME FloorTypeOK, \A i \in Seats : seats'[i].player = seats[i].player
    PROVE  SameFaces
  BY DEF SameFaces, FloorTypeOK

\* The types after a step that plays no hand to its end.
LEMMA FloorTypeKept ==
    ASSUME FloorTypeOK, SameFaces, stage' \in {"opening", "playing", "settled"}, UNCHANGED <<potLog, hand>>,
           offBook' \in [Seats -> Int], hand < HandsPerTable \/ pc' = "done"
    PROVE  FloorTypeOK'
  BY DEF FloorTypeOK, SameFaces

LEMMA SeatFields ==
    ASSUME NEW table \in [Seats -> Seat]
    PROVE  \A i \in Seats : table[i] \in Seat /\ table[i].chips \in Nat /\ table[i].player \in Nat
  <1> SUFFICES ASSUME NEW i \in Seats PROVE table[i] \in Seat /\ table[i].chips \in Nat /\ table[i].player \in Nat
    OBVIOUS
  <1>1. table[i] \in Seat
    OBVIOUS
  <1> QED BY <1>1 DEF Seat

\* The stacks stay explained if what a stack gains is booked, brought in or the prize on its way.
LEMMA StacksKept ==
    ASSUME HubTypeOK, Opened, FloorTypeOK, Stacks, SameFaces,
           NEW p, NEW bet \in Nat, NEW award \in Nat, NEW h, BooksMove(p, bet, award, h),
           offBook' \in [Seats -> Int], \A j \in Seats : seats[j].chips \in Nat /\ seats'[j].chips \in Nat,
           \A j \in Seats : Prize(j) \in Nat /\ Prize(j)' \in Nat,
           \A j \in Seats : seats'[j].chips - seats[j].chips
                               = (offBook'[j] - offBook[j]) + (Prize(j)' - Prize(j))
                                 + (IF j = p THEN award - bet ELSE 0)
    PROVE  Stacks'
  <1> SUFFICES ASSUME NEW j \in Seats, seats'[j].player = j
               PROVE  seats'[j].chips = offBook'[j] + Awards(j)' - Bets(j)' + Prize(j)'
    BY DEF Stacks
  <1>1. seats[j].chips = offBook[j] + Awards(j) - Bets(j) + Prize(j)
    BY DEF Stacks, SameFaces
  <1>2. /\ Bets(j) \in Nat /\ Awards(j) \in Nat
        /\ Bets(j)' = Bets(j) + (IF j = p THEN bet ELSE 0)
        /\ Awards(j)' = Awards(j) + (IF j = p THEN award ELSE 0)
    BY CountTypes DEF BooksMove
  <1>3. /\ offBook[j] \in Int /\ offBook'[j] \in Int
        /\ seats[j].chips \in Nat /\ seats'[j].chips \in Nat /\ Prize(j) \in Nat /\ Prize(j)' \in Nat
        /\ seats'[j].chips - seats[j].chips
              = (offBook'[j] - offBook[j]) + (Prize(j)' - Prize(j)) + (IF j = p THEN award - bet ELSE 0)
    BY DEF FloorTypeOK
  <1>4. CASE j = p
    BY <1>1, <1>2, <1>3, <1>4
  <1>5. CASE j # p
    <2>1. Bets(j)' = Bets(j) /\ Awards(j)' = Awards(j)
      BY <1>2, <1>5
    <2>2. seats'[j].chips - seats[j].chips = (offBook'[j] - offBook[j]) + (Prize(j)' - Prize(j))
      BY <1>3, <1>5
    <2> QED BY <1>1, <1>2, <1>3, <2>1, <2>2
  <1> QED BY <1>4, <1>5

\* The record of the hands stays true within a hand if a bet is recorded when it is in the pot.
LEMMA PlayedKept ==
    ASSUME HubTypeOK, Opened, FloorTypeOK, TableTypeOK, Played,
           NEW p \in Seats, NEW bet \in Nat, BooksMove(p, bet, 0, hand),
           hand' = hand, potLog' = potLog, hand < HandsPerTable \/ pc' = "done",
           pc' = "topup" => pc = "topup" /\ bet = 0,
           pc' \in {"betting", "showdown", "complete"} =>
              \/ pc = "topup" /\ bet = 0 /\ pot' = SmallBlind + BigBlind
              \/ pc \in {"betting", "showdown", "complete"} /\ pot' = pot + bet
    PROVE  Played'
  <1>1. /\ hand \in Nat /\ pot \in Nat /\ HandsPerTable \in Nat /\ hand <= HandsPerTable
        /\ SmallBlind \in Nat /\ BigBlind \in Nat
    BY Numbers DEF TableTypeOK, FloorTypeOK
  <1>2. \A k \in 0..(HandsPerTable - 1) : /\ Recorded(k) \in Nat
                                          /\ Recorded(k)' = Recorded(k) + (IF k = hand THEN bet ELSE 0)
    BY CountTypes DEF BooksMove
  <1>3. \A k \in 0..(HandsPerTable - 1) : k # hand => Recorded(k)' = Recorded(k)
    BY <1>2
  <1>4. hand < HandsPerTable => /\ hand \in 0..(HandsPerTable - 1)
                                /\ Recorded(hand) \in Nat /\ Recorded(hand)' = Recorded(hand) + bet
    BY <1>1, <1>2
  <1>5. ASSUME NEW k \in 1..hand' PROVE Recorded(k - 1)' + SmallBlind + BigBlind = potLog'[k]
    <2>1. k - 1 \in 0..(HandsPerTable - 1) /\ k - 1 # hand /\ k \in 1..hand
      BY <1>1
    <2>2. Recorded(k - 1)' = Recorded(k - 1)
      BY <1>3, <2>1
    <2> QED BY <2>1, <2>2 DEF Played
  <1>6. PotsAwarded' = hand'
    BY CountTypes DEF BooksMove, Played
  <1>7. ASSUME pc' = "topup" PROVE Recorded(hand)' = 0
    <2>1. Recorded(hand) = 0 /\ bet = 0 /\ hand < HandsPerTable
      BY <1>7 DEF Played
    <2> QED BY <1>4, <2>1
  <1>8. ASSUME pc' \in {"betting", "showdown", "complete"}
        PROVE  Recorded(hand)' + SmallBlind + BigBlind = pot'
    <2>1. hand < HandsPerTable
      BY <1>8
    <2>2. CASE pc = "topup" /\ bet = 0 /\ pot' = SmallBlind + BigBlind
      <3>1. Recorded(hand) = 0
        BY <2>2 DEF Played
      <3> QED BY <1>1, <1>4, <2>1, <2>2, <3>1
    <2>3. CASE pc \in {"betting", "showdown", "complete"} /\ pot' = pot + bet
      <3>1. Recorded(hand) + SmallBlind + BigBlind = pot
        BY <2>3 DEF Played
      <3> QED BY <1>1, <1>4, <2>1, <2>3, <3>1
    <2> QED BY <1>8, <2>2, <2>3
  <1>9. ASSUME NEW k \in (hand' + 1)..(HandsPerTable - 1) PROVE Recorded(k)' = 0
    <2>1. k \in 0..(HandsPerTable - 1) /\ k # hand /\ k \in (hand + 1)..(HandsPerTable - 1)
      BY <1>1
    <2> QED BY <1>3, <2>1 DEF Played
  <1>10. Recorded(hand)' = (Recorded(hand))'
    OBVIOUS
  <1> QED BY <1>5, <1>6, <1>7, <1>8, <1>9 DEF Played
-------------------------------------------------------------------------------
(* The actions. *)

\* What every action of the engine proves.
Kept == FloorTypeOK' /\ Stacks' /\ (Everybody' => Played')

LEMMA PrizeType ==
    ASSUME TableTypeOK
    PROVE  \A j : Prize(j) \in Nat
  BY DEF Prize, TableTypeOK

LEMMA RefillKeeps ==
    ASSUME FloorInv, stage = "playing", stage' = stage, NEW i \in Seats, RefillSeat(i), TableInv',
           UNCHANGED <<hubVars, potLog>>,
           offBook' = [j \in Seats |-> offBook[j] + seats'[j].chips - seats[j].chips]
    PROVE  Kept
  <1>0. /\ TableTypeOK /\ TableTypeOK' /\ HubTypeOK /\ Opened /\ FloorTypeOK /\ Stacks /\ (Everybody => Played)
        /\ seats \in [Seats -> Seat] /\ seats' \in [Seats -> Seat]
    BY DEF FloorInv, TableInv, TableTypeOK
  <1>1. /\ pc = "topup" /\ pc' = "topup" /\ hand' = hand /\ pot' = pot /\ winner' = winner
        /\ \E player : /\ seats' = [seats EXCEPT ![i].player = player, ![i].chips = StartingChips]
                       /\ player = seats[i].player \/ player = NumSeats + eliminations
    BY DEF RefillSeat, FirstShort, Eliminate, Rebuy, TopUp
  <1>2. PICK player : /\ seats' = [seats EXCEPT ![i].player = player, ![i].chips = StartingChips]
                      /\ player = seats[i].player \/ player = NumSeats + eliminations
    BY <1>1
  <1>3. /\ \A j \in Seats : seats[j].chips \in Nat /\ seats'[j].chips \in Nat /\ seats[j] \in Seat
        /\ eliminations \in Nat
    BY <1>0, SeatFields DEF TableTypeOK
  <1>4. /\ \A j \in Seats : j # i => seats'[j] = seats[j]
        /\ seats'[i].player = player
    BY <1>0, <1>2, <1>3 DEF Seat
  <1>5. SameFaces
    <2>1. ASSUME NEW j \in Seats
          PROVE  /\ seats'[j].player = j => seats[j].player = j
                 /\ seats'[j].player = j \/ seats'[j].player >= NumSeats
      <3>1. j < NumSeats /\ NumSeats \in Nat /\ j \in Nat
        BY Numbers
      <3>2. seats[j].player = j \/ seats[j].player >= NumSeats
        BY <1>0 DEF FloorTypeOK
      <3>3. CASE j = i /\ player = NumSeats + eliminations
        BY <1>3, <1>4, <3>1, <3>3
      <3>4. CASE j # i \/ player = seats[i].player
        BY <1>4, <3>2, <3>4
      <3> QED BY <1>2, <3>3, <3>4
    <2> QED BY <2>1 DEF SameFaces
  <1>6. 0 \in Seats /\ BooksMove(0, 0, 0, hand)
    BY <1>0, Numbers, BooksStay DEF Seats
  <1>7. offBook' \in [Seats -> Int]
    <2>1. \A j \in Seats : offBook[j] + seats'[j].chips - seats[j].chips \in Int
      BY <1>0, <1>3 DEF FloorTypeOK
    <2> QED BY <2>1
  <1>8. FloorTypeOK'
    BY <1>0, <1>1, <1>5, <1>7, FloorTypeKept DEF FloorTypeOK
  <1>9. Stacks'
    <2>1. \A j \in Seats : Prize(j) = 0 /\ Prize(j)' = 0
      BY <1>1 DEF Prize
    <2>2. \A j \in Seats : seats'[j].chips - seats[j].chips
                              = (offBook'[j] - offBook[j]) + (Prize(j)' - Prize(j)) + (IF j = 0 THEN 0 - 0 ELSE 0)
      BY <1>0, <1>3, <2>1 DEF FloorTypeOK
    <2> QED BY <1>0, <1>3, <1>5, <1>6, <1>7, <2>1, <2>2, StacksKept
  <1>10. Everybody' => Played'
    <2> SUFFICES ASSUME Everybody' PROVE Played'
      OBVIOUS
    <2>1. Played
      BY <1>0, <1>5 DEF Everybody, SameFaces
    <2>2. hand < HandsPerTable \/ pc' = "done"
      BY <1>0, <1>1 DEF FloorTypeOK
    <2> QED BY <1>0, <1>1, <1>6, <2>1, <2>2, PlayedKept
  <1> QED BY <1>8, <1>9, <1>10 DEF Kept

LEMMA DealKeeps ==
    ASSUME FloorInv, stage = "playing", stage' = stage, StartHand, TableInv',
           UNCHANGED <<hubVars, potLog>>,
           offBook' = [j \in Seats |-> offBook[j] + seats'[j].chips - seats[j].chips]
    PROVE  Kept
  <1>0. /\ TableTypeOK /\ TableTypeOK' /\ HubTypeOK /\ Opened /\ FloorTypeOK /\ Stacks /\ (Everybody => Played)
        /\ seats \in [Seats -> Seat] /\ seats' \in [Seats -> Seat]
    BY DEF FloorInv, TableInv, TableTypeOK
  <1>1. /\ pc = "topup" /\ pc' = "betting" /\ hand' = hand /\ pot' = Blinds /\ Short = {}
        /\ \A j \in Seats : seats'[j].player = seats[j].player
    BY DEF StartHand
  <1>2. pot' = SmallBlind + BigBlind
    <2>1. dealerIdx \in Seats /\ dealerIdx + 1 \in Nat /\ dealerIdx + 2 \in Nat
      BY <1>0, Numbers DEF TableTypeOK
    <2>2. sbIdx \in Seats /\ bbIdx \in Seats /\ sbIdx # bbIdx
      BY <2>1, SeatedRange, BlindsDiffer DEF sbIdx, bbIdx
    <2>3. \A j \in Seats : seats[j].chips \in Nat /\ ~(seats[j].chips < BigBlind)
      BY <1>0, <1>1, SeatFields DEF Short
    <2>4. /\ SmallBlind <= BigBlind /\ SmallBlind \in Nat /\ BigBlind \in Nat
      BY TableAssumption DEF TableAssumption
    <2>5. Posted(sbIdx) = SmallBlind /\ Posted(bbIdx) = BigBlind
      BY <2>2, <2>3, <2>4 DEF Posted, smaller
    <2> QED BY <1>1, <2>5 DEF Blinds
  <1>3. \A j \in Seats : seats[j].chips \in Nat /\ seats'[j].chips \in Nat
    BY <1>0, SeatFields
  <1>5. SameFaces
    BY <1>0, <1>1, FacesStay
  <1>6. 0 \in Seats /\ BooksMove(0, 0, 0, hand)
    BY <1>0, Numbers, BooksStay DEF Seats
  <1>7. offBook' \in [Seats -> Int]
    <2>1. \A j \in Seats : offBook[j] + seats'[j].chips - seats[j].chips \in Int
      BY <1>0, <1>3 DEF FloorTypeOK
    <2> QED BY <2>1
  <1>8. hand < HandsPerTable
    BY <1>0, <1>1 DEF FloorTypeOK
  <1>9. FloorTypeOK'
    BY <1>0, <1>1, <1>5, <1>7, <1>8, FloorTypeKept
  <1>10. Stacks'
    <2>1. \A j \in Seats : Prize(j) = 0 /\ Prize(j)' = 0
      BY <1>1 DEF Prize
    <2>2. \A j \in Seats : seats'[j].chips - seats[j].chips
                              = (offBook'[j] - offBook[j]) + (Prize(j)' - Prize(j)) + (IF j = 0 THEN 0 - 0 ELSE 0)
      BY <1>0, <1>3, <2>1 DEF FloorTypeOK
    <2> QED BY <1>0, <1>3, <1>5, <1>6, <1>7, <2>1, <2>2, StacksKept
  <1>11. Everybody' => Played'
    <2> SUFFICES ASSUME Everybody' PROVE Played'
      OBVIOUS
    <2>1. Played
      BY <1>0, <1>5 DEF Everybody, SameFaces
    <2> QED BY <1>0, <1>1, <1>2, <1>6, <1>8, <2>1, PlayedKept
  <1> QED BY <1>9, <1>10, <1>11 DEF Kept

\* A step that touches neither stacks nor books: the end of a round, a seat passed over, a job of the hub.
LEMMA QuietKeeps ==
    ASSUME FloorInv, stage = "playing", stage' = stage, TableTypeOK',
           UNCHANGED <<potLog, offBook, hand, pot, winner>>, BooksMove(0, 0, 0, hand),
           \A j \in Seats : seats'[j].player = seats[j].player /\ seats'[j].chips = seats[j].chips,
           \/ pc' = pc
           \/ pc = "betting" /\ pc' = "showdown"
    PROVE  Kept
  <1>0. /\ TableTypeOK /\ HubTypeOK /\ Opened /\ FloorTypeOK /\ Stacks /\ (Everybody => Played)
        /\ seats \in [Seats -> Seat] /\ seats' \in [Seats -> Seat]
    BY DEF FloorInv, TableInv, TableTypeOK
  <1>1. \A j \in Seats : seats[j].chips \in Nat /\ seats'[j].chips \in Nat
    BY <1>0, SeatFields
  <1>2. SameFaces
    BY <1>0, FacesStay
  <1>3. 0 \in Seats /\ offBook \in [Seats -> Int]
    BY <1>0, Numbers DEF Seats, FloorTypeOK
  <1>4. hand < HandsPerTable \/ pc' = "done"
    BY <1>0 DEF FloorTypeOK
  <1>5. FloorTypeOK'
    BY <1>0, <1>2, <1>3, <1>4, FloorTypeKept
  <1>6. Stacks'
    <2>1. \A j \in Seats : Prize(j) \in Nat /\ Prize(j)' = Prize(j)
      BY <1>0, PrizeType DEF Prize
    <2>2. \A j \in Seats : seats'[j].chips - seats[j].chips
                              = (offBook'[j] - offBook[j]) + (Prize(j)' - Prize(j)) + (IF j = 0 THEN 0 - 0 ELSE 0)
      BY <1>1, <1>3, <2>1
    <2> QED BY <1>0, <1>1, <1>2, <1>3, <2>1, <2>2, StacksKept
  <1>7. Everybody' => Played'
    <2> SUFFICES ASSUME Everybody' PROVE Played'
      OBVIOUS
    <2>1. Played
      BY <1>0, <1>2 DEF Everybody, SameFaces
    <2>2. pot' = pot + 0
      BY <1>0 DEF TableTypeOK
    <2>3. /\ pc' = "topup" => pc = "topup"
          /\ pc' \in {"betting", "showdown", "complete"} => pc \in {"betting", "showdown", "complete"}
      OBVIOUS
    <2> QED BY <1>0, <1>3, <1>4, <2>1, <2>2, <2>3, PlayedKept
  <1> QED BY <1>5, <1>6, <1>7 DEF Kept
LEMMA ShowdownKeeps ==
    ASSUME FloorInv, stage = "playing", stage' = stage, Showdown, TableInv',
           UNCHANGED <<hubVars, potLog, offBook>>
    PROVE  Kept
  <1>0. /\ TableTypeOK /\ TableTypeOK' /\ HubTypeOK /\ Opened /\ FloorTypeOK /\ Stacks /\ (Everybody => Played)
        /\ seats \in [Seats -> Seat] /\ seats' \in [Seats -> Seat] /\ pot \in Nat
    BY DEF FloorInv, TableInv, TableTypeOK
  <1>1. /\ pc = "showdown" /\ pc' = "complete" /\ hand' = hand /\ pot' = pot /\ winner' \in Seats
        /\ seats' = [seats EXCEPT ![winner'].chips = @ + pot]
    BY <1>0 DEF Showdown, TableTypeOK
  <1>2. \A j \in Seats : /\ seats[j].chips \in Nat /\ seats'[j].chips \in Nat /\ seats[j] \in Seat
                         /\ seats'[j].player = seats[j].player
                         /\ seats'[j].chips = seats[j].chips + (IF j = winner' THEN pot ELSE 0)
    <2>1. \A j \in Seats : seats[j].chips \in Nat /\ seats'[j].chips \in Nat /\ seats[j] \in Seat
      BY <1>0, SeatFields
    <2>2. ASSUME NEW j \in Seats, j # winner' PROVE seats'[j] = seats[j]
      BY <1>0, <1>1, <2>2
    <2>3. /\ seats'[winner'].player = seats[winner'].player
          /\ seats'[winner'].chips = seats[winner'].chips + pot
      BY <1>0, <1>1, <2>1 DEF Seat
    <2> QED BY <1>0, <1>1, <2>1, <2>2, <2>3
  <1>3. SameFaces
    BY <1>0, <1>2, FacesStay
  <1>4. 0 \in Seats /\ offBook \in [Seats -> Int] /\ BooksMove(0, 0, 0, hand)
    BY <1>0, Numbers, BooksStay DEF Seats, FloorTypeOK
  <1>5. hand < HandsPerTable
    BY <1>0, <1>1 DEF FloorTypeOK
  <1>6. FloorTypeOK'
    BY <1>0, <1>1, <1>3, <1>4, <1>5, FloorTypeKept
  <1>7. Stacks'
    <2>1. \A j \in Seats : Prize(j) = 0 /\ Prize(j)' = IF j = winner' THEN pot ELSE 0
      BY <1>1 DEF Prize
    <2>2. \A j \in Seats : Prize(j) \in Nat /\ Prize(j)' \in Nat
      BY <1>0, <2>1
    <2>3. \A j \in Seats : seats'[j].chips - seats[j].chips
                              = (offBook'[j] - offBook[j]) + (Prize(j)' - Prize(j)) + (IF j = 0 THEN 0 - 0 ELSE 0)
      <3> SUFFICES ASSUME NEW j \in Seats
                   PROVE  seats'[j].chips - seats[j].chips
                              = (offBook'[j] - offBook[j]) + (Prize(j)' - Prize(j)) + (IF j = 0 THEN 0 - 0 ELSE 0)
        OBVIOUS
      <3>1. offBook'[j] = offBook[j] /\ offBook[j] \in Int
        BY <1>4
      <3> QED BY <1>0, <1>2, <2>1, <3>1
    <2> QED BY <1>0, <1>2, <1>3, <1>4, <2>2, <2>3, StacksKept
  <1>8. Everybody' => Played'
    <2> SUFFICES ASSUME Everybody' PROVE Played'
      OBVIOUS
    <2>1. Played
      BY <1>0, <1>3 DEF Everybody, SameFaces
    <2>2. pot' = pot + 0
      BY <1>0, <1>1
    <2> QED BY <1>0, <1>1, <1>4, <1>5, <2>1, <2>2, PlayedKept
  <1> QED BY <1>6, <1>7, <1>8 DEF Kept

LEMMA ActKeeps ==
    ASSUME FloorInv, stage = "playing", EngineActs, TableInv'
    PROVE  Kept /\ HubTypeOK' /\ Opened'
  <1>0. /\ TableTypeOK /\ TableTypeOK' /\ HubTypeOK /\ Opened /\ FloorTypeOK /\ Stacks /\ (Everybody => Played)
        /\ seats \in [Seats -> Seat] /\ seats' \in [Seats -> Seat] /\ pot \in Nat /\ BetIsHeld
        /\ stage' = stage /\ offBook' = offBook /\ potLog' = potLog
    BY DEF FloorInv, TableInv, TableTypeOK, EngineActs
  <1>1. PICK d \in Decisions : /\ Act(d)
                               /\ onAction(seats[startIdx].player, d.action, d.amount, hand)
    BY DEF EngineActs, Heard
  <1>2. pc = "betting" /\ pc' = pc /\ hand' = hand /\ winner' = winner /\ startIdx \in Seats /\ hand \in Nat
    BY <1>0, <1>1 DEF Act, Turn, TableTypeOK
  <1>3. PICK moved : moved = Moved(seats[startIdx], d)
    OBVIOUS
  <1>4. /\ moved \in 0..seats[startIdx].chips
        /\ \A i \in Seats : i # startIdx => seats'[i] = seats[i]
        /\ seats'[startIdx].chips = seats[startIdx].chips - moved
        /\ seats'[startIdx].player = seats[startIdx].player
        /\ pot' = pot + moved
    <2>1. \A i \in Seats : seats[i].currentBet <= currentBet
      BY <1>0, <1>2 DEF BetIsHeld
    <2> QED BY <1>0, <1>1, <1>2, <1>3, <2>1, TurnStep
  <1>5. \A j \in Seats : seats[j].chips \in Nat /\ seats'[j].chips \in Nat
    BY <1>0, SeatFields
  <1>6. moved \in Nat /\ moved = (IF d.action \in {"call", "bet", "raise", "all-in"} THEN d.amount ELSE 0)
    BY <1>2, <1>3, <1>4, <1>5, AnswerMoves
  <1>7. hand < HandsPerTable /\ hand \in 0..(HandsPerTable - 1)
    BY <1>0, <1>2, Numbers DEF FloorTypeOK
  <1>8. BooksMove(seats[startIdx].player, moved, 0, hand)
    BY <1>0, <1>1, <1>6, <1>7, ActionBooks
  <1>9. SameFaces
    <2>1. \A i \in Seats : seats'[i].player = seats[i].player
      BY <1>2, <1>4
    <2> QED BY <1>0, <2>1, FacesStay
  <1>10. offBook' \in [Seats -> Int] /\ offBook \in [Seats -> Int]
    BY <1>0 DEF FloorTypeOK
  <1>11. FloorTypeOK'
    BY <1>0, <1>2, <1>7, <1>9, <1>10, FloorTypeKept
  <1>12. PICK p : p = seats[startIdx].player
    OBVIOUS
  <1>13. BooksMove(p, moved, 0, hand)
    BY <1>8, <1>12
  <1>14. p = startIdx \/ p \notin Seats
    <2>1. p = startIdx \/ p >= NumSeats
      BY <1>0, <1>2, <1>12 DEF FloorTypeOK
    <2>2. p \in Seats => p < NumSeats /\ p \in Nat /\ NumSeats \in Nat
      BY Numbers
    <2> QED BY <2>1, <2>2
  <1>15. Stacks'
    <2> SUFFICES ASSUME NEW j \in Seats, seats'[j].player = j
                 PROVE  seats'[j].chips = offBook'[j] + Awards(j)' - Bets(j)' + Prize(j)'
      BY DEF Stacks
    <2>1. seats[j].chips = offBook[j] + Awards(j) - Bets(j) + Prize(j)
      BY <1>0, <1>9 DEF Stacks, SameFaces
    <2>2. Prize(j) = 0 /\ Prize(j)' = 0
      BY <1>2 DEF Prize
    <2>3. /\ Bets(j) \in Nat /\ Awards(j) \in Nat
          /\ Bets(j)' = Bets(j) + (IF j = p THEN moved ELSE 0)
          /\ Awards(j)' = Awards(j) + (IF j = p THEN 0 ELSE 0)
      BY <1>0, <1>13, CountTypes DEF BooksMove
    <2>4. offBook[j] \in Int /\ offBook'[j] = offBook[j] /\ seats[j].chips \in Nat
      BY <1>0, <1>5, <1>10
    <2>5. CASE j = startIdx
      <3>1. p = j
        BY <1>4, <1>12, <2>5
      <3> QED BY <1>4, <1>6, <2>1, <2>2, <2>3, <2>4, <2>5, <3>1
    <2>6. CASE j # startIdx
      <3>1. p # j
        BY <1>14, <2>6
      <3>2. seats'[j].chips = seats[j].chips
        BY <1>4, <2>6
      <3> QED BY <2>1, <2>2, <2>3, <2>4, <3>1, <3>2
    <2> QED BY <2>5, <2>6
  <1>16. Everybody' => Played'
    <2> SUFFICES ASSUME Everybody' PROVE Played'
      OBVIOUS
    <2>1. Played /\ p = startIdx
      BY <1>0, <1>2, <1>9, <1>12 DEF Everybody, SameFaces
    <2> QED BY <1>0, <1>2, <1>4, <1>6, <1>7, <1>13, <2>1, PlayedKept
  <1>17. HubTypeOK' /\ Opened'
    BY <1>13 DEF BooksMove
  <1> QED BY <1>11, <1>15, <1>16, <1>17 DEF Kept

LEMMA CompleteKeeps ==
    ASSUME FloorInv, stage = "playing", EngineCompletes, TableInv'
    PROVE  Kept /\ HubTypeOK' /\ Opened'
  <1>0. /\ TableTypeOK /\ TableTypeOK' /\ HubTypeOK /\ Opened /\ FloorTypeOK /\ Stacks /\ (Everybody => Played)
        /\ seats \in [Seats -> Seat] /\ pot \in Nat /\ hand \in Nat /\ winner \in Seats
        /\ stage' = stage /\ offBook' = offBook /\ potLog' = Append(potLog, pot)
        /\ onHandComplete(seats[winner].player, pot, hand) /\ CompleteHand
    BY DEF FloorInv, TableInv, TableTypeOK, EngineCompletes, AwardedPot
  <1>1. /\ pc = "complete" /\ hand' = hand + 1 /\ seats' = seats
        /\ pc' = IF hand + 1 < HandsPerTable THEN "topup" ELSE "done"
    BY <1>0 DEF CompleteHand
  <1>2. /\ hand < HandsPerTable /\ hand \in 0..(HandsPerTable - 1) /\ HandsPerTable \in Nat
        /\ SmallBlind \in Nat /\ BigBlind \in Nat /\ SmallBlind > 0
    BY <1>0, <1>1, Numbers DEF FloorTypeOK
  <1>3. PICK p : p = seats[winner].player
    OBVIOUS
  <1>4. BooksMove(p, 0, pot, hand)
    BY <1>0, <1>2, <1>3, CompleteBooks
  <1>5. p = winner \/ p \notin Seats
    <2>1. p = winner \/ p >= NumSeats
      BY <1>0, <1>3 DEF FloorTypeOK
    <2>2. p \in Seats => p < NumSeats /\ p \in Nat /\ NumSeats \in Nat
      BY Numbers
    <2> QED BY <2>1, <2>2
  <1>6. /\ potLog \in Seq(Nat) /\ Len(potLog) = hand /\ potLog' \in Seq(Nat) /\ Len(potLog') = hand'
        /\ \A k \in 1..hand : potLog'[k] = potLog[k]
        /\ potLog'[hand + 1] = pot
    BY <1>0, <1>1 DEF FloorTypeOK
  <1>7. FloorTypeOK'
    <2>1. hand' <= HandsPerTable /\ (hand' < HandsPerTable \/ pc' = "done")
      BY <1>0, <1>1, <1>2
    <2>2. \A i \in Seats : seats'[i].player = i \/ seats'[i].player >= NumSeats
      BY <1>0, <1>1 DEF FloorTypeOK
    <2> QED BY <1>0, <1>6, <2>1, <2>2 DEF FloorTypeOK
  <1>8. Stacks'
    <2> SUFFICES ASSUME NEW j \in Seats, seats'[j].player = j
                 PROVE  seats'[j].chips = offBook'[j] + Awards(j)' - Bets(j)' + Prize(j)'
      BY DEF Stacks
    <2>1. seats[j].chips = offBook[j] + Awards(j) - Bets(j) + Prize(j) /\ seats'[j].chips = seats[j].chips
      BY <1>0, <1>1 DEF Stacks
    <2>2. Prize(j) = (IF j = winner THEN pot ELSE 0) /\ Prize(j)' = 0
      BY <1>1 DEF Prize
    <2>3. /\ Bets(j) \in Nat /\ Awards(j) \in Nat
          /\ Bets(j)' = Bets(j) + (IF j = p THEN 0 ELSE 0)
          /\ Awards(j)' = Awards(j) + (IF j = p THEN pot ELSE 0)
      BY <1>0, <1>4, CountTypes DEF BooksMove
    <2>4. offBook[j] \in Int /\ offBook'[j] = offBook[j] /\ seats[j].chips \in Nat
      BY <1>0, SeatFields DEF FloorTypeOK
    <2>5. CASE j = winner
      <3>1. p = j
        BY <1>1, <1>3, <2>5
      <3> QED BY <1>0, <2>1, <2>2, <2>3, <2>4, <2>5, <3>1
    <2>6. CASE j # winner
      <3>1. p # j
        BY <1>5, <2>6
      <3> QED BY <2>1, <2>2, <2>3, <2>4, <2>6, <3>1
    <2> QED BY <2>5, <2>6
  <1>9. Everybody' => Played'
    <2> SUFFICES ASSUME Everybody' PROVE Played'
      OBVIOUS
    <2>1. Played /\ p = winner /\ p \in Seats
      BY <1>0, <1>1, <1>3 DEF Everybody
    <2>2. \A k \in 0..(HandsPerTable - 1) : Recorded(k) \in Nat /\ Recorded(k)' = Recorded(k)
      <3>1. \A k \in 0..(HandsPerTable - 1) :
               Recorded(k) \in Nat /\ Recorded(k)' = Recorded(k) + (IF k = hand /\ p \in Seats THEN 0 ELSE 0)
        BY <1>0, <1>4, CountTypes DEF BooksMove
      <3> QED BY <3>1
    <2>3. Recorded(hand) + SmallBlind + BigBlind = pot
      BY <1>1, <2>1 DEF Played
    <2>4. pot > 0
      BY <1>2, <2>2, <2>3
    <2>5. PotsAwarded' = hand'
      <3>1. PotsAwarded \in Nat /\ PotsAwarded' = PotsAwarded + (IF pot > 0 /\ p \in Seats THEN 1 ELSE 0)
        BY <1>0, <1>4, CountTypes DEF BooksMove
      <3> QED BY <1>1, <2>1, <2>4, <3>1 DEF Played
    <2>6. ASSUME NEW k \in 1..hand' PROVE Recorded(k - 1)' + SmallBlind + BigBlind = potLog'[k]
      <3>1. k - 1 \in 0..(HandsPerTable - 1)
        BY <1>0, <1>1, <1>2
      <3>2. Recorded(k - 1)' = Recorded(k - 1)
        BY <2>2, <3>1
      <3>3. CASE k = hand + 1
        BY <1>0, <1>6, <2>3, <3>2, <3>3
      <3>4. CASE k \in 1..hand
        <4>1. Recorded(k - 1) + SmallBlind + BigBlind = potLog[k]
          BY <2>1, <3>4 DEF Played
        <4> QED BY <1>6, <3>2, <3>4, <4>1
      <3>5. k = hand + 1 \/ k \in 1..hand
        BY <1>0, <1>1
      <3> QED BY <3>3, <3>4, <3>5
    <2>7. ASSUME NEW k \in (hand + 1)..(HandsPerTable - 1) PROVE Recorded(k)' = 0
      <3>1. k \in 0..(HandsPerTable - 1) /\ Recorded(k) = 0
        BY <1>0, <2>1 DEF Played
      <3> QED BY <2>2, <3>1
    <2>8. pc' = "topup" => Recorded(hand)' = 0
      <3> SUFFICES ASSUME pc' = "topup" PROVE Recorded(hand)' = 0
        OBVIOUS
      <3>1. hand + 1 < HandsPerTable
        BY <1>1
      <3>2. PICK k : k = hand + 1
        OBVIOUS
      <3>3. k \in (hand + 1)..(HandsPerTable - 1)
        BY <1>0, <1>2, <3>1, <3>2
      <3>4. Recorded(k)' = 0
        BY <2>7, <3>3
      <3> QED BY <1>1, <3>2, <3>4 DEF Recorded
    <2>9. \A k \in (hand' + 1)..(HandsPerTable - 1) : Recorded(k)' = 0
      <3>1. \A k \in (hand' + 1)..(HandsPerTable - 1) : k \in (hand + 1)..(HandsPerTable - 1)
        BY <1>0, <1>1, <1>2
      <3> QED BY <2>7, <3>1
    <2>10. pc' \notin {"betting", "showdown", "complete"}
      BY <1>1
    <2> QED BY <2>5, <2>6, <2>8, <2>9, <2>10 DEF Played
  <1>10. HubTypeOK' /\ Opened'
    BY <1>4 DEF BooksMove
  <1> QED BY <1>7, <1>8, <1>9, <1>10 DEF Kept
LEMMA OpenKeeps == ASSUME FloorInv, OpenTable PROVE FloorInv'
  <1>0. /\ TableInv /\ HubTypeOK /\ FloorTypeOK /\ TableInit /\ HubInit
        /\ potLog = <<>> /\ offBook = [i \in Seats |-> StartingChips]
        /\ stage = "opening" /\ stage' = "playing" /\ UNCHANGED <<tableVars, potLog, offBook>>
        /\ openChannels({seats[i].player : i \in Seats})
    BY DEF FloorInv, OpenTable, Unopened
  <1>1. UNCHANGED <<seats, pc, phase, pot, currentBet, startIdx, actedCount, playersToAct, entered, winner,
                    hand, dealerIdx, cells, cellVersion, handCellStartIdx, eliminations>>
    BY <1>0 DEF tableVars, gameVars
  <1>2. \A i \in Seats : seats[i].player = i /\ seats[i].chips = StartingChips
    BY <1>0 DEF TableInit, Fresh
  <1>3. {seats[i].player : i \in Seats} = Seats
    BY <1>2
  <1>4. openChannels(Seats) /\ Seats \in SUBSET Players /\ DOMAIN channels = {} /\ ~settled /\ jobs = <<>>
        /\ hand = 0 /\ pc \in {"topup", "done"} /\ handPots = [h \in Hands |-> 0] /\ stats.totalPotsAwarded = 0
    BY <1>0, <1>3, Numbers DEF HubInit, TableInit
  <1>5. /\ DOMAIN channels' = Seats
        /\ channels' \in [Seats -> SeatChannel]
        /\ \A q \in Seats : channels'[q] = [channel |-> OpenedChannel, betSats |-> 0,
                                            awardSats |-> 0, tickProofs |-> <<>>]
        /\ stats' \in HubStats
        /\ UNCHANGED <<handPots, settled, jobs, settleResults>>
    BY <1>0, <1>4, OpenStep
  <1>6. TableInv'
    BY <1>0, <1>1, TableNextInv DEF tableVars, gameVars
  <1>7. HubTypeOK'
    BY <1>0, <1>4, <1>5 DEF HubTypeOK
  <1>8. FloorTypeOK'
    BY <1>0, <1>1 DEF FloorTypeOK
  <1>9. \A w \in Weights : Weigh(jobs', w) = 0
    BY <1>4, <1>5, WeighEmpty
  <1>10. /\ \A p : Weigh(jobs', BetOf(p)) = 0 /\ Weigh(jobs', AwardOf(p)) = 0 /\ Weigh(jobs', TickOf(p)) = 0
         /\ \A h : Weigh(jobs', BetIn(h)) = 0
         /\ Weigh(jobs', IsAward) = 0
    BY <1>9, WeightTypes
  <1>11. ASSUME NEW q \in Seats
         PROVE  /\ Bets(q)' = 0 /\ Awards(q)' = 0 /\ Ticks(q)' = 0
                /\ channels'[q].channel.state = "ACTIVE"
                /\ channels'[q].channel.currentTick = 0 /\ channels'[q].channel.cumulativeSatoshis = 0
    <2>1. /\ channels'[q].channel = OpenedChannel
          /\ channels'[q].betSats = 0 /\ channels'[q].awardSats = 0 /\ channels'[q].tickProofs = <<>>
      BY <1>5
    <2>2. Len(channels'[q].tickProofs) = 0
      BY <2>1
    <2>3. Bets(q)' = 0 /\ Awards(q)' = 0
      BY <1>10, <2>1 DEF Bets, Awards
    <2>4. Ticks(q)' = Len(channels'[q].tickProofs) + Weigh(jobs', TickOf(q))
      BY DEF Ticks
    <2>5. Ticks(q)' = 0
      BY <1>10, <2>2, <2>4
    <2> QED BY <2>1, <2>3, <2>5, OpenedMeter, OpenedState
  <1>12. Opened'
    <2>1. settled = FALSE /\ settled' = settled
      BY <1>0, <1>5 DEF HubInit
    <2>2. settled' = (stage' = "settled")
      BY <1>0, <2>1
    <2>3. ASSUME NEW q \in Seats
          PROVE  /\ channels'[q].channel.state = IF stage' = "settled" THEN "SETTLED" ELSE "ACTIVE"
                 /\ channels'[q].channel.currentTick = Ticks(q)'
                 /\ channels'[q].channel.cumulativeSatoshis = Bets(q)' + Awards(q)'
      BY <1>0, <1>11
    <2> QED BY <1>5, <2>2, <2>3 DEF Opened
  <1>13. Stacks'
    <2>1. \A i \in Seats : Prize(i)' = 0 /\ offBook'[i] = StartingChips /\ seats'[i].chips = StartingChips
      BY <1>0, <1>1, <1>2, <1>4 DEF Prize
    <2>2. ASSUME NEW i \in Seats PROVE seats'[i].chips = offBook'[i] + Awards(i)' - Bets(i)' + Prize(i)'
      BY <1>11, <2>1, Numbers
    <2> QED BY <2>2 DEF Stacks
  <1>14. Played'
    <2>1. \A h \in 0..(HandsPerTable - 1) : Recorded(h)' = 0
      BY <1>4, <1>5, <1>10, Numbers DEF Recorded
    <2>2. PotsAwarded' = 0
      <3>1. stats'.totalPotsAwarded = 0
        <4> DEFINE n == stats.totalChannelsOpened + Cardinality(Seats)
        <4>1. stats' = [stats EXCEPT !.totalChannelsOpened = n] /\ stats \in HubStats
          BY <1>0, <1>4 DEF openChannels, HubTypeOK
        <4> HIDE DEF n
        <4> QED BY <1>4, <4>1 DEF HubStats
      <3> QED BY <1>10, <3>1 DEF PotsAwarded
    <2>3. hand' = 0 /\ pc' \in {"topup", "done"} /\ pc' = pc
      BY <1>1, <1>4
    <2>4. pc' = "topup" => Recorded(hand)' = 0
      <3> SUFFICES ASSUME pc' = "topup" PROVE Recorded(hand)' = 0
        OBVIOUS
      <3>1. 0 \in 0..(HandsPerTable - 1)
        BY <1>0, <1>4, <2>3, Numbers DEF FloorTypeOK
      <3>2. Recorded(0)' = 0
        BY <2>1, <3>1
      <3> QED BY <2>3, <3>2 DEF Recorded
    <2>5. \A k \in 1..hand' : FALSE
      BY <2>3
    <2>6. \A k \in (hand' + 1)..(HandsPerTable - 1) : Recorded(k)' = 0
      BY <2>1, <2>3, Numbers
    <2> QED BY <2>2, <2>3, <2>4, <2>5, <2>6 DEF Played
  <1> QED BY <1>0, <1>6, <1>7, <1>8, <1>12, <1>13, <1>14 DEF FloorInv

LEMMA SettleKeeps == ASSUME FloorInv, SettleTable PROVE FloorInv'
  <1>0. /\ TableInv /\ HubTypeOK /\ FloorTypeOK /\ Opened /\ Stacks /\ (Everybody => Played)
        /\ stage = "playing" /\ stage' = "settled" /\ UNCHANGED <<tableVars, potLog, offBook>>
        /\ jobs = <<>> /\ settleAll /\ finalReport' = <<Summary(channels')>>
    BY DEF FloorInv, SettleTable, EngineReturned
  <1>1. UNCHANGED <<seats, pc, phase, pot, currentBet, startIdx, actedCount, playersToAct, entered, winner,
                    hand, dealerIdx, cells, cellVersion, handCellStartIdx, eliminations>>
    BY <1>0 DEF tableVars, gameVars
  <1>2. TableInv'
    BY <1>0, <1>1, TableNextInv DEF tableVars, gameVars
  <1>3. /\ DOMAIN channels' = DOMAIN channels
        /\ channels' \in [DOMAIN channels -> SeatChannel]
        /\ \A q \in DOMAIN channels :
              /\ channels'[q].channel.currentTick = channels[q].channel.currentTick
              /\ channels'[q].channel.cumulativeSatoshis = channels[q].channel.cumulativeSatoshis
              /\ channels'[q].tickProofs = channels[q].tickProofs
              /\ channels'[q].betSats = channels[q].betSats
              /\ channels'[q].awardSats = channels[q].awardSats
        /\ stats' \in HubStats
        /\ settled' = TRUE
        /\ settleResults' \in [DOMAIN channels -> SettleResult]
        /\ UNCHANGED <<handPots, jobs>>
    BY <1>0, SettleStep
  <1>4. HubTypeOK'
    BY <1>0, <1>3 DEF HubTypeOK
  <1>5. FloorTypeOK'
    BY <1>0, <1>1 DEF FloorTypeOK
  <1>6. DOMAIN channels = Seats
    BY <1>0 DEF Opened
  <1>7. \A q \in Seats : Bets(q)' = Bets(q) /\ Awards(q)' = Awards(q) /\ Ticks(q)' = Ticks(q)
    BY <1>3, <1>6 DEF Bets, Awards, Ticks
  <1>8. \A q \in Seats : channels'[q].channel.state = "SETTLED"
    <2> SUFFICES ASSUME NEW q \in Seats PROVE channels'[q].channel.state = "SETTLED"
      OBVIOUS
    <2> DEFINE sc == channels[q]
               ch == Closed(sc.channel).value
    <2>1. sc \in SeatChannel /\ sc.channel \in MeteringChannel /\ sc.channel.state = "ACTIVE"
      BY <1>0, <1>6 DEF HubTypeOK, Opened, SeatChannel
    <2>2. ch \in MeteringChannel /\ ch.state = "SETTLED"
      BY <2>1, ClosedMeter, ClosedState
    <2>3. channels'[q] = [sc EXCEPT !.channel = ch]
      BY <1>0, <1>6 DEF settleAll
    <2> HIDE DEF sc, ch
    <2> QED BY <2>1, <2>2, <2>3, ChannelField
  <1>9. Opened'
    <2>1. ASSUME NEW q \in Seats
          PROVE  /\ channels'[q].channel.currentTick = Ticks(q)'
                 /\ channels'[q].channel.cumulativeSatoshis = Bets(q)' + Awards(q)'
      <3>1. /\ channels[q].channel.currentTick = Ticks(q)
            /\ channels[q].channel.cumulativeSatoshis = Bets(q) + Awards(q)
        BY <1>0 DEF Opened
      <3>2. /\ channels'[q].channel.currentTick = channels[q].channel.currentTick
            /\ channels'[q].channel.cumulativeSatoshis = channels[q].channel.cumulativeSatoshis
        BY <1>3, <1>6
      <3> QED BY <1>7, <3>1, <3>2
    <2> QED BY <1>0, <1>3, <1>6, <1>8, <2>1 DEF Opened
  <1>10. Stacks'
    <2>1. \A i \in Seats : Prize(i)' = Prize(i)
      BY <1>1 DEF Prize
    <2> QED BY <1>0, <1>1, <1>7, <2>1 DEF Stacks
  <1>11. stats'.totalPotsAwarded = stats.totalPotsAwarded
    <2> DEFINE n == stats.totalChannelsSettled + Cardinality(Closable)
    <2>1. stats' = [stats EXCEPT !.totalChannelsSettled = n] /\ stats \in HubStats
      BY <1>0 DEF settleAll, HubTypeOK
    <2> HIDE DEF n
    <2> QED BY <2>1 DEF HubStats
  <1>12. Everybody' => Played'
    <2> SUFFICES ASSUME Everybody' PROVE Played'
      OBVIOUS
    <2>1. Played
      BY <1>0, <1>1 DEF Everybody
    <2>2. \A h : Recorded(h)' = Recorded(h)
      BY <1>3 DEF Recorded
    <2>3. Recorded(hand)' = Recorded(hand) /\ PotsAwarded' = PotsAwarded
      BY <1>1, <1>3, <1>11 DEF Recorded, PotsAwarded
    <2> QED BY <1>0, <1>1, <2>1, <2>2, <2>3 DEF Played
  <1>13. Reported'
    <2>1. \A p \in Seats : settleResults'[p].netSats = channels'[p].awardSats - channels'[p].betSats
      BY <1>0, <1>3, <1>6 DEF settleAll
    <2>2. jobs' = <<>> /\ finalReport' = <<Summary(channels')>>
      BY <1>0, <1>3
    <2> QED BY <2>1, <2>2 DEF Reported, Summary
  <1> QED BY <1>0, <1>2, <1>4, <1>5, <1>9, <1>10, <1>12, <1>13 DEF FloorInv

LEMMA FloorInitInv == FloorInit => FloorInv
  <1> SUFFICES ASSUME FloorInit PROVE FloorInv
    OBVIOUS
  <1>1. TableInv /\ HubTypeOK
    BY TableInitInv, HubInitTypeOK DEF FloorInit
  <1>2. /\ NumSeats \in Nat /\ HandsPerTable \in Nat /\ StartingChips \in Nat /\ Seats \subseteq Nat
    BY Numbers
  <1>3. FloorTypeOK
    <2>1. potLog \in Seq(Nat) /\ Len(potLog) = 0 /\ hand = 0
      BY DEF FloorInit, TableInit
    <2>2. \A i \in Seats : seats[i].player = i
      BY DEF FloorInit, TableInit, Fresh
    <2>3. offBook \in [Seats -> Int]
      BY <1>2 DEF FloorInit
    <2>4. hand <= HandsPerTable /\ (hand < HandsPerTable \/ pc = "done")
      BY <1>2 DEF FloorInit, TableInit
    <2> QED BY <2>1, <2>2, <2>3, <2>4 DEF FloorInit, FloorTypeOK
  <1>4. Unopened /\ stage = "opening"
    BY DEF FloorInit, Unopened
  <1> QED BY <1>1, <1>3, <1>4 DEF FloorInv

LEMMA FloorNextInv == FloorInv /\ [FloorNext]_allVars => FloorInv'
  <1> SUFFICES ASSUME FloorInv, [FloorNext]_allVars PROVE FloorInv'
    OBVIOUS
  <1>0. /\ TableInv /\ TableTypeOK /\ HubTypeOK /\ FloorTypeOK
        /\ stage # "opening" => Opened
    BY DEF FloorInv, TableInv
  <1>1. ASSUME EngineAwaits PROVE FloorInv'
    <2>1. /\ stage = "playing" /\ stage' = stage /\ UNCHANGED <<hubVars, potLog>> /\ Opened
          /\ offBook' = IF pc = "topup" THEN [i \in Seats |-> offBook[i] + seats'[i].chips - seats[i].chips]
                        ELSE offBook
      BY <1>0, <1>1 DEF EngineAwaits, EngineRuns
    <2>2. TableInv'
      BY <1>0, <1>1, TableNextInv DEF EngineAwaits, TableNext
    <2>3. BooksMove(0, 0, 0, hand)
      BY <1>0, <2>1, BooksStay
    <2>4. CASE \E i \in Seats : RefillSeat(i)
      <3>1. PICK i \in Seats : RefillSeat(i)
        BY <2>4
      <3>2. pc = "topup"
        BY <3>1 DEF RefillSeat, FirstShort
      <3>3. Kept
        BY <2>1, <2>2, <3>1, <3>2, RefillKeeps
      <3> QED BY <2>1, <2>2, <2>3, <3>3 DEF FloorInv, Kept, BooksMove
    <2>5. CASE StartHand
      <3>1. Kept
        BY <2>1, <2>2, <2>5, DealKeeps DEF StartHand
      <3> QED BY <2>1, <2>2, <2>3, <3>1 DEF FloorInv, Kept, BooksMove
    <2>6. CASE EndPhase
      <3>1. /\ pc = "betting" /\ pc' \in {"betting", "showdown"} /\ UNCHANGED <<hand, pot, winner>>
            /\ offBook' = offBook
        BY <2>1, <2>6 DEF EndPhase
      <3>2. \A j \in Seats : seats'[j].player = seats[j].player /\ seats'[j].chips = seats[j].chips
        <4>1. \A j \in Seats : seats[j] \in Seat
          BY <1>0 DEF TableTypeOK
        <4>2. seats' = [i \in Seats |-> [seats[i] EXCEPT !.currentBet = 0]]
          BY <2>6 DEF EndPhase
        <4> QED BY <4>1, <4>2 DEF Seat
      <3>3. Kept
        BY <2>1, <2>2, <2>3, <3>1, <3>2, QuietKeeps DEF TableInv
      <3> QED BY <2>1, <2>2, <2>3, <3>3 DEF FloorInv, Kept, BooksMove
    <2>7. CASE Showdown
      <3>1. pc # "topup"
        BY <2>7 DEF Showdown
      <3>2. Kept
        BY <2>1, <2>2, <2>7, <3>1, ShowdownKeeps
      <3> QED BY <2>1, <2>2, <2>3, <3>2 DEF FloorInv, Kept, BooksMove
    <2> QED BY <1>1, <2>4, <2>5, <2>6, <2>7 DEF EngineAwaits
  <1>2. ASSUME EngineSkips PROVE FloorInv'
    <2>1. /\ stage = "playing" /\ stage' = stage /\ UNCHANGED <<hubVars, potLog, offBook, hand, pot, winner, seats, pc>>
          /\ Opened
      BY <1>0, <1>2 DEF EngineSkips, EngineRuns, Skip
    <2>2. TableInv'
      BY <1>0, <1>2, TableNextInv DEF EngineSkips, TableNext
    <2>3. BooksMove(0, 0, 0, hand)
      BY <1>0, <2>1, BooksStay
    <2>4. Kept
      BY <2>1, <2>2, <2>3, QuietKeeps DEF TableInv
    <2> QED BY <2>1, <2>2, <2>3, <2>4 DEF FloorInv, Kept, BooksMove
  <1>3. ASSUME EngineActs PROVE FloorInv'
    <2>1. stage = "playing" /\ stage' = stage
      BY <1>3 DEF EngineActs, EngineRuns
    <2>2. TableInv'
      BY <1>0, <1>3, TableNextInv DEF EngineActs, TableNext
    <2>3. Kept /\ HubTypeOK' /\ Opened'
      BY <1>3, <2>1, <2>2, ActKeeps
    <2> QED BY <2>1, <2>2, <2>3 DEF FloorInv, Kept
  <1>4. ASSUME EngineCompletes PROVE FloorInv'
    <2>1. stage = "playing" /\ stage' = stage
      BY <1>4 DEF EngineCompletes, EngineRuns
    <2>2. TableInv'
      BY <1>0, <1>4, TableNextInv DEF EngineCompletes, TableNext
    <2>3. Kept /\ HubTypeOK' /\ Opened'
      BY <1>4, <2>1, <2>2, CompleteKeeps
    <2> QED BY <2>1, <2>2, <2>3 DEF FloorInv, Kept
  <1>5. ASSUME HubRuns PROVE FloorInv'
    <2>1. RunJob /\ jobs # <<>> /\ UNCHANGED <<tableVars, floorVars>>
      BY <1>5 DEF HubRuns, RunJob
    <2>2. /\ stage' = stage /\ UNCHANGED <<potLog, offBook, hand, pot, winner, seats, pc>>
      BY <2>1 DEF floorVars, tableVars, gameVars
    <2>3. stage = "playing"
      BY <2>1 DEF FloorInv, FloorTypeOK, Unopened, HubInit, Reported
    <2>4. TableInv'
      BY <1>0, <2>1, TableNextInv
    <2>5. BooksMove(0, 0, 0, hand)
      BY <1>0, <2>1, <2>2, <2>3, JobBooks
    <2>6. Kept
      BY <2>2, <2>3, <2>4, <2>5, QuietKeeps DEF TableInv
    <2> QED BY <2>2, <2>3, <2>4, <2>5, <2>6 DEF FloorInv, Kept, BooksMove
  <1>6. ASSUME UNCHANGED allVars PROVE FloorInv'
    <2>1. UNCHANGED <<tableVars, hubVars, floorVars>>
      BY <1>6 DEF allVars
    <2>2. UNCHANGED <<seats, pc, phase, pot, currentBet, startIdx, actedCount, playersToAct, entered, winner,
                      hand, dealerIdx, cells, cellVersion, handCellStartIdx, eliminations>>
      BY <2>1 DEF tableVars, gameVars
    <2>3. UNCHANGED <<channels, handPots, settled, stats, jobs, settleResults>>
      BY <2>1 DEF hubVars
    <2>4. UNCHANGED <<stage, finalReport, potLog, offBook, delay, yielded, reports>>
      BY <2>1 DEF floorVars
    <2>5. TableInv'
      BY <1>0, <2>1, TableNextInv
    <2>6. HubTypeOK' /\ FloorTypeOK'
      BY <1>0, <2>2, <2>3, <2>4 DEF HubTypeOK, FloorTypeOK
    <2>7. stage' = "opening" => Unopened'
      BY <2>2, <2>3, <2>4 DEF FloorInv, Unopened, TableInit, HubInit
    <2>8. stage' # "opening" => Opened' /\ Stacks' /\ (Everybody' => Played')
      BY <2>2, <2>3, <2>4 DEF FloorInv, Opened, Stacks, Everybody, Played, Prize, Bets, Awards, Ticks, Recorded,
                              PotsAwarded
    <2>9. stage' = "settled" => Reported'
      BY <2>2, <2>3, <2>4 DEF FloorInv, Reported, Summary
    <2> QED BY <2>5, <2>6, <2>7, <2>8, <2>9 DEF FloorInv
  <1> QED BY <1>1, <1>2, <1>3, <1>4, <1>5, <1>6, OpenKeeps, SettleKeeps DEF FloorNext

LEMMA FloorInvariant == FloorSpec => []FloorInv
  <1> QED BY FloorInitInv, FloorNextInv, PTL DEF FloorSpec
-------------------------------------------------------------------------------
(* The theorems. *)

LEMMA NothingQueued ==
    ASSUME HubTypeOK, Opened, jobs = <<>>
    PROVE  /\ \A p \in Seats : /\ Bets(p) = channels[p].betSats /\ Awards(p) = channels[p].awardSats
                               /\ Ticks(p) = Len(channels[p].tickProofs)
           /\ \A h \in 0..(HandsPerTable - 1) : Recorded(h) = handPots[h] /\ handPots[h] \in Nat
           /\ PotsAwarded = stats.totalPotsAwarded
  <1>1. \A w \in Weights : Weigh(jobs, w) = 0
    BY WeighEmpty
  <1>2. /\ \A p : Weigh(jobs, BetOf(p)) = 0 /\ Weigh(jobs, AwardOf(p)) = 0 /\ Weigh(jobs, TickOf(p)) = 0
        /\ \A h : Weigh(jobs, BetIn(h)) = 0
        /\ Weigh(jobs, IsAward) = 0
    BY <1>1, WeightTypes
  <1>3. ASSUME NEW p \in Seats
        PROVE  /\ Bets(p) = channels[p].betSats /\ Awards(p) = channels[p].awardSats
               /\ Ticks(p) = Len(channels[p].tickProofs)
    <2>1. /\ channels[p].betSats \in Nat /\ channels[p].awardSats \in Nat
          /\ Len(channels[p].tickProofs) \in Nat
      BY BookTypes DEF Opened
    <2>2. Ticks(p) = Len(channels[p].tickProofs) + Weigh(jobs, TickOf(p))
      BY DEF Ticks
    <2>3. Ticks(p) = Len(channels[p].tickProofs)
      BY <1>2, <2>1, <2>2
    <2> QED BY <1>2, <2>1, <2>3 DEF Bets, Awards
  <1>4. ASSUME NEW h \in 0..(HandsPerTable - 1) PROVE Recorded(h) = handPots[h] /\ handPots[h] \in Nat
    BY <1>2, BookTypes, Numbers DEF Recorded
  <1>5. PotsAwarded = stats.totalPotsAwarded
    BY <1>2, BookTypes DEF PotsAwarded
  <1> QED BY <1>3, <1>4, <1>5

\* As long as no player was replaced, the hub's record of each finished hand is the pot less the blinds
\* whenever no call is in flight, and it counts every pot: no bet is recorded twice, lost, or in another hand's record.
THEOREM HubAlwaysMirrorsHands == FloorSpec => []HubMirrorsHands
  <1>1. ASSUME FloorInv PROVE HubMirrorsHands
    <2> SUFFICES ASSUME AllHaveChannels, jobs = <<>>
                 PROVE  /\ \A k \in 1..Len(potLog) : handPots[k - 1] + SmallBlind + BigBlind = potLog[k]
                        /\ stats.totalPotsAwarded = Len(potLog)
      BY DEF HubMirrorsHands
    <2>1. stage # "opening"
      <3>1. 0 \in Seats
        BY Numbers DEF Seats
      <3> QED BY <1>1, <3>1 DEF FloorInv, Unopened, HubInit, AllHaveChannels
    <2>2. /\ TableTypeOK /\ HubTypeOK /\ FloorTypeOK /\ Opened /\ (Everybody => Played)
      BY <1>1, <2>1 DEF FloorInv, TableInv
    <2>3. Everybody
      <3> SUFFICES ASSUME NEW i \in Seats PROVE seats[i].player = i
        BY DEF Everybody
      <3>1. seats[i].player \in Seats
        BY <2>2 DEF AllHaveChannels, Opened
      <3>2. seats[i].player < NumSeats /\ seats[i].player \in Nat /\ NumSeats \in Nat
        BY <3>1, Numbers
      <3> QED BY <2>2, <3>2 DEF FloorTypeOK
    <2>4. hand \in Nat /\ Len(potLog) = hand /\ hand <= HandsPerTable /\ HandsPerTable \in Nat
      BY <2>2, Numbers DEF TableTypeOK, FloorTypeOK
    <2>5. ASSUME NEW k \in 1..Len(potLog) PROVE handPots[k - 1] + SmallBlind + BigBlind = potLog[k]
      <3>1. k - 1 \in 0..(HandsPerTable - 1)
        BY <2>4
      <3>2. Recorded(k - 1) = handPots[k - 1]
        BY <2>2, <3>1, NothingQueued
      <3>3. Recorded(k - 1) + SmallBlind + BigBlind = potLog[k]
        BY <2>2, <2>3, <2>4 DEF Played
      <3> QED BY <3>2, <3>3
    <2>6. stats.totalPotsAwarded = Len(potLog)
      BY <2>2, <2>3, <2>4, NothingQueued DEF Played
    <2> QED BY <2>5, <2>6
  <1> QED BY <1>1, FloorInvariant, PTL

\* Whenever no call is in flight, a player with a channel holds what was brought in for the seat, less its
\* blinds, plus what the channel's books say was won and lost, however many bets overlapped at the hub.
THEOREM BooksAlwaysExplainStacks == FloorSpec => []BooksExplainStacks
  <1>1. ASSUME FloorInv PROVE BooksExplainStacks
    <2> SUFFICES ASSUME stage # "opening", jobs = <<>>, pc # "complete",
                        NEW i \in Seats, seats[i].player \in DOMAIN channels
                 PROVE  seats[i].chips = offBook[i] + channels[seats[i].player].awardSats
                                                    - channels[seats[i].player].betSats
      BY DEF BooksExplainStacks
    <2>1. TableTypeOK /\ HubTypeOK /\ FloorTypeOK /\ Opened /\ Stacks
      BY <1>1 DEF FloorInv, TableInv
    <2>2. seats[i].player = i
      <3>1. seats[i].player < NumSeats /\ seats[i].player \in Nat /\ NumSeats \in Nat
        BY <2>1, Numbers DEF Opened
      <3> QED BY <2>1, <3>1 DEF FloorTypeOK
    <2>3. seats[i].chips = offBook[i] + Awards(i) - Bets(i) + Prize(i)
      BY <2>1, <2>2 DEF Stacks
    <2>4. Bets(i) = channels[i].betSats /\ Awards(i) = channels[i].awardSats /\ Bets(i) \in Nat /\ Awards(i) \in Nat
      BY <2>1, NothingQueued, CountTypes
    <2>5. Prize(i) = 0 /\ offBook[i] \in Int
      BY <2>1 DEF Prize, FloorTypeOK
    <2> QED BY <2>2, <2>3, <2>4, <2>5
  <1> QED BY <1>1, FloorInvariant, PTL

\* What is reported after settlement is final: settleAll runs only when the last bet's continuation has, every
\* channel is settled with a receipt for each tick, and no call is left in flight.
THEOREM FinalReportAlwaysComplete == FloorSpec => []FinalReportComplete
  <1>1. ASSUME FloorInv PROVE FinalReportComplete
    <2> SUFFICES ASSUME stage = "settled"
                 PROVE  /\ jobs = <<>>
                        /\ \A p \in DOMAIN channels :
                              /\ finalReport[1][p].state = "SETTLED"
                              /\ finalReport[1][p].tickCount = channels[p].channel.currentTick
                              /\ finalReport[1][p].cumulativeSats = finalReport[1][p].betSats + finalReport[1][p].awardSats
                              /\ settleResults[p].netSats = channels[p].awardSats - channels[p].betSats
      BY DEF FinalReportComplete
    <2>1. HubTypeOK /\ Opened /\ Reported
      BY <1>1 DEF FloorInv
    <2>2. jobs = <<>> /\ finalReport[1] = Summary(channels) /\ DOMAIN channels = Seats
      BY <2>1 DEF Reported, Opened
    <2>3. ASSUME NEW p \in Seats
          PROVE  /\ finalReport[1][p].state = "SETTLED"
                 /\ finalReport[1][p].tickCount = channels[p].channel.currentTick
                 /\ finalReport[1][p].cumulativeSats = finalReport[1][p].betSats + finalReport[1][p].awardSats
                 /\ settleResults[p].netSats = channels[p].awardSats - channels[p].betSats
      <3>1. /\ finalReport[1][p].state = channels[p].channel.state
            /\ finalReport[1][p].tickCount = Len(channels[p].tickProofs)
            /\ finalReport[1][p].cumulativeSats = channels[p].channel.cumulativeSatoshis
            /\ finalReport[1][p].betSats = channels[p].betSats
            /\ finalReport[1][p].awardSats = channels[p].awardSats
        BY <2>2 DEF Summary
      <3>2. /\ channels[p].channel.state = "SETTLED" /\ channels[p].channel.currentTick = Ticks(p)
            /\ channels[p].channel.cumulativeSatoshis = Bets(p) + Awards(p)
        BY <2>1 DEF Opened
      <3>3. /\ Bets(p) = channels[p].betSats /\ Awards(p) = channels[p].awardSats
            /\ Ticks(p) = Len(channels[p].tickProofs)
        BY <2>1, <2>2, NothingQueued
      <3> QED BY <2>1, <3>1, <3>2, <3>3 DEF Reported
    <2> QED BY <2>2, <2>3
  <1> QED BY <1>1, FloorInvariant, PTL
===============================================================================
