---------------------------- MODULE TablePaymentHub ----------------------------
(***************************************************************************)
(* The hub-and-spoke payment channels of src/src/engine/table-payment-hub  *)
(* .ts: one metering channel between the table and each seated player.     *)
(*                                                                         *)
(* recordBet and awardPot run in two parts.  The part before               *)
(* `await computeTickProof(...)` ticks the channel and fixes the proof's   *)
(* arguments; the part after it stores the proof and updates the books.    *)
(* The parts after the awaits are the jobs of the microtask queue, run in  *)
(* the order in which they were queued.  Handlers fire and forget, so a    *)
(* caller can tick again, or settle, while jobs are still queued.          *)
(***************************************************************************)
EXTENDS ChannelFSM, Sequences, FiniteSets

CONSTANTS
    Players,    \* player ids a caller may name, seated or not
    Hands,      \* hand numbers
    Amounts,    \* satoshi amounts a caller may pass
    MaxCalls    \* bound: bets and awards accepted in one behaviour

ASSUME HubAssumption ==
    /\ IsFiniteSet(Players)
    /\ Amounts \subseteq Int
    /\ MaxCalls \in Nat

VARIABLES
    channels,       \* Map playerId -> SeatChannel: its domain is the set of opened channels
    handPots,       \* Map handNumber -> pot recorded so far (0 when absent)
    settled,        \* settleAll has finished
    stats,          \* HubStats
    jobs,           \* continuations queued behind `await computeTickProof`
    settleResults   \* what the last settleAll returned

hubVars == <<channels, handPots, settled, stats, jobs, settleResults>>

\* An HMAC binds channel, tick and running total: a proof is that triple, the channel being
\* the player it is stored under.
Proof == [tick : Nat, cumulativeSatoshis : Nat]
computeTickProof(ch) == [tick |-> ch.currentTick, cumulativeSatoshis |-> ch.cumulativeSatoshis]

MeteringChannel == [state : ChannelState, currentTick : Nat, cumulativeSatoshis : Nat]
SeatChannel == [channel : MeteringChannel, betSats : Nat, awardSats : Nat, tickProofs : Seq(Proof)]
Job == [kind : {"bet", "award"}, playerId : Players, satoshis : Nat, handNumber : Hands, proof : Proof]
HubStats == [totalChannelsOpened : Nat, totalChannelsSettled : Nat, totalTicks : Nat,
             totalSatsTransferred : Nat, totalPotsAwarded : Nat, totalSatsAwarded : Nat]
SettleResult == [settled : BOOLEAN, tickCount : Nat, netSats : Int]

HubInit ==
    /\ channels = [p \in {} |-> createChannel]
    /\ handPots = [h \in Hands |-> 0]
    /\ settled = FALSE
    /\ stats = [totalChannelsOpened |-> 0, totalChannelsSettled |-> 0, totalTicks |-> 0,
                totalSatsTransferred |-> 0, totalPotsAwarded |-> 0, totalSatsAwarded |-> 0]
    /\ jobs = <<>>
    /\ settleResults = [p \in {} |-> 0]
-------------------------------------------------------------------------------
(* openChannels: create, fund and activate one channel per seat.  The floor   *)
(* calls it once, before the table starts.                                    *)

OpenedChannel == activate(fund(createChannel).value).value

openChannels(seats) ==
    /\ seats # {}
    /\ channels' = [p \in DOMAIN channels \cup seats |->
                       IF p \in seats
                       THEN [channel |-> OpenedChannel, betSats |-> 0, awardSats |-> 0, tickProofs |-> <<>>]
                       ELSE channels[p]]
    /\ stats' = [stats EXCEPT !.totalChannelsOpened = @ + Cardinality(seats)]
    /\ UNCHANGED <<handPots, settled, jobs, settleResults>>
-------------------------------------------------------------------------------
(* recordBet and awardPot up to their await. *)

\* The call throws when the hub is settled, the player has no channel or the channel cannot tick.
Accepts(p, sats) == ~settled /\ p \in DOMAIN channels /\ tick(channels[p].channel, sats).ok

TickChannel(kind, p, sats, h) ==
    LET ticked == tick(channels[p].channel, sats).value
    IN  /\ channels' = [channels EXCEPT ![p].channel = ticked]
        /\ jobs' = Append(jobs, [kind |-> kind, playerId |-> p, satoshis |-> sats, handNumber |-> h,
                                 proof |-> computeTickProof(ticked)])
        /\ UNCHANGED <<handPots, settled, stats, settleResults>>

\* Zero and negative bets return null before the channel is looked up.
recordBet(p, sats, h) == sats > 0 /\ Accepts(p, sats) /\ TickChannel("bet", p, sats, h)

awardPot(p, sats, h) == Accepts(p, sats) /\ TickChannel("award", p, sats, h)

(* The handlers plugged into the table: they filter, call, and swallow errors. *)

onAction(p, action, amount, h) ==
    IF action \in {"call", "bet", "raise", "all-in"} /\ amount > 0 /\ Accepts(p, amount)
    THEN recordBet(p, amount, h)
    ELSE UNCHANGED hubVars

onHandComplete(winner, pot, h) ==
    IF pot > 0 /\ Accepts(winner, pot) THEN awardPot(winner, pot, h) ELSE UNCHANGED hubVars
-------------------------------------------------------------------------------
(* The rest of recordBet and awardPot: the job at the head of the queue. *)

\* Mutant: the proof is read from the channel after the await, not fixed before it.
StoredProofAfterAwait(job) == computeTickProof(channels[job.playerId].channel)

StoredProof(job) == job.proof

\* Mutant: every award is booked with the amount of the pot twice.
BookedTwice(sc, job) ==
    [sc EXCEPT !.tickProofs = Append(@, StoredProof(job)),
               !.betSats    = @ + (IF job.kind = "bet" THEN job.satoshis ELSE 0),
               !.awardSats  = @ + (IF job.kind = "award" THEN 2 * job.satoshis ELSE 0)]

Booked(sc, job) ==
    [sc EXCEPT !.tickProofs = Append(@, StoredProof(job)),
               !.betSats    = @ + (IF job.kind = "bet" THEN job.satoshis ELSE 0),
               !.awardSats  = @ + (IF job.kind = "award" THEN job.satoshis ELSE 0)]

BetStats(sats)   == [stats EXCEPT !.totalTicks = @ + 1, !.totalSatsTransferred = @ + sats]
AwardStats(sats) == [stats EXCEPT !.totalTicks = @ + 1, !.totalPotsAwarded = @ + 1,
                                  !.totalSatsAwarded = @ + sats]

\* Mutant: the queue is served last in, first out.
LastJob(queue) == queue[Len(queue)]

NextJob(queue) == Head(queue)

\* Mutant: the queue is dropped with its first continuation.
ForgetJobs(queue) == <<>>

RemainingJobs(queue) == Tail(queue)

RunJob ==
    /\ jobs # <<>>
    /\ LET job == NextJob(jobs)
       IN  /\ channels' = [channels EXCEPT ![job.playerId] = Booked(@, job)]
           /\ IF job.kind = "bet"
              THEN /\ handPots' = [handPots EXCEPT ![job.handNumber] = @ + job.satoshis]
                   /\ stats' = BetStats(job.satoshis)
              ELSE /\ stats' = AwardStats(job.satoshis)
                   /\ UNCHANGED handPots
    /\ jobs' = RemainingJobs(jobs)
    /\ UNCHANGED <<settled, settleResults>>
-------------------------------------------------------------------------------
(* settleAll: no await inside, so one step closes every channel it can. *)

\* requestClose, confirmClose, settle; the first failure leaves the channel as it was.
Closed(ch) ==
    LET requested == requestClose(ch)
        confirmed == confirmClose(requested.value)
        final     == settle(confirmed.value)
    IN  IF requested.ok /\ confirmed.ok /\ final.ok THEN final ELSE Fail(ch)

Closable == {p \in DOMAIN channels : Closed(channels[p].channel).ok}

settleAll ==
    /\ channels' = [p \in DOMAIN channels |-> [channels[p] EXCEPT !.channel = Closed(@).value]]
    /\ stats' = [stats EXCEPT !.totalChannelsSettled = @ + Cardinality(Closable)]
    /\ settleResults' = [p \in DOMAIN channels |->
                            [settled   |-> p \in Closable,
                             tickCount |-> Len(channels[p].tickProofs),
                             netSats   |-> channels[p].awardSats - channels[p].betSats]]
    /\ settled' = TRUE
    /\ UNCHANGED <<handPots, jobs>>
-------------------------------------------------------------------------------
(* The hub on its own: any caller, calling in any order without awaiting. *)

BelowBound == stats.totalTicks + Len(jobs) < MaxCalls

OpenOnce == DOMAIN channels = {} /\ \E seats \in SUBSET Players : openChannels(seats)

Call ==
    /\ BelowBound
    /\ \E p \in Players, sats \in Amounts, h \in Hands :
          recordBet(p, sats, h) \/ awardPot(p, sats, h)

HubNext == OpenOnce \/ Call \/ RunJob \/ settleAll

\* The microtask queue is always drained before the process returns to its event loop.
HubFairness == WF_hubVars(RunJob)

HubSpec == HubInit /\ [][HubNext]_hubVars /\ HubFairness
-------------------------------------------------------------------------------
(* Properties *)

HubTypeOK ==
    /\ DOMAIN channels \subseteq Players
    /\ channels \in [DOMAIN channels -> SeatChannel]
    /\ handPots \in [Hands -> Nat]
    /\ settled \in BOOLEAN
    /\ stats \in HubStats
    /\ jobs \in Seq(Job)
    /\ \A i \in 1..Len(jobs) : jobs[i].playerId \in DOMAIN channels
    /\ DOMAIN settleResults \subseteq Players
    /\ settleResults \in [DOMAIN settleResults -> SettleResult]

LastTotal(sc) == IF sc.tickProofs = <<>> THEN 0 ELSE sc.tickProofs[Len(sc.tickProofs)].cumulativeSatoshis

\* The stored receipts of a channel are ticks 1, 2, 3, ... with no gap, repetition or swap,
\* and its running totals never fall, however many calls overlap at the await (recordBet 206-221).
ReceiptsInOrder ==
    \A p \in DOMAIN channels :
        LET proofs == channels[p].tickProofs
        IN  /\ \A i \in 1..Len(proofs) : proofs[i].tick = i
            /\ \A i \in 1..(Len(proofs) - 1) :
                  proofs[i].cumulativeSatoshis <= proofs[i + 1].cumulativeSatoshis

\* At every moment, calls in flight included, the bets and awards booked on a channel are exactly
\* the running total of its last receipt: no receipt without its money, no money without its receipt.
ReceiptsCoverBooks ==
    \A p \in DOMAIN channels :
        channels[p].betSats + channels[p].awardSats = LastTotal(channels[p])

Quiet(p) == \A i \in 1..Len(jobs) : jobs[i].playerId # p

\* A channel with no call in flight has a receipt for every tick of its meter, and its meter
\* is its bets plus its awards.
BooksBalance ==
    \A p \in DOMAIN channels :
        LET sc == channels[p]
        IN  Quiet(p) => /\ Len(sc.tickProofs) = sc.channel.currentTick
                        /\ sc.betSats + sc.awardSats = sc.channel.cumulativeSatoshis

\* The receipts that wait in a queue for a player, in the queue's order.
Waiting(queue, p) ==
    LET upTo[i \in 0..Len(queue)] ==
            IF i = 0 THEN <<>>
            ELSE IF queue[i].playerId = p THEN Append(upTo[i - 1], queue[i].proof)
            ELSE upTo[i - 1]
    IN  upTo[Len(queue)]

\* The hub implements an append-only ledger per channel: a call appends its entry when it ticks
\* the meter, storing the receipt later is invisible, and settlement closes every ledger for good.
Ledger == INSTANCE ChannelLedger WITH
    open   <- {p \in DOMAIN channels : channels[p].channel.state = "ACTIVE"},
    closed <- {p \in DOMAIN channels : channels[p].channel.state = "SETTLED"},
    ledger <- [p \in Players |-> IF p \in DOMAIN channels
                                 THEN channels[p].tickProofs \o Waiting(jobs, p)
                                 ELSE <<>>]

ImplementsLedger == Ledger!Spec

\* Every tick of a meter is eventually backed by a stored receipt.
EveryTickIsReceipted ==
    \A p \in Players, n \in 1..MaxCalls :
        (p \in DOMAIN channels /\ channels[p].channel.currentTick >= n)
            ~> (p \in DOMAIN channels /\ Len(channels[p].tickProofs) >= n)
===============================================================================
