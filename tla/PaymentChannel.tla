---------------------------- MODULE PaymentChannel ----------------------------
(***************************************************************************)
(* PaymentChannelManager of src/src/agent/payment-channel.ts: two-party    *)
(* channels whose balances move with every bet, each bet written as the    *)
(* next cell of the channel's chain once the kernel has passed it, a cell  *)
(* per violation, and one watchlist chain per offender that all channels   *)
(* share.                                                                  *)
(*                                                                         *)
(* A call is cut at the awaits of the engine's broadcasts.  The caller of  *)
(* a channel awaits each of its calls, so a channel has one at a time;     *)
(* calls of different channels interleave.  The awaits before the first    *)
(* broadcast only hash and store in memory, and nothing they read moves.   *)
(***************************************************************************)
EXTENDS Cells, ChannelFSM, Sequences, FiniteSets

CONSTANTS
    Matches,        \* one channel each
    AgentOf,        \* AgentOf[m][side]: who plays side "A" and "B" of match m
    FundingSats, SettleFee,     \* locked in the channel; 150 in the code
    Kernels,        \* what loadKernel may have loaded: "none" (not called), "stub", "full"
    Tampers,        \* the tamper modes scheduled or passed by callers
    Bounds          \* bounds: tampered bets of each match, failed broadcasts

Sides == {"A", "B"}
Other(side) == IF side = "A" THEN "B" ELSE "A"
Agents == UNION {{AgentOf[m][s] : s \in Sides} : m \in Matches}

ASSUME ChannelAssumption ==
    /\ IsFiniteSet(Matches) /\ AgentOf \in [Matches -> [Sides -> Agents]]
    /\ FundingSats \in Nat /\ SettleFee \in Nat
    /\ Bounds \subseteq [tampers : [Matches -> Nat], faults : Nat]
    /\ Kernels \subseteq {"none", "stub", "full"} /\ Tampers \subseteq TamperModes

VARIABLES
    kernel,         \* this.validator
    chans,          \* this.channels: <<>> before openChannel, then <<instance>>
    calls,          \* the call in progress on each channel
    watchlists,     \* this.watchlists: <<>> or <<instance>>, by offender
    violations,     \* history: what was held against whom, oldest first
    written,        \* history: the watchlist cells broadcast, by offender and oldest first
    bounds,         \* one of Bounds, fixed for a behaviour
    tampers, faults \* how many so far, for the bounds

channelVars == <<kernel, bounds, chans, calls, watchlists, violations, written, tampers, faults>>

Idle == [pc |-> "idle"]
Returned(outcome) == [pc |-> "returned", outcome |-> outcome]

ChannelInit ==
    /\ kernel \in Kernels /\ bounds \in Bounds
    /\ chans = [m \in Matches |-> <<>>]
    /\ calls = [m \in Matches |-> Idle]
    /\ watchlists = [a \in Agents |-> <<>>]
    /\ violations = <<>> /\ written = [a \in Agents |-> <<>>]
    /\ tampers = [m \in Matches |-> 0] /\ faults = 0

Chan(m) == chans[m][1]
\* The engine's answer to a broadcast: it may fail as often as the bound allows.
Answer(ok) == (ok \/ faults < bounds.faults) /\ faults' = faults + (IF ok THEN 0 ELSE 1)
-------------------------------------------------------------------------------
(* openChannel: the funding transaction, then the cell of version 1. *)

\* buildChannelCell: the chain's cells are linear and belong to the channel.
ChannelCell(m, version, prev, body) ==
    WithVersion(NewCell("LINEAR", "channel-state", m, prev, body), version)

Body(ch, balA, balB) ==
    [tick |-> ch.currentTick, balanceA |-> balA, balanceB |-> balB]

openChannel(m, ok) ==
    /\ chans[m] = <<>> /\ calls[m] = Idle
    /\ Answer(ok)
    /\ IF ok
       THEN /\ chans' = [chans EXCEPT ![m] = <<[
                  channel |-> activate(fund(createChannel).value).value,
                  balanceA |-> FundingSats \div 2, balanceB |-> FundingSats \div 2,
                  cellVersion |-> 0, live |-> <<>>, paid |-> <<>>]>>]
            /\ calls' = [calls EXCEPT ![m] = [pc |-> "create"]]
       ELSE UNCHANGED chans /\ calls' = [calls EXCEPT ![m] = Returned("threw")]
    /\ UNCHANGED <<kernel, bounds, watchlists, violations, written, tampers>>

\* createChannelStateCellToken after its broadcast; the channel is open either way.
CellCreated(m, ok) ==
    /\ calls[m].pc = "create"
    /\ Answer(ok)
    /\ LET c == ChannelCell(m, 1, Zero, Body(Chan(m).channel, Chan(m).balanceA, Chan(m).balanceB))
       IN  chans' = IF ok THEN [chans EXCEPT ![m][1].live = <<c>>, ![m][1].cellVersion = 1] ELSE chans
    /\ calls' = [calls EXCEPT ![m] = Returned("ok")]
    /\ UNCHANGED <<kernel, bounds, watchlists, violations, written, tampers>>
-------------------------------------------------------------------------------
(* recordBet: stage, build, validate, and commit or hold against the bettor. *)

AtLeastZero(n) == IF n < 0 THEN 0 ELSE n

\* The balances after a bet: it moves to the other side at once, and a balance stops at zero.
Moved(c, side, sats) ==
    LET delta == IF side = "A" THEN sats ELSE -sats
    IN  [A |-> AtLeastZero(c.balanceA - delta), B |-> AtLeastZero(c.balanceB + delta)]

\* Mutant: the cell built for a bet does not bind the one before.
UnboundCell(m, c, ticked, to) ==
    ChannelCell(m, c.cellVersion + 1, Zero, Body(ticked, to.A, to.B))

\* The candidate cell: the successor of the live one, bound to its bytes.
NextCell(m, c, ticked, to) ==
    ChannelCell(m, c.cellVersion + 1, IF c.live = <<>> THEN Zero ELSE sha256(c.live[1]),
                Body(ticked, to.A, to.B))

\* Mutant: the live cell moves on when the bet is booked, not when its broadcast is answered.
CommittedEarly(c, ticked, to, cell) ==
    [c EXCEPT !.channel = ticked, !.balanceA = to.A, !.balanceB = to.B,
              !.live = IF @ = <<>> THEN @ ELSE <<cell>>, !.cellVersion = @ + 1]

\* What stage 4B applies before the broadcast (the tick proof, only appended, is left out).
Committed(c, ticked, to, cell) ==
    [c EXCEPT !.channel = ticked, !.balanceA = to.A, !.balanceB = to.B]

Verdict(c, cell) ==
    IF kernel = "none" \/ c.live = <<>> THEN "unchecked" ELSE validate(kernel, c.live[1], cell)

recordBet(m, side, sats, mode) ==
    /\ chans[m] # <<>> /\ calls[m] = Idle
    /\ (mode = "honest" \/ tampers[m] < bounds.tampers[m])
    /\ tampers' = IF mode = "honest" THEN tampers ELSE [tampers EXCEPT ![m] = @ + 1]
    /\ LET c == Chan(m)
           ticked == tick(c.channel, sats)
           to == Moved(c, side, sats)
           cell == applyTamper(NextCell(m, c, ticked.value, to), mode)
           verdict == Verdict(c, cell)
       IN  \/ /\ ~ticked.ok \/ verdict = "throws"
              /\ calls' = [calls EXCEPT ![m] = Returned("threw")]
              /\ UNCHANGED <<chans, violations>>
           \/ /\ ticked.ok /\ verdict = "invalid"
              /\ calls' = [calls EXCEPT ![m] = [pc |-> "violation", offender |-> AgentOf[m][side]]]
              /\ violations' = Append(violations, [match |-> m, offender |-> AgentOf[m][side], mode |-> mode])
              /\ UNCHANGED chans
           \/ /\ ticked.ok /\ verdict \in {"unchecked", "valid"}
              /\ chans' = [chans EXCEPT ![m] = <<Committed(c, ticked.value, to, cell)>>]
              /\ calls' = [calls EXCEPT ![m] = IF c.live = <<>> THEN Returned("ok")
                                               ELSE [pc |-> "transition", cell |-> cell, version |-> c.cellVersion + 1,
                                                     mode |-> mode]]
              /\ UNCHANGED violations
    /\ UNCHANGED <<kernel, bounds, watchlists, written, faults>>

\* A pot is paid as a bet of the loser.
awardPot(m, winner, sats) == recordBet(m, Other(winner), sats, "honest")

\* Stage 5 after the broadcast: a failure is logged, and the books stay ahead of the chain.
TransitionAnswered(m, ok) ==
    /\ calls[m].pc = "transition"
    /\ Answer(ok)
    /\ chans' = IF ok THEN [chans EXCEPT ![m][1].live = <<calls[m].cell>>, ![m][1].cellVersion = calls[m].version]
                ELSE chans
    /\ calls' = [calls EXCEPT ![m] = Returned("ok")]
    /\ UNCHANGED <<kernel, bounds, watchlists, violations, written, tampers>>
-------------------------------------------------------------------------------
(* The violation path: a cell of its own, or a marker, then the offender's watchlist. *)

WatchlistCell(a, version, prev, hits) ==
    WithVersion(NewCell("LINEAR", "watchlist", a, prev, hits), version)

\* Mutant: every hit is taken for the first.
ForgetfulWatch(m, a) ==
    [first |-> TRUE, opener |-> m, hits |-> 1, cell |-> WatchlistCell(a, 1, Zero, 1),
     seen |-> Len(written[a]), spends |-> 0]

\* recordWatchlistHit up to its broadcast: it reads the watchlist and prepares the next cell, which
\* spends the live one ("seen", for the history: how many cells had been broadcast by then).
NextWatch(m, a) ==
    IF watchlists[a] = <<>>
    THEN [first |-> TRUE, opener |-> m, hits |-> 1, cell |-> WatchlistCell(a, 1, Zero, 1),
          seen |-> Len(written[a]), spends |-> 0]
    ELSE LET w == watchlists[a][1]
         IN  [first |-> FALSE, opener |-> w.opener, hits |-> w.hits + 1,
              cell |-> WatchlistCell(a, w.version + 1, sha256(w.live), w.hits + 1),
              seen |-> Len(written[a]), spends |-> w.txid]

\* The violation cell is on its way to the chain; the watchlist is read after its broadcast.
ViolationAnchored(m, ok) ==
    /\ calls[m].pc = "violation"
    /\ Answer(ok)
    /\ LET a == calls[m].offender
           next == NextWatch(m, a)
           passes == \/ next.first
                     \/ validate(kernel, watchlists[a][1].live, next.cell) = "valid"
       IN  calls' = [calls EXCEPT ![m] =
                        IF ~ok THEN [pc |-> "fallback"]
                        ELSE IF passes THEN [pc |-> "watch", offender |-> a, next |-> next]
                        ELSE Returned("threw")]
    /\ UNCHANGED <<kernel, bounds, chans, watchlists, violations, written, tampers>>

\* The OP_RETURN marker that stands in for a violation cell that could not be broadcast.
FallbackAnchored(m, ok) ==
    /\ calls[m].pc = "fallback"
    /\ Answer(ok)
    /\ calls' = [calls EXCEPT ![m] = Returned("threw")]
    /\ UNCHANGED <<kernel, bounds, chans, watchlists, violations, written, tampers>>

\* recordWatchlistHit after its broadcast: a first hit stores a new watchlist over whatever is
\* there by now, a repeat moves the one it read, which may have been replaced.
WatchlistWritten(m, ok) ==
    /\ calls[m].pc = "watch"
    /\ Answer(ok)
    /\ LET w == calls[m].next
           a == calls[m].offender
           moved == [opener |-> w.opener, hits |-> w.hits, version |-> w.cell.version, live |-> w.cell,
                     txid |-> Len(written[a]) + 1]
       IN  /\ written' = IF ok THEN [written EXCEPT ![a] = Append(@, [seen |-> w.seen, spends |-> w.spends])]
                         ELSE written
           /\ watchlists' = IF ok /\ (w.first \/ watchlists[a][1].opener = w.opener)
                            THEN [watchlists EXCEPT ![a] = <<moved>>]
                            ELSE watchlists
    /\ calls' = [calls EXCEPT ![m] = Returned("threw")]
    /\ UNCHANGED <<kernel, bounds, chans, violations, tampers>>
-------------------------------------------------------------------------------
(* settleChannel. *)

\* The outputs: the fee comes off the balances, and side A's share is rounded down.
Payout(balA, balB) ==
    LET totalIn == balA + balB
        totalOut == totalIn - SettleFee
        outA == IF totalIn > 0 THEN (totalOut * balA) \div totalIn ELSE totalOut \div 2
    IN  [A |-> AtLeastZero(outA), B |-> AtLeastZero(totalOut - outA)]

settleChannel(m) ==
    /\ chans[m] # <<>> /\ calls[m] = Idle
    /\ calls' = [calls EXCEPT ![m] =
                    IF confirmClose(requestClose(Chan(m).channel).value).ok
                    THEN [pc |-> "settling", out |-> Payout(Chan(m).balanceA, Chan(m).balanceB)]
                    ELSE Returned("threw")]
    /\ UNCHANGED <<kernel, bounds, chans, watchlists, violations, written, tampers, faults>>

\* A failed broadcast is logged; the channel is settled all the same.
SettlementAnswered(m, ok) ==
    /\ calls[m].pc = "settling"
    /\ Answer(ok)
    /\ LET closed == confirmClose(requestClose(Chan(m).channel).value).value
       IN  chans' = [chans EXCEPT ![m][1].channel = settle(closed).value, ![m][1].paid = <<calls[m].out>>]
    /\ calls' = [calls EXCEPT ![m] = Returned("ok")]
    /\ UNCHANGED <<kernel, bounds, watchlists, violations, written, tampers>>

\* The answers of the broadcasts of a channel's calls.
ManagerAnswers(m) ==
    \E ok \in BOOLEAN :
        \/ CellCreated(m, ok)       \/ TransitionAnswered(m, ok)
        \/ ViolationAnchored(m, ok) \/ FallbackAnchored(m, ok) \/ WatchlistWritten(m, ok)
        \/ SettlementAnswered(m, ok)
===============================================================================
