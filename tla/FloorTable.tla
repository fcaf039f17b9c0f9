------------------------------- MODULE FloorTable -------------------------------
(***************************************************************************)
(* runTable of src/src/entrypoint-floor.ts: a payment hub is opened for    *)
(* the players seated, the table engine runs with the hub's handlers as    *)
(* its callbacks, and the hub is settled and reported when it returns.     *)
(*                                                                         *)
(* Both run in one thread.  The engine holds it between two of its awaits; *)
(* the hub's queued jobs run when the engine awaits, and all of them do    *)
(* before it goes on: they were queued first and need one microtask each.  *)
(***************************************************************************)
EXTENDS PokerTable, TablePaymentHub

CONSTANTS
    Delays,         \* the settings of ACTION_DELAY_MS and HAND_DELAY_MS looked at: after what the
                    \* engine awaits, "action" and "hand"
    ReportEvery     \* hands between two channel reports (50 in the code)

ASSUME FloorAssumption ==
    /\ Delays \subseteq SUBSET {"action", "hand"}
    /\ ReportEvery \in Nat \ {0}
    /\ Seats \subseteq Players
    /\ 0..(HandsPerTable - 1) \subseteq Hands

VARIABLES
    stage,      \* how far runTable is
    yielded,    \* the engine is at an await
    reports,    \* channel summaries pushed to telemetry during the game
    finalReport,\* the summary posted after settlement
    potLog,     \* history: the pot of every completed hand
    delay,      \* one of Delays, fixed for a behaviour
    offBook     \* history: chips that came to or left a seat by buying in and posting blinds

floorVars == <<stage, yielded, reports, finalReport, potLog, delay, offBook>>

FloorInit ==
    /\ TableInit /\ HubInit
    /\ stage = "opening" /\ yielded = FALSE
    /\ reports = <<>> /\ finalReport = <<>> /\ potLog = <<>>
    /\ offBook = [i \in Seats |-> StartingChips]
    /\ delay \in Delays

\* getChannelSummary, for the channels in the state they have now.
Summary(chans) ==
    [p \in DOMAIN chans |->
        [state |-> chans[p].channel.state, tickCount |-> Len(chans[p].tickProofs),
         cumulativeSats |-> chans[p].channel.cumulativeSatoshis,
         betSats |-> chans[p].betSats, awardSats |-> chans[p].awardSats]]

OpenTable ==
    /\ stage = "opening"
    /\ openChannels({seats[i].player : i \in Seats})
    /\ stage' = "playing"
    /\ UNCHANGED <<tableVars, yielded, reports, finalReport, potLog, offBook, delay>>

\* The engine may take a step: it is between awaits, or what it waited for is done.
EngineRuns == stage = "playing" /\ (~yielded \/ jobs = <<>>)

\* A step that ends in an await of the engine and calls no handler of the hub.
EngineAwaits ==
    /\ EngineRuns
    /\ \/ \E i \in Seats : RefillSeat(i)
       \/ StartHand \/ EndPhase \/ Showdown
    /\ yielded' = TRUE
    /\ offBook' = IF pc = "topup"
                  THEN [i \in Seats |-> offBook[i] + seats'[i].chips - seats[i].chips]
                  ELSE offBook
    /\ UNCHANGED <<hubVars, stage, reports, finalReport, potLog, delay>>

EngineSkips ==
    /\ EngineRuns /\ Skip
    /\ yielded' = FALSE
    /\ UNCHANGED <<hubVars, stage, reports, finalReport, potLog, offBook, delay>>

\* Mutant: a call is heard with the bet to call, not with what the player added to reach it.
HeardAsTotal(d) == [d EXCEPT !.amount = IF d.action = "call" THEN currentBet ELSE @]

\* What onAction is told about a turn.
Heard(d) == d

EngineActs ==
    /\ EngineRuns
    /\ \E d \in Decisions :
          /\ Act(d)
          /\ onAction(seats[startIdx].player, Heard(d).action, Heard(d).amount, hand)
    /\ yielded' = ("action" \in delay)
    /\ UNCHANGED <<stage, reports, finalReport, potLog, offBook, delay>>

\* Mutant: the hub is asked to award what it recorded for the hand, not the pot.
AwardRecorded == handPots[hand]

AwardedPot == pot

\* onHandComplete queues the award, then every ReportEvery hands takes a summary of the channels.
EngineCompletes ==
    /\ EngineRuns
    /\ CompleteHand
    /\ onHandComplete(seats[winner].player, AwardedPot, hand)
    /\ potLog' = Append(potLog, pot)
    /\ reports' = IF (hand + 1) % ReportEvery = 0
                  THEN Append(reports, [hand |-> hand, winner |-> seats[winner].player,
                                        summary |-> Summary(channels')])
                  ELSE reports
    /\ yielded' = ("hand" \in delay \/ pc' = "done")
    /\ UNCHANGED <<stage, finalReport, offBook, delay>>

HubRuns == yielded /\ RunJob /\ UNCHANGED <<tableVars, floorVars>>

\* Mutant: settlement does not wait for the engine's last continuation.
SettleAtOnce == pc = "done"

EngineReturned == pc = "done" /\ jobs = <<>>

SettleTable ==
    /\ stage = "playing" /\ EngineReturned
    /\ settleAll
    /\ finalReport' = <<Summary(channels')>>
    /\ stage' = "settled"
    /\ UNCHANGED <<tableVars, yielded, reports, potLog, offBook, delay>>

FloorNext == OpenTable \/ EngineAwaits \/ EngineSkips \/ EngineActs \/ EngineCompletes \/ HubRuns \/ SettleTable

allVars == <<tableVars, hubVars, floorVars>>

FloorSpec == FloorInit /\ [][FloorNext]_allVars /\ WF_allVars(FloorNext)
-------------------------------------------------------------------------------
(* Properties *)

AllHaveChannels == \A i \in Seats : seats[i].player \in DOMAIN channels

\* As long as no player was replaced and no call is in flight, the hub's record of every finished
\* hand is the hand's pot less its two blinds, which no handler is told about.
HubMirrorsHands ==
    AllHaveChannels /\ jobs = <<>> =>
        /\ \A k \in 1..Len(potLog) : handPots[k - 1] + SmallBlind + BigBlind = potLog[k]
        /\ stats.totalPotsAwarded = Len(potLog)

\* Every stack is explained: at any moment with no call in flight, a player with a channel holds what
\* was bought in for the seat, less its blinds, plus what the channel's books say was won and lost.
BooksExplainStacks ==
    stage # "opening" /\ jobs = <<>> /\ pc # "complete" =>
        \A i \in Seats :
            LET p == seats[i].player
            IN  p \in DOMAIN channels =>
                   seats[i].chips = offBook[i] + channels[p].awardSats - channels[p].betSats

\* The report posted after settlement is final: every channel settled with a receipt for each of its
\* ticks, and nothing is left to change the books.
FinalReportComplete ==
    stage = "settled" =>
        /\ jobs = <<>>
        /\ \A p \in DOMAIN channels :
              LET line == finalReport[1][p]
              IN  /\ line.state = "SETTLED"
                  /\ line.tickCount = channels[p].channel.currentTick
                  /\ line.cumulativeSats = line.betSats + line.awardSats
                  /\ settleResults[p].netSats = channels[p].awardSats - channels[p].betSats

\* Every table is settled in the end, unless a betting round stalls.
TableSettles == <>(stage = "settled" \/ Stalled)
===============================================================================
