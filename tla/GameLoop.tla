-------------------------------- MODULE GameLoop --------------------------------
(***************************************************************************)
(* GameLoop of src/src/agent/game-loop.ts: a heads-up match between two    *)
(* agents, its hands written to a chain of cells (DirectPokerStateMachine) *)
(* and, with real satoshis, its bets to a payment channel                  *)
(* (PaymentChannel).  The loop awaits every call, so it is one sequential  *)
(* process; pc names the await or decision it is at.  Other matches use    *)
(* the same channel manager at the same time and are unconstrained here.   *)
(*                                                                         *)
(* Cards are left out: the showdown may go either way.  An agent answers   *)
(* with any of the actions it was offered and any amount, which is what    *)
(* agent-runtime.ts lets through; its fallback is one of those answers.    *)
(***************************************************************************)
EXTENDS PaymentChannel, DirectPokerStateMachine

CONSTANTS
    match,          \* this loop's match
    SmallBlind, BigBlind,   \* the config; a chip is a satoshi
    Settings,       \* what else of it is looked at: starting chips and hands, with the bound on the
                    \* ticks of each other match
    Safety,         \* iterations of one betting round, 20 in the code
    Amounts         \* what an agent may put in "amount"; 0 for none

ASSUME LoopAssumption ==
    /\ match \in Matches /\ Amounts \subseteq Nat /\ 0 \in Amounts
    /\ SmallBlind \in Nat \ {0} /\ BigBlind \in Nat \ {0}
    /\ Settings \subseteq [chips : Nat, hands : Nat, guestBets : Nat] /\ Safety \in Nat

VARIABLES
    pc,             \* where the loop is
    table,          \* hand, phase, pot, currentBet, minRaise, dealer, active, and the loop's safety
    players,        \* chips, currentBet, folded, allIn, hasActed of side A and B
    hands,          \* GameStateDB's table of hands
    setting,        \* one of Settings, fixed for a behaviour
    books           \* the wager to tick, and history: blinds ticked beyond what was placed, lost ticks

loopVars == <<pc, table, players, hands, books, setting>>
vars == <<channelVars, smVars, loopVars>>

StartingChips == setting.chips
MaxHands == setting.hands
GuestBets == setting.guestBets

phases == <<"preflop", "flop", "turn", "river">>
NextPhase(p) == phases[1 + CHOOSE i \in 1 .. 3 : phases[i] = p]

NewPlayer(chips) ==
    [chips |-> chips, currentBet |-> 0, folded |-> FALSE, allIn |-> FALSE, hasActed |-> FALSE]

Init ==
    /\ ChannelInit /\ SMInit
    /\ pc = "open" /\ setting \in Settings
    /\ table = [hand |-> 0, phase |-> "complete", pot |-> 0, currentBet |-> 0, minRaise |-> BigBlind,
                dealer |-> "A", active |-> "A", safety |-> 0]
    /\ players = [s \in Sides |-> NewPlayer(StartingChips)]
    /\ hands = <<>>
    /\ books = [wager |-> 0, short |-> 0, lost |-> 0]

\* The loop takes back the answer of its call.
Returns(at) ==
    /\ pc = at /\ calls[match].pc = "returned"
    /\ calls' = [calls EXCEPT ![match] = Idle]
    /\ UNCHANGED <<kernel, bounds, chans, watchlists, violations, written, tampers, faults, smVars>>
Threw == calls[match].outcome = "threw"

\* A bet may be tampered with: the schedule of the manager is set from outside.
Bet(side, sats) == \E mode \in {"honest"} \union Tampers : recordBet(match, side, sats, mode)
-------------------------------------------------------------------------------
(* The caller opens the channel and runs the match. *)

OpenChannel(ok) ==
    /\ pc = "open" /\ openChannel(match, ok) /\ pc' = "opening"
    /\ UNCHANGED <<smVars, table, players, hands, books>>

ChannelOpened ==
    /\ Returns("opening") /\ pc' = IF Threw THEN "aborted" ELSE "loop"
    /\ UNCHANGED <<table, players, hands, books>>
-------------------------------------------------------------------------------
(* The start of a hand: blinds, their ticks, the first cell. *)

\* placeBet: what a player can put of an amount, and the player after it.
Least(a, b) == IF a < b THEN a ELSE b
Most(a, b) == IF a > b THEN a ELSE b
Wager(p, amount) == Least(amount, p.chips)
placeBet(p, amount) ==
    LET actual == Wager(p, amount)
    IN  [p EXCEPT !.chips = @ - actual, !.currentBet = @ + actual, !.allIn = @ \/ p.chips = actual]

MorePlay == table.hand < MaxHands /\ \A s \in Sides : players[s].chips > 0

StartHand ==
    LET dealer == IF table.hand > 0 THEN Other(table.dealer) ELSE table.dealer
        fresh == [s \in Sides |-> NewPlayer(players[s].chips)]
        small == Wager(fresh[dealer], SmallBlind)
        big == Wager(fresh[Other(dealer)], BigBlind)
    IN  /\ pc = "loop" /\ MorePlay
        /\ table' = [hand |-> table.hand + 1, phase |-> "preflop", pot |-> small + big, currentBet |-> BigBlind,
                     minRaise |-> BigBlind, dealer |-> dealer, active |-> dealer, safety |-> Safety]
        /\ players' = [s \in Sides |-> placeBet(fresh[s], IF s = dealer THEN SmallBlind ELSE BigBlind)]
        /\ hands' = Append(hands, [winner |-> "none", pot |-> 0])
        /\ books' = [books EXCEPT !.short = @ + (SmallBlind - small) + (BigBlind - big)]
        /\ pc' = "small"
        /\ UNCHANGED <<channelVars, smVars>>

\* The blinds are ticked as configured, not as placed; one try covers both.
SmallBlindTick ==
    /\ pc = "small" /\ Bet(table.dealer, SmallBlind) /\ pc' = "smallTicked"
    /\ UNCHANGED <<smVars, table, players, hands, books>>

\* Mutant: the big blind is ticked even if the small blind's tick threw.
BlindsApart ==
    /\ Returns("smallTicked")
    /\ pc' = "big"
    /\ books' = [books EXCEPT !.lost = @ + IF Threw THEN SmallBlind + BigBlind ELSE 0]
    /\ UNCHANGED <<table, players, hands>>

SmallBlindTicked ==
    /\ Returns("smallTicked")
    /\ pc' = IF Threw THEN "birth" ELSE "big"
    /\ books' = [books EXCEPT !.lost = @ + IF Threw THEN SmallBlind + BigBlind ELSE 0]
    /\ UNCHANGED <<table, players, hands>>

BigBlindTick ==
    /\ pc = "big" /\ Bet(Other(table.dealer), BigBlind) /\ pc' = "bigTicked"
    /\ UNCHANGED <<smVars, table, players, hands, books>>

BigBlindTicked ==
    /\ Returns("bigTicked")
    /\ pc' = "birth"
    /\ books' = [books EXCEPT !.lost = @ + IF Threw THEN BigBlind ELSE 0]
    /\ UNCHANGED <<table, players, hands>>

\* buildStatePayload: of the payload, the phase and who is said to have won.
Payload(phase, winner) == [phase |-> phase, winner |-> winner]

\* An exception of the state machine leaves playHand and run: nothing is settled.
CreateHandToken(ok) ==
    /\ pc = "birth" /\ Answer(ok)
    /\ createHandToken(Payload("preflop", "none"), ok)
    /\ pc' = IF smThrew' THEN "aborted" ELSE "bet"
    /\ UNCHANGED <<kernel, bounds, chans, calls, watchlists, violations, written, tampers, table, players, hands, books>>
-------------------------------------------------------------------------------
(* A betting round. *)

ToCall(p) == table.currentBet - p.currentBet

\* getLegalActions.
getLegalActions(p) ==
    {"fold", "all-in"} \union
    (IF ToCall(p) = 0 THEN {"check", "bet"}
     ELSE {"call"} \union (IF p.chips + p.currentBet > table.currentBet THEN {"raise"} ELSE {}))

\* AgentRuntime: a model's answer is taken if its action was offered, with "bet" and "raise"
\* read as each other when only one of them was; its amount is not looked at.
parseDecision(p) ==
    {d \in [action : getLegalActions(p), amount : Amounts] : d.action \notin {"bet", "raise"} => d.amount = 0}

\* What a failed request or an unreadable answer is replaced by.
fallbackDecision(p) ==
    [action |-> IF ToCall(p) = 0 THEN "check" ELSE "call", amount |-> 0]

decide(p) == parseDecision(p) \union {fallbackDecision(p)}

\* The compiled policies, with the defaults of a missing amount.
validateActionPolicy(p, d) ==
    CASE d.action = "check"  -> ToCall(p) = 0
      [] d.action = "call"   -> ToCall(p) > 0
      [] d.action = "bet"    -> ToCall(p) = 0 /\ (d.amount = 0 \/ d.amount >= BigBlind)
      [] d.action = "raise"  -> ToCall(p) > 0 /\ (d.amount = 0 \/ d.amount - table.currentBet >= table.minRaise)
      [] d.action = "all-in" -> p.chips > 0
      [] OTHER               -> TRUE

\* What an action makes of the player, the bet to match and the least raise; an action that
\* opens the betting gives the other player, unless folded or all in, another turn.
Effect(p, d) ==
    LET bet == table.currentBet
        least == table.minRaise
        Same(q) == [player |-> q, bet |-> bet, minRaise |-> least, opens |-> FALSE]
        Opened(q, min) == [player |-> q, bet |-> q.currentBet, minRaise |-> min, opens |-> TRUE]
    IN  CASE d.action = "fold"  -> Same([p EXCEPT !.folded = TRUE])
          [] d.action = "check" -> Same(p)
          [] d.action = "call"  -> Same(placeBet(p, ToCall(p)))
          [] d.action = "bet"   ->
               LET amount == IF d.amount = 0 THEN BigBlind ELSE d.amount
               IN  Opened(placeBet(p, amount), amount)
          [] d.action = "raise" ->
               LET total == IF d.amount = 0 THEN bet + least ELSE d.amount
                   q == placeBet(p, total - p.currentBet)
               IN  Opened(q, Most(least, total - q.currentBet))
          [] OTHER              ->
               LET q == placeBet(p, p.chips)
               IN  IF q.currentBet > bet THEN Opened(q, Most(least, q.currentBet - bet)) ELSE Same(q)

\* executeAction.
executeAction(s, d) ==
    LET e == Effect(players[s], d)
        o == players[Other(s)]
    IN  /\ players' = [players EXCEPT ![s] = [e.player EXCEPT !.hasActed = TRUE],
                                      ![Other(s)].hasActed = @ /\ ~(e.opens /\ ~o.folded /\ ~o.allIn)]
        /\ table' = [table EXCEPT !.currentBet = e.bet, !.minRaise = e.minRaise, !.safety = @ - 1,
                                  !.pot = @ + players[s].chips - e.player.chips]
        /\ books' = [books EXCEPT !.wager = players[s].chips - e.player.chips]

\* An action the policy rejects becomes a fold.
Act ==
    LET s == table.active
        p == players[s]
    IN  /\ pc = "bet" /\ table.safety > 0 /\ ~p.folded /\ ~p.allIn
        /\ \E d \in decide(p) :
              executeAction(s, IF validateActionPolicy(p, d) THEN d ELSE [d EXCEPT !.action = "fold"])
        /\ pc' = IF books'.wager > 0 THEN "tick" ELSE "acted"
        /\ UNCHANGED <<channelVars, smVars, hands>>

\* Mutant: an idle player's turn does not count against the round.
UncountedSkip ==
    /\ pc = "bet" /\ table.safety > 0
    /\ players[table.active].folded \/ players[table.active].allIn
    /\ table' = [table EXCEPT !.active = Other(@)]
    /\ UNCHANGED <<channelVars, smVars, pc, players, hands, books>>

\* A folded or all-in player is passed over.
SkipIdle ==
    /\ pc = "bet" /\ table.safety > 0
    /\ players[table.active].folded \/ players[table.active].allIn
    /\ table' = [table EXCEPT !.active = Other(@), !.safety = @ - 1]
    /\ UNCHANGED <<channelVars, smVars, pc, players, hands, books>>

\* The chips that left the player are ticked, whatever the action was called.
WagerTick ==
    /\ pc = "tick" /\ Bet(table.active, books.wager) /\ pc' = "ticked"
    /\ UNCHANGED <<smVars, table, players, hands, books>>

WagerTicked ==
    /\ Returns("ticked")
    /\ pc' = "acted"
    /\ books' = [books EXCEPT !.wager = 0, !.lost = @ + IF Threw THEN books.wager ELSE 0]
    /\ UNCHANGED <<table, players, hands>>

\* The pot is paid in chips and in the database; the channel is told nothing.
Award(winner) ==
    /\ players' = [players EXCEPT ![winner].chips = @ + table.pot]
    /\ hands' = [hands EXCEPT ![table.hand] = [winner |-> winner, pot |-> table.pot]]

AfterRound == IF table.phase = "river" THEN "showdown" ELSE "phase"

OpponentFolded ==
    /\ pc = "acted"
    /\ \E s \in Sides : players[s].folded /\ Award(Other(s))
    /\ pc' = "complete"
    /\ UNCHANGED <<channelVars, smVars, table, books>>

AnotherTurn ==
    /\ pc = "acted" /\ \A s \in Sides : ~players[s].folded
    /\ IF \A s \in Sides : players[s].allIn \/ players[s].hasActed
       THEN pc' = AfterRound /\ UNCHANGED table
       ELSE pc' = "bet" /\ table' = [table EXCEPT !.active = Other(@)]
    /\ UNCHANGED <<channelVars, smVars, players, hands, books>>

\* The round is cut off after Safety turns.
RoundCutOff ==
    /\ pc = "bet" /\ table.safety = 0
    /\ pc' = AfterRound
    /\ UNCHANGED <<channelVars, smVars, table, players, hands, books>>

\* The next street: its cards, a new round, and the cell of the phase.
DealPhase(ok) ==
    LET phase == NextPhase(table.phase)
    IN  /\ pc = "phase" /\ Answer(ok)
        /\ table' = [table EXCEPT !.phase = phase, !.currentBet = 0, !.minRaise = BigBlind,
                                  !.active = Other(table.dealer), !.safety = Safety]
        /\ players' = [s \in Sides |-> [players[s] EXCEPT !.currentBet = 0, !.hasActed = FALSE]]
        /\ transition(Payload(phase, "none"), ok, FALSE)
        /\ pc' = IF smThrew' THEN "aborted" ELSE "bet"
        /\ UNCHANGED <<kernel, bounds, chans, calls, watchlists, violations, written, tampers, hands, books>>
-------------------------------------------------------------------------------
(* The end of a hand and of the match. *)

Showdown ==
    /\ pc = "showdown"
    /\ \E winner \in Sides : Award(winner)
    /\ pc' = "complete"
    /\ UNCHANGED <<channelVars, smVars, table, books>>

\* The last cell names the first player that did not fold.
EndHand(ok) ==
    /\ pc = "complete" /\ Answer(ok)
    /\ transition(Payload("complete", IF players["A"].folded THEN "B" ELSE "A"), ok, TRUE)
    /\ pc' = IF smThrew' THEN "aborted" ELSE "loop"
    /\ UNCHANGED <<kernel, bounds, chans, calls, watchlists, violations, written, tampers, table, players, hands, books>>

SettleChannel ==
    /\ pc = "loop" /\ ~MorePlay
    /\ settleChannel(match) /\ pc' = "settling"
    /\ UNCHANGED <<smVars, table, players, hands, books>>

\* A settlement that throws is logged.
GameOver ==
    /\ Returns("settling") /\ pc' = "over"
    /\ UNCHANGED <<table, players, hands, books>>

Turn ==
    \/ ChannelOpened \/ StartHand
    \/ SmallBlindTick \/ SmallBlindTicked \/ BigBlindTick \/ BigBlindTicked
    \/ Act \/ SkipIdle \/ WagerTick \/ WagerTicked
    \/ OpponentFolded \/ AnotherTurn \/ RoundCutOff \/ Showdown
    \/ SettleChannel \/ GameOver
    \/ \E ok \in BOOLEAN : OpenChannel(ok) \/ CreateHandToken(ok) \/ DealPhase(ok) \/ EndHand(ok)

LoopStep == Turn /\ UNCHANGED setting

\* The answers of the broadcasts for this match.
Answers == ManagerAnswers(match) /\ UNCHANGED <<smVars, loopVars>>

\* Another match's calls, of which the manager asks only that its caller awaits them.  They are
\* taken while this loop awaits a broadcast of its channel: the loop's other steps commute with them.
Guest ==
    /\ GuestBets > 0 /\ calls[match].pc \notin {"idle", "returned"}
    /\ \E m \in Matches \ {match} :
         \/ \E ok \in BOOLEAN : openChannel(m, ok)
         \/ /\ chans[m] # <<>> /\ Chan(m).channel.currentTick < GuestBets
            /\ \E side \in Sides :
                 \/ \E mode \in {"honest"} \union Tampers : recordBet(m, side, 1, mode)
                 \/ awardPot(m, side, 1)
         \/ settleChannel(m)
         \/ ManagerAnswers(m)
         \/ /\ calls[m].pc = "returned" /\ calls' = [calls EXCEPT ![m] = Idle]
            /\ UNCHANGED <<kernel, bounds, chans, watchlists, violations, written, tampers, faults>>
    /\ UNCHANGED <<smVars, loopVars>>

Done == pc \in {"over", "aborted"} /\ UNCHANGED vars

Next == LoopStep \/ Answers \/ Guest \/ Done

Spec == Init /\ [][Next]_vars /\ WF_vars(LoopStep) /\ WF_vars(Answers)
-------------------------------------------------------------------------------
InHand == pc \notin {"open", "opening", "loop", "complete", "settling", "over", "aborted"}
PotInPlay == IF InHand THEN table.pot ELSE 0

Paid(rows) ==
    LET upTo[i \in 0..Len(rows)] == IF i = 0 THEN 0 ELSE upTo[i - 1] + rows[i].pot
    IN  upTo[Len(rows)]
PotsPaid == Paid(hands)

\* The channel's meter explains the pots: every chip wagered was ticked, but for the ticks that
\* threw, and the blinds of a short stack were ticked in full.
MeterExplainsPots ==
    pc \in {"bet", "acted", "phase", "showdown", "loop", "complete"} /\ chans[match] # <<>> =>
        Chan(match).channel.cumulativeSatoshis + books.lost = PotsPaid + PotInPlay + books.short

\* The hand's chain has no gap and no step twice: versions from 1 on, the streets in order, and
\* "complete" last; what failed to be broadcast ends the match instead.
HandChainContiguous ==
    \A i \in DOMAIN handCells :
        /\ handCells[i].version = i
        /\ \/ handCells[i].body.phase = "complete" /\ i = Len(handCells)
           \/ i \in DOMAIN phases /\ handCells[i].body.phase = phases[i]

\* Whom the kernel holds a bet against had it tampered with, unless a tampered version had been
\* committed before: no header is then newer than the live one's, and every honest bet is accused.
AccusedTampered ==
    \A i \in DOMAIN violations :
        LET v == violations[i]
        IN  v.mode # "honest" \/ Chan(v.match).live[1].version > Chan(v.match).cellVersion

Held(a) == Cardinality({i \in DOMAIN violations : violations[i].offender = a})

\* The hits on an agent that overlapped no other: none was written between their reading and their
\* writing, and none that was written after them had read before.
Alone(log) ==
    {i \in DOMAIN log : log[i].seen = i - 1 /\ \A j \in DOMAIN log : j > i => log[j].seen >= i}

\* A watchlist counts no hit that was not a violation, and loses none but of hits of two matches that
\* overlapped at their broadcasts; only of these may two spend the same cell.  Under a full kernel,
\* with no guest and no failed broadcast, it counts every violation (the bundled kernel stops at the
\* first hit).
WatchlistCounts ==
    \A a \in Agents :
        /\ \A i, j \in DOMAIN written[a] :
              i < j /\ written[a][i].spends = written[a][j].spends =>
                  written[a][j].spends = 0 \/ written[a][j].seen < i
        /\ Cardinality(Alone(written[a])) <= (IF watchlists[a] = <<>> THEN 0 ELSE watchlists[a][1].hits)
        /\ watchlists[a] # <<>> =>
          LET w == watchlists[a][1]
          IN  /\ w.hits <= Held(a) /\ w.version = w.hits
              /\ (/\ GuestBets = 0 /\ kernel = "full" /\ faults = 0
                  /\ calls[match].pc \notin {"violation", "watch"}) => w.hits = Held(a)

\* What a new live cell must be to the one it replaces, when a bet of a tamper mode made it.
Follows(live, c, version, mode) ==
    /\ c.version = version + (IF mode = "bump-version-double" THEN 1 ELSE 0)
    /\ c.prev = IF mode = "break-prev-hash" THEN Overwritten ELSE sha256(live)
    /\ kernel = "full" => HeadersContinue(live, c)

\* The cells of a channel form a chain, whatever was rejected or lost in between: the version that is
\* kept counts the cells, and a new live cell carries that version and the hash of the cell it
\* replaces, but for what its own bet had tampered with; a full kernel lets none through that does not
\* continue the live one.
ChannelChainLinked ==
    [][\A m \in Matches : chans[m] # <<>> /\ chans'[m] # <<>> /\ Chan(m).live # Chan(m)'.live =>
          LET c == Chan(m)'.live[1]
              version == Chan(m)'.cellVersion
          IN  /\ version = Chan(m).cellVersion + 1
              /\ IF Chan(m).live = <<>> THEN c.version = version /\ c.prev = Zero
                 ELSE calls[m].pc = "transition" /\ Follows(Chan(m).live[1], c, version, calls[m].mode)]_vars

\* A match ends, and one that was not aborted has settled its channel.
MatchEnds == <>[](pc = "aborted" \/ (pc = "over" /\ Chan(match).channel.state = "SETTLED"))
===============================================================================
