-------------------------------- MODULE P2PMatch --------------------------------
(***************************************************************************)
(* Two processes of src/src/agent/p2p-agent-runner.ts playing a match:     *)
(* each keeps the whole table, acts in its own turns, tells the other its  *)
(* moves through the message transport and hands it the hand's token.      *)
(*                                                                         *)
(* A step runs from the end of one wait for the other side to the next:    *)
(* what a runner awaits in between (its agent, its wallet, its own sends)  *)
(* touches nothing the other reads but the messages, one per step.         *)
(* OP_RETURN events are left out: their failure changes nothing.           *)
(***************************************************************************)
EXTENDS PokerStateMachine, MessageTransport, SequencesExt

CONSTANTS
    SmallBlind, BigBlind, StartingChips, MaxHands,  \* P2PAgentConfig
    Safety,         \* turns of one betting round, 20 in the code
    MaxTrouble,     \* bound: faults of wallet and transport together
    Phases,         \* betting rounds of a hand, 4 in the code
    Actions,        \* bound: the actions an agent chooses from
    Outcomes,       \* sets of seats that may hold the best cards at a showdown
    Amounts         \* what an agent may put in "amount"; 0 for none

ASSUME MatchAssumption ==
    /\ {SmallBlind, BigBlind, StartingChips, MaxHands, Safety, Phases, MaxTrouble, MaxFaults, MaxMissed} \subseteq Nat
    /\ Lossy \union Faulty \subseteq Seats
    /\ Amounts \subseteq Nat /\ 0 \in Amounts

VARIABLES
    pc,         \* per seat: where run and playHand are
    game,       \* per seat: its table, both players as it sees them, and whose turn it is
    scores,     \* the seats with the best cards of each hand, as the shared shuffle has it; {} before it matters
    played      \* history, per seat: the moves executed in the current hand

matchVars == <<pc, game, scores, played>>
vars == <<machineVars, transportVars, matchVars>>

NewPlayer(chips) == [chips |-> chips, bet |-> 0, folded |-> FALSE, allIn |-> FALSE, acted |-> FALSE]

Init ==
    /\ MachineInit /\ TransportInit
    /\ pc = [s \in Seats |-> "boot"]
    /\ game = [s \in Seats |-> [hand |-> 0, phase |-> 0, dealer |-> 0, turn |-> 0, safety |-> 0, pot |-> 0,
                                currentBet |-> 0, minRaise |-> BigBlind,
                                player |-> [p \in Seats |-> NewPlayer(StartingChips)]]]
    /\ scores = [h \in 1..MaxHands |-> {}]
    /\ played = [s \in Seats |-> <<>>]

At(s, from, to) == pc[s] = from /\ pc' = [pc EXCEPT ![s] = to]
-------------------------------------------------------------------------------
(* Meeting. *)

\* run: announce oneself and wait for the other's handshake.
SayHello(s) ==
    /\ At(s, "boot", "greeting")
    /\ sendControl(s, "handshake")
    /\ inbox' = [inbox EXCEPT ![s] = Awaiting(s, "handshake")]
    /\ UNCHANGED <<drain, machineVars, game, scores, played>>

\* The handlers are set, then what was sent before is drained; the drain is awaited.
Greeted(s) ==
    /\ inbox[s].got /\ drain[s] = <<>> /\ At(s, "greeting", "listening")
    /\ sendControl(s, "handshake-ack")
    /\ startListening(s)
    /\ UNCHANGED <<machineVars, game, scores, played>>

Listening(s) ==
    /\ drain[s] = <<>> /\ At(s, "listening", "loop")
    /\ UNCHANGED <<transportVars, machineVars, game, scores, played>>

\* A wait for a control message gives up after a minute, and run throws.
GiveUp(s) ==
    /\ inbox[s].onControl = "await" /\ pc' = [pc EXCEPT ![s] = "failed"]
    /\ inbox' = [inbox EXCEPT ![s].onControl = "failed"]
    /\ UNCHANGED <<box, pushed, drain, sent, missed, machineVars, game, scores, played>>
-------------------------------------------------------------------------------
(* Betting, as either process computes it from the moves. *)

AtMost(a, b) == IF a < b THEN a ELSE b
AtLeast(a, b) == IF a > b THEN a ELSE b

placeBet(g, p, amount) ==
    LET actual == AtMost(amount, g.player[p].chips)
    IN  [g EXCEPT !.pot = @ + actual,
                  !.player[p].chips = @ - actual,
                  !.player[p].bet = @ + actual,
                  !.player[p].allIn = @ \/ g.player[p].chips = actual]

\* Whoever still can answers again.
Reopened(g, p) ==
    LET o == g.player[Opponent(p)]
    IN  [g EXCEPT !.player[Opponent(p)].acted = @ /\ (o.folded \/ o.allIn)]

Bet(g, p, amount, raise) ==
    LET h == placeBet(g, p, amount)
    IN  Reopened([h EXCEPT !.currentBet = h.player[p].bet, !.minRaise = raise], p)

executeAction(g, p, d) ==
    LET me == g.player[p]
        amount(default) == IF d.amount = 0 THEN default ELSE d.amount
        effect ==
            CASE d.action = "fold"  -> [g EXCEPT !.player[p].folded = TRUE]
              [] d.action = "check" -> g
              [] d.action = "call"  -> placeBet(g, p, g.currentBet - me.bet)
              [] d.action = "bet"   -> Bet(g, p, amount(BigBlind), amount(BigBlind))
              [] d.action = "raise" ->
                    LET total == amount(g.currentBet + g.minRaise)
                        h == placeBet(g, p, total - me.bet)
                    IN  Bet(g, p, total - me.bet, AtLeast(g.minRaise, total - h.player[p].bet))
              [] OTHER ->
                    LET h == placeBet(g, p, me.chips)
                        up == h.player[p].bet - g.currentBet
                    IN  IF up > 0 THEN Bet(g, p, me.chips, AtLeast(g.minRaise, up)) ELSE h
    IN  [effect EXCEPT !.player[p].acted = TRUE]

\* getLegalActions, of which the agent answers with one.
Decisions(s) ==
    LET g == game[s]
        me == g.player[s]
        toCall == g.currentBet - me.bet
        legal == {"fold", "all-in"} \union
                 (IF toCall = 0 THEN {"check", "bet"}
                  ELSE {"call"} \union (IF me.chips + me.bet > g.currentBet THEN {"raise"} ELSE {}))
    IN  {d \in [action : legal \intersect Actions, amount : Amounts] : d.action \notin {"bet", "raise"} => d.amount = 0}

CanAct(p) == ~p.folded /\ ~p.allIn /\ ~p.acted
RoundDone(g) == \A p \in Seats : ~CanAct(g.player[p])

\* After a move: the hand is over, the round is, or the other one's turn has come.
AfterMove(s, g, d) ==
    /\ game' = [game EXCEPT ![s] = [g EXCEPT !.turn = IF RoundDone(g) THEN @ ELSE Opponent(@),
                                             !.safety = @ - 1]]
    /\ pc' = [pc EXCEPT ![s] = IF d.action = "fold" THEN "ending"
                               ELSE IF RoundDone(g) \/ g.safety = 1 THEN "roundOver" ELSE "betting"]
    /\ played' = [played EXCEPT ![s] = Append(@, [by |-> g.turn, action |-> d.action, amount |-> d.amount])]
-------------------------------------------------------------------------------
(* A hand. *)

\* The table of a new hand, with its blinds posted; the dealer acts first.
Dealt(s) ==
    LET g == game[s]
        d == IF g.hand = 0 THEN g.dealer ELSE Opponent(g.dealer)
        fresh == [g EXCEPT !.hand = @ + 1, !.phase = 1, !.dealer = d, !.turn = d, !.safety = Safety, !.pot = 0,
                           !.minRaise = BigBlind,
                           !.player = [p \in Seats |-> NewPlayer(g.player[p].chips)]]
    IN  [placeBet(placeBet(fresh, d, SmallBlind), Opponent(d), BigBlind) EXCEPT !.currentBet = BigBlind]

MoreHands(s) == game[s].hand < MaxHands /\ \A p \in Seats : game[s].player[p].chips > 0

\* The dealer's process creates the hand's token and announces it, unless it came without BEEF.
StartAsDealer(s) ==
    /\ MoreHands(s)
    /\ LET g == Dealt(s)
       IN  /\ g.dealer = s
           /\ \E answer \in Answers :
                /\ createHandToken(s, g.hand, Protocol(s), answer)
                /\ At(s, "loop", IF answer = "throws" THEN "failed" ELSE "betting")
                /\ IF answer = "ok" THEN sendControl(s, "new-hand") ELSE UNCHANGED <<box, pushed, sent, missed>>
           /\ game' = [game EXCEPT ![s] = g]
    /\ played' = [played EXCEPT ![s] = <<>>]
    /\ UNCHANGED <<drain, inbox, scores>>

StartAsGuest(s) ==
    /\ MoreHands(s) /\ Dealt(s).dealer # s
    /\ At(s, "loop", "invited")
    /\ game' = [game EXCEPT ![s] = Dealt(s)]
    /\ inbox' = [inbox EXCEPT ![s] = Awaiting(s, "new-hand")]
    /\ played' = [played EXCEPT ![s] = <<>>]
    /\ UNCHANGED <<box, pushed, drain, sent, missed, machineVars, scores>>

Invited(s) ==
    /\ inbox[s].got /\ At(s, "invited", "betting")
    /\ inbox' = [inbox EXCEPT ![s].got = FALSE]
    /\ UNCHANGED <<box, pushed, drain, sent, missed, machineVars, game, scores, played>>

Move(g, d, token) ==
    [hand |-> g.hand, phase |-> g.phase, action |-> d.action, amount |-> d.amount, token |-> token]


\* My turn: decide, apply, hand the token over to the opponent's identity key if I hold it, tell the opponent.
Act(s) ==
    /\ pc[s] = "betting" /\ game[s].turn = s
    /\ \E d \in Decisions(s), answer \in Answers :
         LET g == executeAction(game[s], s, d)
         IN  /\ IF canISpend(s) THEN transition(s, g.hand, Identity(Opponent(s)), answer, FALSE)
                ELSE answer = "ok" /\ UNCHANGED machineVars
             /\ IF answer = "throws"
                THEN /\ pc' = [pc EXCEPT ![s] = "failed"] /\ game' = [game EXCEPT ![s] = g]
                     /\ UNCHANGED <<box, pushed, sent, missed, played>>
                ELSE /\ sendMove(s, Move(g, d, IF canISpend(s) /\ answer = "ok" THEN machine'[s].live ELSE <<>>))
                     /\ AfterMove(s, g, d)
    /\ UNCHANGED <<drain, inbox, scores>>

\* The opponent's turn: the next move of the queue is executed whatever hand and phase it names.
Follow(s) ==
    /\ pc[s] = "betting" /\ game[s].turn # s /\ inbox[s].queue # <<>>
    /\ inbox' = [inbox EXCEPT ![s].queue = Tail(@)]
    /\ LET m == Head(inbox[s].queue).move
           g == executeAction(game[s], Opponent(s), m)
       IN  /\ AfterMove(s, g, m)
           /\ IF m.token # <<>> THEN acceptIncomingBeef(s, m.token[1].id, m.token[1].version)
              ELSE UNCHANGED machine
    /\ UNCHANGED <<box, pushed, drain, sent, missed, scores, tokens, faults>>

\* The next phase: bets are reset, the other player than the dealer acts first, and moves the token on
\* to itself if it holds it.
NextPhase(s) ==
    /\ pc[s] = "roundOver" /\ game[s].phase < Phases
    /\ LET g == game[s]
           first == Opponent(g.dealer)
       IN  /\ game' = [game EXCEPT ![s] =
                 [g EXCEPT !.phase = @ + 1, !.turn = first, !.safety = Safety, !.currentBet = 0,
                           !.minRaise = BigBlind,
                           !.player = [p \in Seats |-> [g.player[p] EXCEPT !.bet = 0, !.acted = FALSE]]]]
           /\ \E answer \in Answers :
                /\ IF first = s /\ canISpend(s) THEN transition(s, g.hand, Protocol(s), answer, FALSE)
                   ELSE answer = "ok" /\ UNCHANGED machineVars
                /\ pc' = [pc EXCEPT ![s] = IF answer = "throws" THEN "failed" ELSE "betting"]
    /\ UNCHANGED <<transportVars, scores, played>>

\* Whoever did not fold, or has the best hand; of equal hands each process prefers its own.
Winner(s, g, best) ==
    IF g.player[s].folded THEN Opponent(s)
    ELSE IF g.player[Opponent(s)].folded \/ s \in best THEN s
    ELSE Opponent(s)

Resolve(s, best) ==
    /\ game' = [game EXCEPT ![s].player[Winner(s, game[s], best)].chips = @ + game[s].pot]
    /\ \E answer \in Answers :
         /\ endHand(s, game[s].hand, answer)
         /\ pc' = [pc EXCEPT ![s] = IF answer = "throws" THEN "failed" ELSE "loop"]
    /\ UNCHANGED <<transportVars, played>>

AfterFold(s) == pc[s] = "ending" /\ Resolve(s, {}) /\ UNCHANGED scores

\* Both processes shuffle the same deck, so the best hands of a showdown are the same for both.
Showdown(s) ==
    /\ pc[s] = "roundOver" /\ game[s].phase = Phases
    /\ \E best \in Outcomes :
         /\ scores[game[s].hand] \in {{}, best}
         /\ scores' = [scores EXCEPT ![game[s].hand] = best]
         /\ Resolve(s, best)

Over(s) ==
    /\ ~MoreHands(s) /\ At(s, "loop", "over")
    /\ sendControl(s, "game-over")
    /\ UNCHANGED <<drain, inbox, machineVars, game, scores, played>>

Runner(s) ==
    \/ SayHello(s) \/ Greeted(s) \/ Listening(s) \/ GiveUp(s)
    \/ StartAsDealer(s) \/ StartAsGuest(s) \/ Invited(s)
    \/ Act(s) \/ Follow(s) \/ NextPhase(s) \/ AfterFold(s) \/ Showdown(s) \/ Over(s)

\* The handlers of a process whose run has neither thrown nor returned: after that, nothing reads
\* what they store.
Transport(s) ==
    /\ pc[s] \notin {"failed", "over"}
    /\ \/ \E b \in Boxes : Push(s, b)
       \/ DrainStep(s) \/ Poll(s)
    /\ UNCHANGED <<machineVars, matchVars>>

Next ==
    /\ \E s \in Seats : Runner(s) \/ Transport(s)
    /\ faults' + missed'.count <= MaxTrouble

Spec == Init /\ [][Next]_vars
-------------------------------------------------------------------------------
(* Properties *)

\* Two processes at the same hand have executed the same moves in the same order, as far as each has
\* come, and after the same moves of a round they have the same table (executeAction on both sides,
\* the replay protection of handleIncoming, the order of listener and drain), unless a showdown was a tie;
\* and every token is signed for in the hand it is of.  A move whose push gets lost is not asked for, and
\* the next one is executed in its place: then nothing is claimed.
TablesAgree == missed.moves = {} =>
    /\ \A i \in DOMAIN tokens : tokens[i].spends # 0 => tokens[i].hand = tokens[tokens[i].spends].hand
    /\ game[0].hand = game[1].hand =>
          /\ IsPrefix(played[0], played[1]) \/ IsPrefix(played[1], played[0])
          /\ played[0] = played[1] /\ pc[0] = "betting" /\ pc[1] = "betting" =>
                 game[0] = game[1] \/ game[0].phase # game[1].phase

Spent(id) == \E i \in DOMAIN tokens : tokens[i].spends = id

\* The key that a token of seat s is locked to: the seat's own choice, or what the other seat knows of it.
KeyOf(s, token) == IF token.by = s THEN Protocol(s) ELSE Identity(s)

\* The tokens form chains: none is signed for twice and each carries the next version; and a token that a
\* seat believes it can sign for is not signed for yet and is locked to a key of that seat, though to the
\* one it signs with only if the seat locked it itself (transition, acceptIncomingBeef, endHand,
\* createHandToken).
TokensLinear ==
    /\ \A i \in DOMAIN tokens : tokens[i].spends # 0 =>
           /\ tokens[i].version = tokens[tokens[i].spends].version + 1
           /\ \A j \in DOMAIN tokens : tokens[j].spends = tokens[i].spends => j = i
    /\ \A s \in Seats : canISpend(s) =>
           LET id == machine[s].live[1].id IN tokens[id].lockedTo = KeyOf(s, tokens[id]) /\ ~Spent(id)

OnItsWay(s) ==
    \E m \in Range(pushed[s]["moves"]) \union (IF drain[s] = <<>> THEN {} ELSE drain[s][1].left) :
        m.box = "moves" /\ Fresh(inbox[s], m.body.num)

\* The two processes never both wait for the other's move with none on its way, as nothing would wake them:
\* waitForMove has no timeout and does not poll.  Only a move that came before its seat listened, or whose
\* push got lost, leaves them so.
SomeoneMoves ==
    \/ \E s \in Seats : pc[s] # "betting" \/ game[s].turn = s \/ inbox[s].queue # <<>> \/ OnItsWay(s)
    \/ \E s \in Seats : inbox[s].dropped \/ s \in missed.moves

\* "whoever holds the UTXO locked to their key has the move. You literally cannot play out of turn because
\* you can't sign the spend" (p2p-agent-runner.ts:35-37): whoever has the move can sign.
TurnHolderSigns == faults = 0 => \A s \in Seats : pc[s] = "betting" /\ game[s].turn = s => canISpend(s)
===============================================================================
