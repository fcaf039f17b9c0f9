----------------------------- MODULE GameLoopProofs -----------------------------
(* The chains of GameLoop: a hand's cells, a channel's cells, the violations   *)
(* held against bettors, the watchlists that count them, and the meter.        *)
EXTENDS GameLoop, FiniteSetTheorems, SequenceTheorems, WellFoundedInduction, TLAPS

Streets == {"preflop", "flop", "turn", "river"}

Table == [hand : Nat, phase : Streets \union {"complete"}, pot : Int, currentBet : Int, minRaise : Int,
          dealer : Sides, active : Sides, safety : Int]
Player == [chips : Int, currentBet : Int, folded : BOOLEAN, allIn : BOOLEAN, hasActed : BOOLEAN]
HandBody == [phase : Streets \union {"complete"}, winner : Sides \union {"none"}]
SentCell == [version : Nat, body : HandBody, verdict : {"valid", "invalid", "throws"}]
Violation == [match : Matches, offender : Agents, mode : TamperModes \union {"honest"}]

LoopTypeOK ==
    /\ setting \in Settings
    /\ table \in Table /\ players \in [Sides -> Player]
    /\ handVersion \in Nat /\ handCells \in Seq(SentCell)
-------------------------------------------------------------------------------
(* The chain of a hand.  While it is bet, its last cell is the street's. *)

Betting == pc \in {"bet", "tick", "ticked", "acted", "phase", "showdown", "complete"}

Dealing == pc \in {"small", "smallTicked", "big", "bigTicked", "birth"}

HandInv ==
    /\ HandChainContiguous
    /\ Dealing => table.phase = "preflop"
    /\ Betting => \E k \in DOMAIN phases :
          /\ table.phase = phases[k] /\ Len(handCells) = k /\ handVersion = k
          /\ \A i \in 1..k : handCells[i].body.phase = phases[i]
          /\ liveCell # <<>>
          /\ pc = "phase" => k # 4

LoopInv == LoopTypeOK /\ HandInv

LEMMA PlaceBetType ==
    ASSUME NEW p \in Player, NEW n \in Int
    PROVE  placeBet(p, n) \in Player /\ Wager(p, n) \in Int
  <1>1. p.chips \in Int /\ p.currentBet \in Int /\ p.allIn \in BOOLEAN
    BY DEF Player
  <1>2. Wager(p, n) \in Int
    BY <1>1 DEF Wager, Least
  <1>3. p.chips - Wager(p, n) \in Int /\ p.currentBet + Wager(p, n) \in Int
    BY <1>1, <1>2
  <1>4. (p.allIn \/ p.chips = Wager(p, n)) \in BOOLEAN
    BY <1>1
  <1> QED BY <1>2, <1>3, <1>4 DEF placeBet, Player

LEMMA EffectType ==
    ASSUME LoopTypeOK, NEW p \in Player, NEW d, d.amount \in Int
    PROVE  Effect(p, d).player \in Player /\ Effect(p, d).bet \in Int /\ Effect(p, d).minRaise \in Int
  <1>1. /\ table.currentBet \in Int /\ table.minRaise \in Int /\ BigBlind \in Int
        /\ p.chips \in Int /\ p.currentBet \in Int
    BY LoopAssumption DEF LoopTypeOK, Table, Player, LoopAssumption
  <1>2. \A q \in Player : q.currentBet \in Int
    BY DEF Player
  <1>3. \A x, y \in Int : Most(x, y) \in Int
    BY DEF Most
  <1>4. CASE d.action = "fold"
    <2>1. [p EXCEPT !.folded = TRUE] \in Player
      BY DEF Player
    <2> QED BY <1>1, <1>4, <2>1 DEF Effect
  <1>5. CASE d.action = "check"
    BY <1>1, <1>5 DEF Effect
  <1>6. CASE d.action = "call"
    <2>1. ToCall(p) \in Int
      BY <1>1 DEF ToCall
    <2>2. placeBet(p, ToCall(p)) \in Player
      BY <2>1, PlaceBetType
    <2> QED BY <1>1, <1>6, <2>2 DEF Effect
  <1>7. CASE d.action = "bet"
    <2> DEFINE amount == IF d.amount = 0 THEN BigBlind ELSE d.amount
    <2>1. amount \in Int
      BY <1>1
    <2>2. placeBet(p, amount) \in Player
      BY <2>1, PlaceBetType
    <2> QED BY <1>2, <1>7, <2>1, <2>2 DEF Effect
  <1>8. CASE d.action = "raise"
    <2> DEFINE total == IF d.amount = 0 THEN table.currentBet + table.minRaise ELSE d.amount
               q == placeBet(p, total - p.currentBet)
    <2>1. total \in Int
      BY <1>1
    <2>2. total - p.currentBet \in Int
      BY <1>1, <2>1
    <2>3. q \in Player
      BY <2>2, PlaceBetType
    <2>4. q.currentBet \in Int
      BY <1>2, <2>3
    <2>5. Most(table.minRaise, total - q.currentBet) \in Int
      <3> HIDE DEF q, total
      <3>1. total - q.currentBet \in Int
        BY <2>1, <2>4
      <3> QED BY <1>1, <1>3, <3>1
    <2>6. /\ Effect(p, d).player = q /\ Effect(p, d).bet = q.currentBet
          /\ Effect(p, d).minRaise = Most(table.minRaise, total - q.currentBet)
      BY <1>8 DEF Effect
    <2> QED BY <2>3, <2>4, <2>5, <2>6
  <1>9. CASE d.action \notin {"fold", "check", "call", "bet", "raise"}
    <2> DEFINE q == placeBet(p, p.chips)
    <2>1. q \in Player /\ q.currentBet \in Int
      BY <1>1, <1>2, PlaceBetType
    <2> HIDE DEF q
    <2>2. Most(table.minRaise, q.currentBet - table.currentBet) \in Int
      <3>1. q.currentBet - table.currentBet \in Int
        BY <1>1, <2>1
      <3> QED BY <1>1, <1>3, <3>1
    <2>3. /\ Effect(p, d).player = q
          /\ Effect(p, d).bet \in {q.currentBet, table.currentBet}
          /\ Effect(p, d).minRaise \in {table.minRaise, Most(table.minRaise, q.currentBet - table.currentBet)}
      BY <1>9 DEF Effect, q
    <2> QED BY <1>1, <2>1, <2>2, <2>3
  <1> QED BY <1>4, <1>5, <1>6, <1>7, <1>8, <1>9

\* A step that writes no cell of the hand keeps its chain.
LEMMA NoCell ==
    ASSUME LoopInv, UNCHANGED <<smVars, setting>>, table' \in Table, players' \in [Sides -> Player],
           Betting' => Betting /\ table'.phase = table.phase, pc' = "phase" => table.phase # "river",
           Dealing' => table'.phase = "preflop"
    PROVE  LoopInv'
  <1>1. LoopTypeOK' /\ HandChainContiguous'
    BY DEF LoopInv, LoopTypeOK, HandInv, HandChainContiguous, smVars
  <1>2. ASSUME Betting' PROVE \E k \in DOMAIN phases :
                                 /\ table'.phase = phases[k] /\ Len(handCells') = k /\ handVersion' = k
                                 /\ \A i \in 1..k : handCells'[i].body.phase = phases[i]
                                 /\ liveCell' # <<>>
                                 /\ pc' = "phase" => k # 4
    <2>1. PICK k \in DOMAIN phases :
             /\ table.phase = phases[k] /\ Len(handCells) = k /\ handVersion = k
             /\ \A i \in 1..k : handCells[i].body.phase = phases[i]
             /\ liveCell # <<>>
      BY <1>2 DEF LoopInv, HandInv
    <2>2. pc' = "phase" => k # 4
      BY <2>1 DEF phases
    <2> QED BY <1>2, <2>1, <2>2 DEF smVars
  <1> QED BY <1>1, <1>2 DEF LoopInv, HandInv

\* What a transition does to the chain: it adds its cell, or it throws, and without a live cell it
\* does nothing.  The cell never carries a link, so the kernel's verdict is "invalid" and not an exception.
LEMMA TransitionStep ==
    ASSUME NEW body, NEW ok \in BOOLEAN, NEW done \in BOOLEAN, transition(body, ok, done), liveCell # <<>>
    PROVE  /\ handVersion' = handVersion + 1 /\ smThrew' = ~ok
           /\ ~ok => handCells' = handCells /\ liveCell' = liveCell
           /\ ok => /\ handCells' = Append(handCells, [version |-> handVersion + 1, body |-> body,
                                                       verdict |-> "invalid"])
                    /\ ~done => liveCell' # <<>>
  <1> DEFINE c == HandCell(handVersion + 1, body)
  <1>1. c.prev = Zero /\ c.version = handVersion + 1 /\ c.body = body
    BY DEF HandCell, WithVersion, NewCell
  <1>2. validate("stub", liveCell[1], c) = "invalid"
    BY <1>1 DEF validate, HeadersContinue
  <1>3. Sent(c, "invalid") = [version |-> handVersion + 1, body |-> body, verdict |-> "invalid"]
    BY <1>1 DEF Sent
  <1> QED BY <1>2, <1>3, SMTT(30) DEF transition

LEMMA LoopInitInv == Init => LoopInv
  <1> SUFFICES ASSUME Init PROVE LoopInv
    OBVIOUS
  <1>1. setting.chips \in Nat /\ setting \in Settings /\ BigBlind \in Int
    BY LoopAssumption DEF Init, LoopAssumption
  <1>2. table \in Table /\ players \in [Sides -> Player]
    BY <1>1 DEF Init, Table, Player, NewPlayer, Sides, StartingChips
  <1>3. handVersion \in Nat /\ handCells = <<>> /\ handCells \in Seq(SentCell)
    BY DEF Init, SMInit
  <1>4. HandChainContiguous /\ ~Betting /\ ~Dealing
    BY <1>3 DEF HandChainContiguous, Betting, Dealing, Init
  <1> QED BY <1>1, <1>2, <1>3, <1>4 DEF LoopInv, LoopTypeOK, HandInv

\* The steps of the loop that write no cell.
LEMMA LoopTurns ==
    ASSUME LoopInv, LoopStep,
           ~(\E ok \in BOOLEAN : CreateHandToken(ok) \/ DealPhase(ok) \/ EndHand(ok))
    PROVE  LoopInv'
  <1> USE DEF Betting, Dealing
  <1>0. /\ table \in Table /\ players \in [Sides -> Player] /\ UNCHANGED setting
        /\ table.pot \in Int /\ BigBlind \in Int /\ SmallBlind \in Int /\ Safety \in Int
    BY LoopAssumption DEF LoopInv, LoopTypeOK, LoopStep, Table, LoopAssumption
  <1>1. CASE StartHand
    <2> DEFINE dealer == IF table.hand > 0 THEN Other(table.dealer) ELSE table.dealer
               fresh  == [s \in Sides |-> NewPlayer(players[s].chips)]
    <2>1. dealer \in Sides /\ Other(dealer) \in Sides
      BY <1>0 DEF Table, Other, Sides
    <2>2. fresh \in [Sides -> Player]
      BY <1>0 DEF NewPlayer, Player
    <2>3. players' = [s \in Sides |-> placeBet(fresh[s], IF s = dealer THEN SmallBlind ELSE BigBlind)]
      BY <1>1 DEF StartHand
    <2>4. players' \in [Sides -> Player]
      <3> HIDE DEF fresh, dealer
      <3>1. ASSUME NEW s \in Sides
            PROVE  placeBet(fresh[s], IF s = dealer THEN SmallBlind ELSE BigBlind) \in Player
        <4>1. fresh[s] \in Player /\ (IF s = dealer THEN SmallBlind ELSE BigBlind) \in Int
          BY <1>0, <2>2
        <4> QED BY <4>1, PlaceBetType
      <3> QED BY <2>3, <3>1
    <2>5. Wager(fresh[dealer], SmallBlind) \in Int /\ Wager(fresh[Other(dealer)], BigBlind) \in Int
      <3>1. fresh[dealer] \in Player /\ fresh[Other(dealer)] \in Player
        BY <2>1, <2>2
      <3> QED BY <1>0, <3>1, PlaceBetType
    <2>6. table' = [hand |-> table.hand + 1, phase |-> "preflop",
                    pot |-> Wager(fresh[dealer], SmallBlind) + Wager(fresh[Other(dealer)], BigBlind),
                    currentBet |-> BigBlind, minRaise |-> BigBlind, dealer |-> dealer, active |-> dealer,
                    safety |-> Safety]
      BY <1>1 DEF StartHand
    <2>7. Wager(fresh[dealer], SmallBlind) + Wager(fresh[Other(dealer)], BigBlind) \in Int
      BY <2>5
    <2>8. table' \in Table
      <3> HIDE DEF fresh, dealer
      <3>1. table.hand + 1 \in Nat
        BY <1>0 DEF Table
      <3> QED BY <1>0, <2>1, <2>6, <2>7, <3>1 DEF Table, Streets
    <2>9. pc' = "small" /\ UNCHANGED smVars /\ table'.phase = "preflop"
      BY <1>1, <2>6 DEF StartHand
    <2> QED BY <1>0, <2>4, <2>8, <2>9, NoCell
  <1>2. CASE Act
    <2> DEFINE s == table.active
               p == players[s]
    <2>1. s \in Sides /\ Other(s) \in Sides /\ Other(s) # s /\ p \in Player /\ p.chips \in Int
      BY <1>0 DEF Table, Player, Other, Sides
    <2>2. PICK d \in decide(p) : executeAction(s, IF validateActionPolicy(p, d) THEN d
                                                 ELSE [d EXCEPT !.action = "fold"])
      BY <1>2 DEF Act
    <2> DEFINE done == IF validateActionPolicy(p, d) THEN d ELSE [d EXCEPT !.action = "fold"]
               e == Effect(p, done)
    <2>3. d.amount \in Int /\ done.amount \in Int
      BY LoopAssumption DEF decide, parseDecision, fallbackDecision, LoopAssumption
    <2>4. e.player \in Player /\ e.bet \in Int /\ e.minRaise \in Int
      <3> HIDE DEF done
      <3> QED BY <2>1, <2>3, EffectType DEF LoopInv
    <2>5. /\ players' = [players EXCEPT ![s] = [e.player EXCEPT !.hasActed = TRUE],
                                        ![Other(s)].hasActed = @ /\ ~(e.opens /\ ~players[Other(s)].folded
                                                                       /\ ~players[Other(s)].allIn)]
          /\ table' = [table EXCEPT !.currentBet = e.bet, !.minRaise = e.minRaise, !.safety = @ - 1,
                                    !.pot = @ + p.chips - e.player.chips]
      BY <2>2 DEF executeAction
    <2> HIDE DEF done, e
    <2>6. table' \in Table /\ table'.phase = table.phase
      <3>1. e.player.chips \in Int /\ table.safety \in Int
        BY <1>0, <2>4 DEF Player, Table
      <3>2. table.safety - 1 \in Int /\ table.pot + p.chips - e.player.chips \in Int
        BY <1>0, <2>1, <3>1
      <3> QED BY <1>0, <2>4, <2>5, <3>2 DEF Table
    <2>7. players' \in [Sides -> Player]
      <3>1. [e.player EXCEPT !.hasActed = TRUE] \in Player
        BY <2>4 DEF Player
      <3>2. \A b \in BOOLEAN : [players[Other(s)] EXCEPT !.hasActed = b] \in Player
        BY <1>0, <2>1 DEF Player
      <3>3. (players[Other(s)].hasActed /\ ~(e.opens /\ ~players[Other(s)].folded
                                              /\ ~players[Other(s)].allIn)) \in BOOLEAN
        OBVIOUS
      <3> QED BY <1>0, <2>1, <2>5, <3>1, <3>2, <3>3
    <2>8. pc = "bet" /\ pc' \in {"tick", "acted"} /\ UNCHANGED smVars
      BY <1>2 DEF Act
    <2> QED BY <1>0, <2>6, <2>7, <2>8, NoCell
  <1>3. CASE SkipIdle \/ AnotherTurn
    <2>1. Other(table.active) \in Sides /\ table.safety - 1 \in Int
      BY <1>0 DEF Table, Other, Sides
    <2>2. table' \in Table /\ table'.phase = table.phase
      BY <1>0, <1>3, <2>1 DEF SkipIdle, AnotherTurn, Table
    <2>3. /\ players' \in [Sides -> Player] /\ Betting /\ UNCHANGED smVars /\ (pc' = "phase" => table.phase # "river")
          /\ ~Dealing'
      BY <1>0, <1>3 DEF SkipIdle, AnotherTurn, AfterRound
    <2> QED BY <1>0, <2>2, <2>3, NoCell
  <1>4. CASE OpponentFolded \/ Showdown
    <2>1. PICK winner \in Sides : Award(winner)
      BY <1>4 DEF OpponentFolded, Showdown, Other, Sides
    <2>2. players[winner].chips + table.pot \in Int
      BY <1>0 DEF Player
    <2>3. players' \in [Sides -> Player]
      BY <1>0, <2>1, <2>2 DEF Award, Player
    <2>4. UNCHANGED table /\ Betting /\ pc' = "complete" /\ UNCHANGED smVars
      BY <1>4 DEF OpponentFolded, Showdown
    <2> QED BY <1>0, <2>3, <2>4, NoCell
  <1>5. CASE RoundCutOff
    <2>1. /\ UNCHANGED <<table, players>> /\ UNCHANGED smVars /\ Betting /\ ~Dealing'
          /\ pc' = "phase" => table.phase # "river"
      BY <1>5 DEF RoundCutOff, AfterRound
    <2> QED BY <1>0, <2>1, NoCell
  <1>6. CASE WagerTick \/ WagerTicked
    <2>1. UNCHANGED <<table, players>> /\ UNCHANGED smVars /\ Betting /\ pc' # "phase" /\ ~Dealing'
      BY <1>6 DEF WagerTick, WagerTicked, Returns
    <2> QED BY <1>0, <2>1, NoCell
  <1>7. CASE \/ SmallBlindTick \/ SmallBlindTicked \/ BigBlindTick \/ BigBlindTicked
             \/ ChannelOpened \/ SettleChannel \/ GameOver \/ \E ok \in BOOLEAN : OpenChannel(ok)
    <2>1. UNCHANGED <<table, players>> /\ UNCHANGED smVars /\ ~Betting' /\ (Dealing' => Dealing)
      BY <1>7 DEF SmallBlindTick, SmallBlindTicked, BigBlindTick, BigBlindTicked, ChannelOpened, SettleChannel,
                  GameOver, OpenChannel, Returns
    <2>2. Dealing' => table'.phase = "preflop"
      BY <2>1 DEF LoopInv, HandInv
    <2> QED BY <1>0, <2>1, <2>2, NoCell
  <1> QED BY <1>1, <1>2, <1>3, <1>4, <1>5, <1>6, <1>7 DEF LoopStep, Turn

\* The first cell of a hand.
LEMMA BirthLoop == ASSUME LoopInv, NEW ok \in BOOLEAN, CreateHandToken(ok), UNCHANGED setting PROVE LoopInv'
  <1> DEFINE c == HandCell(1, Payload("preflop", "none"))
             verdict == IF validateCell(c) THEN "valid" ELSE "invalid"
             cell == [version |-> 1, body |-> Payload("preflop", "none"), verdict |-> verdict]
  <1>1. /\ createHandToken(Payload("preflop", "none"), ok) /\ pc = "birth"
        /\ pc' = (IF smThrew' THEN "aborted" ELSE "bet") /\ UNCHANGED <<table, players>>
        /\ table.phase = "preflop"
    BY DEF CreateHandToken, LoopInv, HandInv, Dealing
  <1>2. Sent(c, verdict) = cell
    BY DEF Sent, HandCell, WithVersion, NewCell
  <1>3. cell \in SentCell
    BY DEF SentCell, HandBody, Payload, Streets
  <1>4. /\ handVersion' = 1 /\ smThrew' = ~ok /\ handCells' = (IF ok THEN <<Sent(c, verdict)>> ELSE <<>>)
        /\ ok => liveCell' = <<c>>
    BY <1>1 DEF createHandToken
  <1> HIDE DEF verdict
  <1>5. handCells' = (IF ok THEN <<cell>> ELSE <<>>) /\ cell.version = 1 /\ cell.body.phase = "preflop"
    BY <1>2, <1>4 DEF Payload
  <1> HIDE DEF cell, c
  <1>6. handCells' \in Seq(SentCell)
    BY <1>3, <1>5
  <1>7. LoopTypeOK'
    BY <1>1, <1>4, <1>6 DEF LoopInv, LoopTypeOK
  <1>8. 1 \in DOMAIN phases /\ phases[1] = "preflop"
    BY DEF phases
  <1>9. HandChainContiguous'
    <2>1. CASE ok
      <3>1. handCells' = <<cell>> /\ DOMAIN handCells' = {1} /\ handCells'[1] = cell
        BY <1>5, <2>1
      <3> QED BY <1>5, <1>8, <3>1 DEF HandChainContiguous
    <2>2. CASE ~ok
      <3>1. DOMAIN handCells' = {}
        BY <1>5, <2>2
      <3> QED BY <3>1 DEF HandChainContiguous
    <2> QED BY <2>1, <2>2
  <1>10. ~Dealing'
    BY <1>1 DEF Dealing
  <1>11. CASE ok
    <2>1. /\ table'.phase = phases[1] /\ Len(handCells') = 1 /\ handVersion' = 1
          /\ \A i \in 1..1 : handCells'[i].body.phase = phases[i]
          /\ liveCell' # <<>> /\ pc' # "phase"
      <3>1. handCells' = <<cell>> /\ Len(handCells') = 1 /\ handCells'[1] = cell /\ pc' = "bet"
        <4>1. handCells' = <<cell>> /\ smThrew' = FALSE
          BY <1>4, <1>5, <1>11
        <4>2. Len(<<cell>>) = 1 /\ <<cell>>[1] = cell
          OBVIOUS
        <4> QED BY <1>1, <4>1, <4>2
      <3>2. liveCell' = <<c>> /\ handVersion' = 1 /\ table' = table
        BY <1>1, <1>4, <1>11
      <3>3. \A i \in 1..1 : i = 1
        OBVIOUS
      <3> QED BY <1>1, <1>5, <1>8, <3>1, <3>2, <3>3
    <2>2. \E k \in DOMAIN phases :
             /\ table'.phase = phases[k] /\ Len(handCells') = k /\ handVersion' = k
             /\ \A i \in 1..k : handCells'[i].body.phase = phases[i]
             /\ liveCell' # <<>>
             /\ pc' = "phase" => k # 4
      BY <1>8, <2>1
    <2>3. HandInv'
      BY <1>9, <1>10, <2>2 DEF HandInv
    <2> QED BY <1>7, <2>3 DEF LoopInv
  <1>12. CASE ~ok
    <2>1. ~Betting'
      BY <1>1, <1>4, <1>12 DEF Betting
    <2> QED BY <1>7, <1>9, <1>10, <2>1 DEF LoopInv, HandInv
  <1> QED BY <1>11, <1>12

\* A cell that is sent extends a chain that ends with a street.
LEMMA ChainExtends ==
    ASSUME handCells \in Seq(SentCell), HandChainContiguous, NEW k \in DOMAIN phases, Len(handCells) = k,
           \A i \in 1..k : handCells[i].body.phase = phases[i],
           NEW body \in HandBody, body.phase = "complete" \/ (k # 4 /\ body.phase = phases[k + 1]),
           handCells' = Append(handCells, [version |-> k + 1, body |-> body, verdict |-> "invalid"])
    PROVE  /\ handCells' \in Seq(SentCell) /\ Len(handCells') = k + 1 /\ HandChainContiguous'
           /\ \A i \in 1..k : handCells'[i].body.phase = phases[i]
           /\ handCells'[k + 1].body = body
  <1> DEFINE cell == [version |-> k + 1, body |-> body, verdict |-> "invalid"]
  <1>1. k \in 1..4 /\ DOMAIN phases = 1..4
    BY DEF phases
  <1>2. cell \in SentCell /\ cell.version = k + 1 /\ cell.body = body
    BY <1>1 DEF SentCell
  <1> HIDE DEF cell
  <1>3. /\ handCells' \in Seq(SentCell) /\ Len(handCells') = k + 1 /\ DOMAIN handCells' = 1..(k + 1)
        /\ DOMAIN handCells = 1..k
        /\ \A i \in 1..k : handCells'[i] = handCells[i]
        /\ handCells'[k + 1] = cell
    BY <1>1, <1>2 DEF cell
  <1>4. ASSUME NEW i \in 1..(k + 1)
        PROVE  /\ handCells'[i].version = i
               /\ \/ handCells'[i].body.phase = "complete" /\ i = Len(handCells')
                  \/ i \in DOMAIN phases /\ handCells'[i].body.phase = phases[i]
    <2>1. CASE i \in 1..k
      BY <1>1, <1>3, <2>1 DEF HandChainContiguous
    <2>2. CASE i = k + 1
      BY <1>1, <1>2, <1>3, <2>2
    <2> QED BY <1>1, <2>1, <2>2
  <1>5. HandChainContiguous'
    BY <1>3, <1>4 DEF HandChainContiguous
  <1> QED BY <1>2, <1>3, <1>5

LEMMA NextStreet ==
    ASSUME NEW k \in DOMAIN phases, k # 4
    PROVE  NextPhase(phases[k]) = phases[k + 1] /\ k + 1 \in DOMAIN phases /\ phases[k + 1] \in Streets
  <1>1. k \in 1..3 /\ \A i \in 1..3 : phases[i] = phases[k] <=> i = k
    BY DEF phases
  <1>2. (CHOOSE i \in 1..3 : phases[i] = phases[k]) = k
    BY <1>1
  <1> QED BY <1>1, <1>2 DEF NextPhase, phases, Streets

\* What a new street resets.
LEMMA NewRoundPlayer ==
    ASSUME NEW p \in Player
    PROVE  [p EXCEPT !.currentBet = 0, !.hasActed = FALSE] \in Player
  <1> DEFINE q == [p EXCEPT !.currentBet = 0]
  <1>1. q \in Player
    BY DEF Player
  <1>2. [p EXCEPT !.currentBet = 0, !.hasActed = FALSE] = [q EXCEPT !.hasActed = FALSE]
    BY DEF Player
  <1> HIDE DEF q
  <1>3. [q EXCEPT !.hasActed = FALSE] \in Player
    BY <1>1 DEF Player
  <1> QED BY <1>2, <1>3

\* The cell of a street.
LEMMA PhaseLoop == ASSUME LoopInv, NEW ok \in BOOLEAN, DealPhase(ok), UNCHANGED setting PROVE LoopInv'
  <1> DEFINE phase == NextPhase(table.phase)
  <1>1. /\ pc = "phase" /\ transition(Payload(phase, "none"), ok, FALSE)
        /\ pc' = (IF smThrew' THEN "aborted" ELSE "bet")
        /\ table' = [table EXCEPT !.phase = phase, !.currentBet = 0, !.minRaise = BigBlind,
                                  !.active = Other(table.dealer), !.safety = Safety]
        /\ players' = [s \in Sides |-> [players[s] EXCEPT !.currentBet = 0, !.hasActed = FALSE]]
    BY DEF DealPhase
  <1>2. PICK k \in DOMAIN phases :
           /\ table.phase = phases[k] /\ Len(handCells) = k /\ handVersion = k
           /\ \A i \in 1..k : handCells[i].body.phase = phases[i]
           /\ liveCell # <<>> /\ k # 4
    BY <1>1 DEF LoopInv, HandInv, Betting
  <1>3. phase = phases[k + 1] /\ k + 1 \in DOMAIN phases /\ phase \in Streets
    BY <1>2, NextStreet
  <1> HIDE DEF phase
  <1>4. table' \in Table /\ players' \in [Sides -> Player] /\ table'.phase = phase
    <2>1. Other(table.dealer) \in Sides /\ BigBlind \in Int /\ Safety \in Int
      BY LoopAssumption DEF LoopInv, LoopTypeOK, Table, Other, Sides, LoopAssumption
    <2>2. table \in Table /\ players \in [Sides -> Player]
      BY DEF LoopInv, LoopTypeOK
    <2>3. table' \in Table /\ table'.phase = phase
      <3>1. PICK zero \in Int : zero = 0
        OBVIOUS
      <3>2. table' = [table EXCEPT !.phase = phase, !.currentBet = zero, !.minRaise = BigBlind,
                                   !.active = Other(table.dealer), !.safety = Safety]
        BY <1>1, <3>1
      <3> QED BY <1>3, <2>1, <2>2, <3>2, <3>1 DEF Table
    <2>4. ASSUME NEW s \in Sides PROVE [players[s] EXCEPT !.currentBet = 0, !.hasActed = FALSE] \in Player
      BY <2>2, NewRoundPlayer
    <2> QED BY <1>1, <2>3, <2>4
  <1>5. Payload(phase, "none") \in HandBody /\ Payload(phase, "none").phase = phase
    BY <1>3 DEF Payload, HandBody
  <1>6. /\ handVersion' = k + 1 /\ smThrew' = ~ok
        /\ ~ok => handCells' = handCells
        /\ ok => /\ handCells' = Append(handCells, [version |-> k + 1, body |-> Payload(phase, "none"),
                                                    verdict |-> "invalid"])
                 /\ liveCell' # <<>>
    BY <1>1, <1>2, TransitionStep
  <1>7. handVersion' \in Nat /\ ~Dealing' /\ setting' \in Settings /\ pc' # "phase"
    <2>1. k + 1 \in Nat
      BY DEF phases
    <2>2. pc' \in {"aborted", "bet"}
      BY <1>1
    <2> QED BY <1>6, <2>1, <2>2 DEF Dealing, LoopInv, LoopTypeOK
  <1>8. CASE ok
    <2>1. /\ handCells' \in Seq(SentCell) /\ Len(handCells') = k + 1 /\ HandChainContiguous'
          /\ \A i \in 1..k : handCells'[i].body.phase = phases[i]
          /\ handCells'[k + 1].body = Payload(phase, "none")
      BY <1>2, <1>3, <1>5, <1>6, <1>8, ChainExtends DEF LoopInv, LoopTypeOK, HandInv
    <2>2. \A i \in 1..(k + 1) : handCells'[i].body.phase = phases[i]
      <3>1. k \in Nat
        BY DEF phases
      <3>2. \A i \in 1..(k + 1) : i \in 1..k \/ i = k + 1
        BY <3>1
      <3> QED BY <1>3, <1>5, <2>1, <3>2
    <2> QED BY <1>3, <1>4, <1>6, <1>7, <1>8, <2>1, <2>2 DEF LoopInv, LoopTypeOK, HandInv
  <1>9. CASE ~ok
    <2>1. ~Betting' /\ handCells' = handCells
      BY <1>1, <1>6, <1>9 DEF Betting
    <2>2. HandChainContiguous' /\ handCells' \in Seq(SentCell)
      BY <2>1 DEF LoopInv, LoopTypeOK, HandInv, HandChainContiguous
    <2> QED BY <1>4, <1>7, <2>1, <2>2 DEF LoopInv, LoopTypeOK, HandInv
  <1> QED BY <1>8, <1>9

\* The last cell of a hand.
LEMMA EndLoop == ASSUME LoopInv, NEW ok \in BOOLEAN, EndHand(ok), UNCHANGED setting PROVE LoopInv'
  <1> DEFINE body == Payload("complete", IF players["A"].folded THEN "B" ELSE "A")
  <1>1. /\ pc = "complete" /\ transition(body, ok, TRUE) /\ UNCHANGED <<table, players>>
        /\ pc' \in {"aborted", "loop"}
    BY DEF EndHand
  <1>2. PICK k \in DOMAIN phases :
           /\ table.phase = phases[k] /\ Len(handCells) = k /\ handVersion = k
           /\ \A i \in 1..k : handCells[i].body.phase = phases[i]
           /\ liveCell # <<>>
    BY <1>1 DEF LoopInv, HandInv, Betting
  <1>3. body \in HandBody /\ body.phase = "complete"
    BY DEF Payload, HandBody, Sides
  <1> HIDE DEF body
  <1>4. /\ handVersion' = k + 1
        /\ ~ok => handCells' = handCells
        /\ ok => handCells' = Append(handCells, [version |-> k + 1, body |-> body, verdict |-> "invalid"])
    BY <1>1, <1>2, TransitionStep
  <1>5. handVersion' \in Nat /\ ~Dealing' /\ ~Betting'
    BY <1>1, <1>2, <1>4 DEF Dealing, Betting, phases
  <1>6. HandChainContiguous' /\ handCells' \in Seq(SentCell)
    <2>1. CASE ok
      BY <1>2, <1>3, <1>4, <2>1, ChainExtends DEF LoopInv, LoopTypeOK, HandInv
    <2>2. CASE ~ok
      BY <1>4, <2>2 DEF LoopInv, LoopTypeOK, HandInv, HandChainContiguous
    <2> QED BY <2>1, <2>2
  <1> QED BY <1>1, <1>5, <1>6 DEF LoopInv, LoopTypeOK, HandInv

LEMMA LoopNextInv == LoopInv /\ [Next]_vars => LoopInv'
  <1> SUFFICES ASSUME LoopInv, [Next]_vars PROVE LoopInv'
    OBVIOUS
  <1>1. ASSUME NEW ok \in BOOLEAN, CreateHandToken(ok) \/ DealPhase(ok) \/ EndHand(ok), LoopStep PROVE LoopInv'
    BY <1>1, BirthLoop, PhaseLoop, EndLoop DEF LoopStep
  <1>2. CASE LoopStep
    BY <1>1, <1>2, LoopTurns
  <1>3. CASE UNCHANGED <<smVars, loopVars>>
    BY <1>3 DEF LoopInv, LoopTypeOK, HandInv, HandChainContiguous, Betting, Dealing, smVars, loopVars
  <1> QED BY <1>2, <1>3 DEF Next, Answers, Guest, Done, vars

\* The loop's variables keep their types whatever the agents answer, whatever is tampered with, and
\* whichever broadcast fails.
THEOREM LoopTypeCorrect == Spec => []LoopTypeOK
  <1>1. LoopInv => LoopTypeOK
    BY DEF LoopInv
  <1> QED BY <1>1, LoopInitInv, LoopNextInv, PTL DEF Spec

\* A hand's chain never has a gap nor a step twice: broadcasts may fail and a round may be cut off,
\* but the versions run from 1 and the streets follow each other until "complete".
THEOREM HandChainsContiguous == Spec => []HandChainContiguous
  <1>1. LoopInv => HandChainContiguous
    BY DEF LoopInv, HandInv
  <1> QED BY <1>1, LoopInitInv, LoopNextInv, PTL DEF Spec
-------------------------------------------------------------------------------
(* The manager. *)

ChannelFields == {"channel", "balanceA", "balanceB", "cellVersion", "live", "paid"}

Tip(m) == Chan(m).live[1]

\* The header every cell of a channel's chain has.
ChainHeader(m, c) == c.magic /\ c.linearity = "LINEAR" /\ c.type = "channel-state" /\ c.owner = m

ChainInv(m) ==
    /\ chans[m] # <<>> =>
          /\ DOMAIN chans[m] = {1} /\ DOMAIN Chan(m) = ChannelFields
          /\ Chan(m).cellVersion \in Nat
          /\ Chan(m).live # <<>> /\ kernel # "none" =>
                /\ ChainHeader(m, Tip(m))
                /\ Tip(m).version \in Nat /\ Tip(m).version >= Chan(m).cellVersion
    /\ calls[m].pc \in {"create", "transition", "settling"} => chans[m] # <<>>
    /\ calls[m].pc = "create" => Chan(m).live = <<>> /\ Chan(m).cellVersion = 0
    /\ calls[m].pc = "transition" =>
          /\ Chan(m).live # <<>>
          /\ calls[m].version = Chan(m).cellVersion + 1
          /\ Follows(Tip(m), calls[m].cell, calls[m].version, calls[m].mode)
          /\ kernel # "none" =>
                /\ ChainHeader(m, calls[m].cell)
                /\ calls[m].cell.version > Tip(m).version

AccusedIn(v, ker, channels) ==
    /\ ker # "none" /\ channels[v.match] # <<>> /\ channels[v.match][1].live # <<>>
    /\ v.mode # "honest" \/ channels[v.match][1].live[1].version > channels[v.match][1].cellVersion

Accused(v) == AccusedIn(v, kernel, chans)

ManagerInv ==
    /\ DOMAIN chans = Matches /\ DOMAIN calls = Matches
    /\ \A m \in Matches : ChainInv(m)
    /\ violations \in Seq(Violation)
    /\ \A i \in DOMAIN violations : Accused(violations[i])

\* What a step may do to the manager: one call of one channel moves, or at most a broadcast of the
\* hand's chain fails.
ChannelStep(m) ==
    \/ \E ok \in BOOLEAN : openChannel(m, ok)
    \/ \E side \in Sides : \E sats : \E mode \in {"honest"} \union Tampers : recordBet(m, side, sats, mode)
    \/ settleChannel(m)
    \/ ManagerAnswers(m)
    \/ /\ calls[m].pc = "returned" /\ calls' = [calls EXCEPT ![m] = Idle]
       /\ UNCHANGED <<kernel, chans, watchlists, violations, written, faults>>

Unmanaged ==
    UNCHANGED <<kernel, chans, calls, watchlists, violations, written>> /\ (UNCHANGED faults \/ \E ok \in BOOLEAN : Answer(ok))

LEMMA ManagerSteps ==
    ASSUME LoopTypeOK, [Next]_vars
    PROVE  \/ Unmanaged
           \/ \E m \in Matches : ChannelStep(m) /\ (m = match \/ GuestBets > 0)
  <1>1. match \in Matches /\ table.dealer \in Sides /\ table.active \in Sides
    BY LoopAssumption DEF LoopTypeOK, Table, LoopAssumption
  <1>2. ASSUME NEW side \in Sides, NEW sats, Bet(side, sats) PROVE ChannelStep(match)
    BY <1>1, <1>2 DEF Bet, ChannelStep
  <1>3. ASSUME NEW at, Returns(at) PROVE ChannelStep(match)
    BY <1>3 DEF Returns, ChannelStep
  <1>4. CASE LoopStep
    <2>1. CASE SmallBlindTick \/ BigBlindTick \/ WagerTick
      <3>1. Other(table.dealer) \in Sides
        BY DEF Other, Sides
      <3> QED BY <1>1, <1>2, <2>1, <3>1 DEF SmallBlindTick, BigBlindTick, WagerTick
    <2>2. CASE ChannelOpened \/ SmallBlindTicked \/ BigBlindTicked \/ WagerTicked \/ GameOver
      BY <1>1, <1>3, <2>2 DEF ChannelOpened, SmallBlindTicked, BigBlindTicked, WagerTicked, GameOver
    <2>3. CASE StartHand \/ Act \/ SkipIdle \/ OpponentFolded \/ AnotherTurn \/ RoundCutOff \/ Showdown
      BY <2>3 DEF StartHand, Act, SkipIdle, OpponentFolded, AnotherTurn, RoundCutOff, Showdown, channelVars,
                  Unmanaged
    <2>4. CASE SettleChannel \/ \E ok \in BOOLEAN : OpenChannel(ok)
      BY <1>1, <2>4 DEF SettleChannel, OpenChannel, ChannelStep
    <2>5. ASSUME NEW ok \in BOOLEAN, CreateHandToken(ok) \/ DealPhase(ok) \/ EndHand(ok)
          PROVE  Unmanaged
      BY <2>5 DEF CreateHandToken, DealPhase, EndHand, Unmanaged
    <2> QED BY <1>4, <2>1, <2>2, <2>3, <2>4, <2>5 DEF LoopStep, Turn
  <1>5. CASE Answers
    BY <1>1, <1>5 DEF Answers, ChannelStep
  <1>6. CASE Guest
    <2>1. PICK m \in Matches \ {match} :
             \/ \E ok \in BOOLEAN : openChannel(m, ok)
             \/ /\ chans[m] # <<>> /\ Chan(m).channel.currentTick < GuestBets
                /\ \E side \in Sides :
                     \/ \E mode \in {"honest"} \union Tampers : recordBet(m, side, 1, mode)
                     \/ awardPot(m, side, 1)
             \/ settleChannel(m)
             \/ ManagerAnswers(m)
             \/ /\ calls[m].pc = "returned" /\ calls' = [calls EXCEPT ![m] = Idle]
                /\ UNCHANGED <<kernel, chans, watchlists, violations, written, tampers, faults>>
      BY <1>6 DEF Guest
    <2>2. \A side \in Sides : awardPot(m, side, 1) => recordBet(m, Other(side), 1, "honest") /\ Other(side) \in Sides
      BY DEF awardPot, Other, Sides
    <2>3. ChannelStep(m) /\ GuestBets > 0
      BY <1>6, <2>1, <2>2 DEF ChannelStep, Guest
    <2> QED BY <2>3
  <1>7. CASE Done \/ UNCHANGED vars
    BY <1>7 DEF Done, vars, channelVars, Unmanaged
  <1> QED BY <1>4, <1>5, <1>6, <1>7 DEF Next

\* The cell of a bet: it follows the live one, tampered with or not.
LEMMA BetCell ==
    ASSUME NEW m, NEW c, c.live # <<>>, c.cellVersion \in Nat, NEW t, NEW to, NEW mode \in {"honest"} \union Tampers
    PROVE  LET base == NextCell(m, c, t, to)
               cell == applyTamper(base, mode)
           IN  /\ base.version = c.cellVersion + 1 /\ base.prev = sha256(c.live[1]) /\ ChainHeader(m, base)
               /\ mode = "honest" => cell = base
               /\ cell.version = c.cellVersion + 1 + (IF mode = "bump-version-double" THEN 1 ELSE 0)
               /\ cell.prev = IF mode = "break-prev-hash" THEN Overwritten ELSE sha256(c.live[1])
  <1> DEFINE base == NextCell(m, c, t, to)
             cell == applyTamper(base, mode)
  <1>1. base = [magic |-> TRUE, linearity |-> "LINEAR", version |-> c.cellVersion + 1, owner |-> m,
                type |-> "channel-state", prev |-> sha256(c.live[1]), body |-> Body(t, to.A, to.B)]
    <2> DEFINE body == Body(t, to.A, to.B)
    <2>1. base = WithVersion(NewCell("LINEAR", "channel-state", m, sha256(c.live[1]), body), c.cellVersion + 1)
      BY DEF NextCell, ChannelCell
    <2> HIDE DEF body, base
    <2> QED BY <2>1 DEF WithVersion, NewCell, body
  <1>2. "honest" \notin TamperModes
    BY DEF TamperModes
  <1> HIDE DEF base
  <1>3. /\ base.version = c.cellVersion + 1 /\ base.prev = sha256(c.live[1]) /\ ChainHeader(m, base)
        /\ DOMAIN base = {"magic", "linearity", "version", "owner", "type", "prev", "body"}
    BY <1>1 DEF ChainHeader
  <1>4. mode = "honest" => cell = base
    BY DEF applyTamper
  <1>5. /\ cell.version = c.cellVersion + 1 + (IF mode = "bump-version-double" THEN 1 ELSE 0)
        /\ cell.prev = IF mode = "break-prev-hash" THEN Overwritten ELSE sha256(c.live[1])
    BY <1>3 DEF applyTamper
  <1> QED BY <1>3, <1>4, <1>5 DEF base

\* A step of one channel keeps what is held against others; what is held against its own bettors stays
\* explained as long as a channel that is ahead of its version does not fall back.
LEMMA OneChannel ==
    ASSUME ManagerInv, NEW m \in Matches, kernel' = kernel, DOMAIN chans' = Matches, DOMAIN calls' = Matches,
           \A n \in Matches \ {m} : chans'[n] = chans[n] /\ calls'[n] = calls[n],
           ChainInv(m)',
           kernel # "none" /\ chans[m] # <<>> /\ Chan(m).live # <<>> =>
               /\ chans'[m] # <<>> /\ Chan(m)'.live # <<>>
               /\ Tip(m).version > Chan(m).cellVersion => Tip(m)'.version > Chan(m)'.cellVersion,
           \/ violations' = violations
           \/ \E v \in Violation : violations' = Append(violations, v) /\ v.match = m /\ Accused(v)'
    PROVE  ManagerInv'
  <1>1. \A n \in Matches : ChainInv(n)'
    <2>1. ASSUME NEW n \in Matches \ {m} PROVE ChainInv(n)'
      BY <2>1 DEF ManagerInv, ChainInv, Follows, Chan, Tip
    <2> QED BY <2>1
  <1>2. ASSUME NEW v \in Violation, AccusedIn(v, kernel, chans) PROVE AccusedIn(v, kernel', chans')
    <2>1. v.match \in Matches
      BY DEF Violation
    <2>2. CASE v.match = m
      BY <1>2, <2>2 DEF AccusedIn, Tip, Chan
    <2>3. CASE v.match # m
      BY <1>2, <2>1, <2>3 DEF AccusedIn
    <2> QED BY <2>2, <2>3
  <1>3. /\ violations' \in Seq(Violation)
        /\ \A i \in DOMAIN violations' : AccusedIn(violations'[i], kernel', chans')
    <2>1. violations \in Seq(Violation) /\ \A i \in DOMAIN violations : violations[i] \in Violation
      BY DEF ManagerInv
    <2>2. \A i \in DOMAIN violations : AccusedIn(violations[i], kernel, chans)
      BY DEF ManagerInv, Accused
    <2>3. \A i \in DOMAIN violations : AccusedIn(violations[i], kernel', chans')
      BY <1>2, <2>1, <2>2
    <2>4. CASE violations' = violations
      BY <2>1, <2>3, <2>4
    <2>5. ASSUME NEW v \in Violation, violations' = Append(violations, v), Accused(v)'
          PROVE  /\ violations' \in Seq(Violation)
                 /\ \A i \in DOMAIN violations' : AccusedIn(violations'[i], kernel', chans')
      <3>1. /\ violations' \in Seq(Violation)
            /\ \A i \in DOMAIN violations' : violations'[i] = v \/ (i \in DOMAIN violations /\ violations'[i] = violations[i])
        BY <2>1, <2>5
      <3>2. AccusedIn(v, kernel', chans')
        BY <2>5 DEF Accused
      <3> QED BY <2>3, <3>1, <3>2
    <2> QED BY <2>4, <2>5
  <1> QED BY <1>1, <1>3 DEF ManagerInv, Accused

LEMMA NonEmpty == \A s : DOMAIN s = {1} => s # <<>>
  OBVIOUS

\* What a step must show of the live cell (ChannelChainLinked).
Linked(m) ==
    chans[m] # <<>> /\ chans'[m] # <<>> /\ Chan(m).live # Chan(m)'.live =>
        LET c == Chan(m)'.live[1]
            version == Chan(m)'.cellVersion
        IN  /\ version = Chan(m).cellVersion + 1
            /\ IF Chan(m).live = <<>> THEN c.version = version /\ c.prev = Zero
               ELSE calls[m].pc = "transition" /\ Follows(Chan(m).live[1], c, version, calls[m].mode)

LEMMA OpenStep ==
    ASSUME ManagerInv, NEW m \in Matches, NEW ok \in BOOLEAN, openChannel(m, ok)
    PROVE  ManagerInv' /\ Linked(m)
  <1> DEFINE c == [channel |-> activate(fund(createChannel).value).value,
                   balanceA |-> FundingSats \div 2, balanceB |-> FundingSats \div 2,
                   cellVersion |-> 0, live |-> <<>>, paid |-> <<>>]
             call == IF ok THEN [pc |-> "create"] ELSE Returned("threw")
  <1>1. /\ chans[m] = <<>> /\ kernel' = kernel /\ violations' = violations
        /\ calls' = [calls EXCEPT ![m] = call]
        /\ chans' = IF ok THEN [chans EXCEPT ![m] = <<c>>] ELSE chans
    BY DEF openChannel
  <1>2. /\ DOMAIN c = ChannelFields /\ c.cellVersion = 0 /\ c.live = <<>>
        /\ call.pc \in {"create", "returned"} /\ (call.pc = "create" => ok)
    BY DEF ChannelFields, Returned
  <1> HIDE DEF c, call
  <1>3. /\ DOMAIN chans' = Matches /\ DOMAIN calls' = Matches /\ calls'[m] = call
        /\ \A n \in Matches \ {m} : chans'[n] = chans[n] /\ calls'[n] = calls[n]
        /\ chans'[m] = IF ok THEN <<c>> ELSE <<>>
    BY <1>1 DEF ManagerInv
  <1>4. ok => Chan(m)' = c /\ DOMAIN chans'[m] = {1}
    BY <1>3 DEF Chan
  <1>5. ChainInv(m)'
    <2>1. CASE ok
      BY <1>2, <1>3, <1>4, <2>1 DEF ChainInv
    <2>2. CASE ~ok
      BY <1>2, <1>3, <2>2 DEF ChainInv
    <2> QED BY <2>1, <2>2
  <1> QED BY <1>1, <1>3, <1>5, OneChannel DEF Linked

\* A step that leaves the channel's record alone, as far as it matters, and its call at rest.
LEMMA QuietChannel ==
    ASSUME ManagerInv, NEW m \in Matches, kernel' = kernel, violations' = violations,
           DOMAIN chans' = Matches, DOMAIN calls' = Matches,
           \A n \in Matches \ {m} : chans'[n] = chans[n] /\ calls'[n] = calls[n],
           \/ chans'[m] = chans[m]
           \/ /\ chans[m] # <<>> /\ DOMAIN chans'[m] = {1} /\ DOMAIN Chan(m)' = ChannelFields
              /\ Chan(m)'.live = Chan(m).live /\ Chan(m)'.cellVersion = Chan(m).cellVersion,
           calls'[m].pc \in {"create", "transition", "settling"} => calls'[m].pc = "settling" /\ chans'[m] # <<>>
    PROVE  ManagerInv' /\ Linked(m)
  <1>1. ChainInv(m)
    BY DEF ManagerInv
  <1>2. chans[m] # <<>> <=> chans'[m] # <<>>
    BY <1>1, NonEmpty DEF ChainInv
  <1>3. chans[m] # <<>> => /\ Chan(m)'.live = Chan(m).live /\ Chan(m)'.cellVersion = Chan(m).cellVersion
                           /\ Tip(m)' = Tip(m) /\ DOMAIN chans'[m] = {1} /\ DOMAIN Chan(m)' = ChannelFields
    BY <1>1 DEF Chan, Tip, ChainInv
  <1>4. ChainInv(m)'
    BY <1>1, <1>2, <1>3 DEF ChainInv
  <1>5. Linked(m)
    BY <1>3 DEF Linked
  <1> QED BY <1>2, <1>3, <1>4, <1>5, OneChannel

\* A broadcast that was answered moves the channel to a new live cell.
WithLive(m, cell, version) == [chans EXCEPT ![m][1].live = <<cell>>, ![m][1].cellVersion = version]

LEMMA NewLive ==
    ASSUME ManagerInv, NEW m \in Matches, DOMAIN chans[m] = {1}, DOMAIN Chan(m) = ChannelFields,
           NEW cell, NEW version,
           chans' = WithLive(m, cell, version)
    PROVE  /\ DOMAIN chans' = Matches /\ \A n \in Matches \ {m} : chans'[n] = chans[n]
           /\ DOMAIN chans'[m] = {1} /\ DOMAIN Chan(m)' = ChannelFields /\ chans'[m] # <<>>
           /\ Chan(m)'.live = <<cell>> /\ Chan(m)'.cellVersion = version /\ Tip(m)' = cell
  <1> DEFINE c == [[Chan(m) EXCEPT !.live = <<cell>>] EXCEPT !.cellVersion = version]
             d == [Chan(m) EXCEPT !.live = <<cell>>]
             mid == [chans EXCEPT ![m][1].live = <<cell>>]
  <1>1. DOMAIN chans = Matches /\ "live" \in ChannelFields /\ "cellVersion" \in ChannelFields
    BY DEF ManagerInv, ChannelFields
  <1>2. /\ DOMAIN mid = Matches /\ \A n \in Matches \ {m} : mid[n] = chans[n]
        /\ DOMAIN mid[m] = {1} /\ mid[m][1] = d
    BY <1>1 DEF Chan
  <1>3. /\ DOMAIN d = ChannelFields /\ d.live = <<cell>>
    BY <1>1
  <1>4. chans' = [mid EXCEPT ![m][1].cellVersion = version]
    BY DEF WithLive
  <1> HIDE DEF mid, d
  <1>5. /\ DOMAIN chans' = Matches /\ \A n \in Matches \ {m} : chans'[n] = chans[n]
        /\ DOMAIN chans'[m] = {1} /\ chans'[m][1] = [d EXCEPT !.cellVersion = version]
    <2>1. chans'[m] = [mid[m] EXCEPT ![1].cellVersion = version]
      BY <1>2, <1>4
    <2>2. DOMAIN chans' = Matches /\ \A n \in Matches \ {m} : chans'[n] = mid[n]
      BY <1>2, <1>4
    <2> QED BY <1>2, <2>1, <2>2
  <1>6. /\ DOMAIN [d EXCEPT !.cellVersion = version] = ChannelFields
        /\ [d EXCEPT !.cellVersion = version].live = <<cell>>
        /\ [d EXCEPT !.cellVersion = version].cellVersion = version
    BY <1>1, <1>3
  <1>7. Chan(m)' = [d EXCEPT !.cellVersion = version]
    BY <1>5 DEF Chan
  <1>8. Tip(m)' = cell
    BY <1>6, <1>7 DEF Tip
  <1> QED BY <1>5, <1>6, <1>7, <1>8, NonEmpty

LEMMA CreatedStep ==
    ASSUME ManagerInv, NEW m \in Matches, NEW ok \in BOOLEAN, CellCreated(m, ok)
    PROVE  ManagerInv' /\ Linked(m)
  <1> DEFINE c == ChannelCell(m, 1, Zero, Body(Chan(m).channel, Chan(m).balanceA, Chan(m).balanceB))
  <1>1. /\ calls[m].pc = "create" /\ kernel' = kernel /\ violations' = violations
        /\ chans' = IF ok THEN [chans EXCEPT ![m][1].live = <<c>>, ![m][1].cellVersion = 1] ELSE chans
        /\ calls' = [calls EXCEPT ![m] = Returned("ok")]
    BY DEF CellCreated
  <1>2. /\ chans[m] # <<>> /\ DOMAIN chans[m] = {1} /\ DOMAIN Chan(m) = ChannelFields
        /\ Chan(m).live = <<>> /\ Chan(m).cellVersion = 0
    BY <1>1 DEF ManagerInv, ChainInv
  <1>3. c.version = 1 /\ c.prev = Zero /\ ChainHeader(m, c)
    BY DEF ChannelCell, WithVersion, NewCell, ChainHeader
  <1> HIDE DEF c
  <1>4. /\ DOMAIN chans = Matches /\ DOMAIN calls' = Matches /\ calls'[m].pc = "returned"
        /\ \A n \in Matches \ {m} : calls'[n] = calls[n]
    BY <1>1 DEF ManagerInv, Returned
  <1>5. CASE ok
    <2>1. /\ DOMAIN chans' = Matches /\ \A n \in Matches \ {m} : chans'[n] = chans[n]
          /\ DOMAIN chans'[m] = {1} /\ DOMAIN Chan(m)' = ChannelFields /\ chans'[m] # <<>>
          /\ Chan(m)'.live = <<c>> /\ Chan(m)'.cellVersion = 1 /\ Tip(m)' = c
      <3>1. chans' = WithLive(m, c, 1)
        BY <1>1, <1>5 DEF WithLive
      <3> QED BY <1>2, <3>1, NewLive
    <2>2. ChainInv(m)'
      BY <1>3, <1>4, <2>1 DEF ChainInv, ChainHeader
    <2>3. Linked(m)
      BY <1>2, <1>3, <2>1 DEF Linked
    <2> QED BY <1>1, <1>2, <1>4, <2>1, <2>2, <2>3, OneChannel
  <1>6. CASE ~ok
    BY <1>1, <1>4, <1>6, QuietChannel
  <1> QED BY <1>5, <1>6

LEMMA TransitionAnsweredStep ==
    ASSUME ManagerInv, NEW m \in Matches, NEW ok \in BOOLEAN, TransitionAnswered(m, ok)
    PROVE  ManagerInv' /\ Linked(m)
  <1>0. PICK cell, version, mode : cell = calls[m].cell /\ version = calls[m].version /\ mode = calls[m].mode
    OBVIOUS
  <1>1. /\ calls[m].pc = "transition" /\ kernel' = kernel /\ violations' = violations
        /\ chans' = IF ok THEN [chans EXCEPT ![m][1].live = <<cell>>, ![m][1].cellVersion = version] ELSE chans
        /\ calls' = [calls EXCEPT ![m] = Returned("ok")]
    BY <1>0 DEF TransitionAnswered
  <1>2. ChainInv(m)
    BY DEF ManagerInv
  <1>3. /\ chans[m] # <<>> /\ DOMAIN chans[m] = {1} /\ DOMAIN Chan(m) = ChannelFields
        /\ Chan(m).live # <<>> /\ Chan(m).cellVersion \in Nat /\ version = Chan(m).cellVersion + 1
        /\ Follows(Tip(m), cell, version, mode)
    BY <1>0, <1>1, <1>2 DEF ChainInv
  <1>4. /\ cell.version = version + (IF mode = "bump-version-double" THEN 1 ELSE 0)
        /\ kernel # "none" => /\ ChainHeader(m, cell) /\ cell.version > Tip(m).version
                              /\ Tip(m).version \in Nat
    BY <1>0, <1>1, <1>2, <1>3 DEF ChainInv, Follows
  <1>5. /\ DOMAIN chans = Matches /\ DOMAIN calls' = Matches /\ calls'[m].pc = "returned"
        /\ \A n \in Matches \ {m} : calls'[n] = calls[n]
    BY <1>1 DEF ManagerInv, Returned
  <1>6. CASE ok
    <2>1. /\ DOMAIN chans' = Matches /\ \A n \in Matches \ {m} : chans'[n] = chans[n]
          /\ DOMAIN chans'[m] = {1} /\ DOMAIN Chan(m)' = ChannelFields /\ chans'[m] # <<>>
          /\ Chan(m)'.live = <<cell>> /\ Chan(m)'.cellVersion = version /\ Tip(m)' = cell
      <3>1. chans' = WithLive(m, cell, version)
        BY <1>1, <1>6 DEF WithLive
      <3> QED BY <1>3, <3>1, NewLive
    <2>2. kernel # "none" =>
             /\ cell.version \in Nat /\ cell.version >= version
             /\ Tip(m).version > Chan(m).cellVersion => cell.version > version
      BY <1>3, <1>4
    <2>3. ChainInv(m)'
      BY <1>1, <1>3, <1>4, <1>5, <2>1, <2>2 DEF ChainInv, ChainHeader
    <2>4. Linked(m)
      BY <1>0, <1>1, <1>3, <2>1 DEF Linked, Tip
    <2> QED BY <1>1, <1>5, <2>1, <2>2, <2>3, <2>4, OneChannel
  <1>7. CASE ~ok
    BY <1>1, <1>5, <1>7, QuietChannel
  <1> QED BY <1>6, <1>7

LEMMA SettledStep ==
    ASSUME ManagerInv, NEW m \in Matches, NEW ok \in BOOLEAN, SettlementAnswered(m, ok)
    PROVE  ManagerInv' /\ Linked(m)
  <1> DEFINE new == settle(confirmClose(requestClose(Chan(m).channel).value).value).value
             out == <<calls[m].out>>
             mid == [chans EXCEPT ![m][1].channel = new]
             d   == [Chan(m) EXCEPT !.channel = new]
  <1>1. /\ calls[m].pc = "settling" /\ kernel' = kernel /\ violations' = violations
        /\ chans' = [mid EXCEPT ![m][1].paid = out]
        /\ calls' = [calls EXCEPT ![m] = Returned("ok")]
    BY DEF SettlementAnswered
  <1>2. /\ chans[m] # <<>> /\ DOMAIN chans[m] = {1} /\ DOMAIN Chan(m) = ChannelFields /\ DOMAIN chans = Matches
    BY <1>1 DEF ManagerInv, ChainInv
  <1> HIDE DEF new, out
  <1>3. /\ DOMAIN mid = Matches /\ \A n \in Matches \ {m} : mid[n] = chans[n]
        /\ DOMAIN mid[m] = {1} /\ mid[m][1] = d
    BY <1>2 DEF Chan
  <1>4. DOMAIN d = ChannelFields /\ d.live = Chan(m).live /\ d.cellVersion = Chan(m).cellVersion
    BY <1>2 DEF ChannelFields
  <1> HIDE DEF mid, d
  <1>5. /\ DOMAIN chans' = Matches /\ \A n \in Matches \ {m} : chans'[n] = chans[n]
        /\ DOMAIN chans'[m] = {1} /\ chans'[m][1] = [d EXCEPT !.paid = out]
    BY <1>1, <1>3
  <1>6. LET e == [d EXCEPT !.paid = out]
        IN  DOMAIN e = ChannelFields /\ e.live = Chan(m).live /\ e.cellVersion = Chan(m).cellVersion
    BY <1>4 DEF ChannelFields
  <1>7. Chan(m)' = [d EXCEPT !.paid = out]
    BY <1>5 DEF Chan
  <1>8. /\ DOMAIN calls' = Matches /\ calls'[m].pc = "returned"
        /\ \A n \in Matches \ {m} : calls'[n] = calls[n]
    BY <1>1 DEF ManagerInv, Returned
  <1> QED BY <1>1, <1>2, <1>5, <1>6, <1>7, <1>8, QuietChannel

LEMMA OtherSteps ==
    ASSUME ManagerInv, NEW m \in Matches, NEW ok \in BOOLEAN,
           \/ settleChannel(m) \/ ViolationAnchored(m, ok) \/ FallbackAnchored(m, ok) \/ WatchlistWritten(m, ok)
           \/ calls[m].pc = "returned" /\ calls' = [calls EXCEPT ![m] = Idle] /\ UNCHANGED <<kernel, chans, violations>>
    PROVE  ManagerInv' /\ Linked(m)
  <1>1. UNCHANGED <<kernel, chans, violations>> /\ DOMAIN chans = Matches /\ DOMAIN calls = Matches
    BY DEF settleChannel, ViolationAnchored, FallbackAnchored, WatchlistWritten, ManagerInv
  <1>2. \E call : /\ calls' = [calls EXCEPT ![m] = call]
                  /\ call.pc \notin {"create", "transition"}
                  /\ call.pc = "settling" => chans[m] # <<>>
    <2>1. CASE settleChannel(m)
      <3> DEFINE call == IF confirmClose(requestClose(Chan(m).channel).value).ok
                         THEN [pc |-> "settling", out |-> Payout(Chan(m).balanceA, Chan(m).balanceB)]
                         ELSE Returned("threw")
      <3>1. calls' = [calls EXCEPT ![m] = call] /\ chans[m] # <<>>
        BY <2>1 DEF settleChannel
      <3>2. call.pc \in {"settling", "returned"}
        BY DEF Returned
      <3> QED BY <3>1, <3>2
    <2>2. CASE ViolationAnchored(m, ok)
      <3> DEFINE a == calls[m].offender
                 next == NextWatch(m, a)
                 passes == next.first \/ validate(kernel, watchlists[a][1].live, next.cell) = "valid"
                 call == IF ~ok THEN [pc |-> "fallback"]
                         ELSE IF passes THEN [pc |-> "watch", offender |-> a, next |-> next]
                         ELSE Returned("threw")
      <3>1. calls' = [calls EXCEPT ![m] = call]
        BY <2>2 DEF ViolationAnchored
      <3>2. call.pc \in {"fallback", "watch", "returned"}
        <4> HIDE DEF passes, next
        <4> QED BY DEF Returned
      <3> QED BY <3>1, <3>2
    <2>3. CASE FallbackAnchored(m, ok)
      <3>1. calls' = [calls EXCEPT ![m] = Returned("threw")] /\ Returned("threw").pc = "returned"
        BY <2>3 DEF FallbackAnchored, Returned
      <3> QED BY <3>1
    <2>4. CASE WatchlistWritten(m, ok)
      <3>1. calls' = [calls EXCEPT ![m] = Returned("threw")] /\ Returned("threw").pc = "returned"
        BY <2>4 DEF WatchlistWritten, Returned
      <3> QED BY <3>1
    <2>5. CASE calls' = [calls EXCEPT ![m] = Idle]
      <3>1. Idle.pc = "idle"
        BY DEF Idle
      <3> QED BY <2>5, <3>1
    <2> QED BY <2>1, <2>2, <2>3, <2>4, <2>5
  <1>3. /\ DOMAIN calls' = Matches /\ \A n \in Matches \ {m} : calls'[n] = calls[n]
        /\ calls'[m].pc \notin {"create", "transition"} /\ (calls'[m].pc = "settling" => chans'[m] # <<>>)
    BY <1>1, <1>2
  <1> QED BY <1>1, <1>3, QuietChannel

\* A bet: refused, held against the bettor, or on its way to the chain.
LEMMA BetStep ==
    ASSUME ManagerInv, NEW m \in Matches, NEW side \in Sides, NEW sats, NEW mode \in {"honest"} \union Tampers,
           recordBet(m, side, sats, mode)
    PROVE  ManagerInv' /\ Linked(m)
  <1> DEFINE c == Chan(m)
             ticked == tick(c.channel, sats)
             to == Moved(c, side, sats)
             base == NextCell(m, c, ticked.value, to)
             cell == applyTamper(base, mode)
             verdict == Verdict(c, cell)
             new == Committed(c, ticked.value, to, cell)
             call == IF c.live = <<>> THEN Returned("ok")
                     ELSE [pc |-> "transition", cell |-> cell, version |-> c.cellVersion + 1, mode |-> mode]
             entry == [match |-> m, offender |-> AgentOf[m][side], mode |-> mode]
  <1>1. /\ chans[m] # <<>> /\ kernel' = kernel
        /\ \/ calls' = [calls EXCEPT ![m] = Returned("threw")] /\ UNCHANGED <<chans, violations>>
           \/ /\ verdict = "invalid"
              /\ calls' = [calls EXCEPT ![m] = [pc |-> "violation", offender |-> AgentOf[m][side]]]
              /\ violations' = Append(violations, entry) /\ UNCHANGED chans
           \/ /\ verdict \in {"unchecked", "valid"}
              /\ chans' = [chans EXCEPT ![m] = <<new>>]
              /\ calls' = [calls EXCEPT ![m] = call] /\ UNCHANGED violations
    BY DEF recordBet
  <1>2. /\ DOMAIN chans[m] = {1} /\ DOMAIN c = ChannelFields /\ c.cellVersion \in Nat
        /\ c.live # <<>> /\ kernel # "none" =>
              ChainHeader(m, c.live[1]) /\ c.live[1].version \in Nat /\ c.live[1].version >= c.cellVersion
    BY <1>1 DEF ManagerInv, ChainInv, Tip
  <1>3. DOMAIN chans = Matches /\ DOMAIN calls = Matches
    BY DEF ManagerInv
  <1>4. /\ DOMAIN new = ChannelFields /\ new.live = c.live /\ new.cellVersion = c.cellVersion
    <2> HIDE DEF c, ticked, to, cell
    <2> QED BY <1>2 DEF Committed, ChannelFields
  <1>5. c.live # <<>> =>
            /\ base.version = c.cellVersion + 1 /\ base.prev = sha256(c.live[1]) /\ ChainHeader(m, base)
            /\ mode = "honest" => cell = base
            /\ cell.version = c.cellVersion + 1 + (IF mode = "bump-version-double" THEN 1 ELSE 0)
            /\ cell.prev = IF mode = "break-prev-hash" THEN Overwritten ELSE sha256(c.live[1])
    <2> HIDE DEF c, ticked, to
    <2> QED BY <1>2, BetCell
  <1>6. /\ verdict = "invalid" => kernel # "none" /\ c.live # <<>> /\ ~HeadersContinue(c.live[1], cell)
        /\ verdict = "valid" => HeadersContinue(c.live[1], cell)
        /\ verdict = "unchecked" => kernel = "none" \/ c.live = <<>>
    <2> HIDE DEF c, ticked, to, cell
    <2> QED BY DEF Verdict, validate
  <1>7. /\ call.pc \in {"returned", "transition"} /\ (call.pc = "transition" => c.live # <<>>)
        /\ call.pc = "transition" => call.cell = cell /\ call.version = c.cellVersion + 1 /\ call.mode = mode
    <2> HIDE DEF c, cell
    <2> QED BY DEF Returned
  <1> HIDE DEF ticked, to, base, cell, verdict, new, call, entry
  <1>8. CASE calls' = [calls EXCEPT ![m] = Returned("threw")] /\ UNCHANGED <<chans, violations>>
    <2>1. Returned("threw").pc = "returned"
      BY DEF Returned
    <2>2. DOMAIN calls' = Matches /\ calls'[m].pc = "returned" /\ \A n \in Matches \ {m} : calls'[n] = calls[n]
      BY <1>3, <1>8, <2>1
    <2> QED BY <1>1, <1>3, <1>8, <2>2, QuietChannel
  <1>9. CASE /\ verdict = "invalid"
             /\ calls' = [calls EXCEPT ![m] = [pc |-> "violation", offender |-> AgentOf[m][side]]]
             /\ violations' = Append(violations, entry) /\ UNCHANGED chans
    <2>1. DOMAIN calls' = Matches /\ calls'[m].pc = "violation" /\ \A n \in Matches \ {m} : calls'[n] = calls[n]
      BY <1>3, <1>9
    <2>2. entry \in Violation /\ entry.match = m /\ entry.mode = mode
      <3>1. AgentOf[m][side] \in Agents
        BY DEF Agents
      <3> QED BY <3>1, ChannelAssumption DEF entry, Violation, ChannelAssumption
    <2>3. mode = "honest" => c.live[1].version > c.cellVersion
      <3>1. SUFFICES ASSUME mode = "honest" PROVE ~(c.cellVersion + 1 > c.live[1].version)
        BY <1>2, <1>6, <1>9
      <3>2. ~HeadersContinue(c.live[1], base) /\ ChainHeader(m, base) /\ ChainHeader(m, c.live[1])
            /\ base.prev = sha256(c.live[1]) /\ base.version = c.cellVersion + 1
        BY <1>2, <1>5, <1>6, <1>9, <3>1
      <3>3. sha256(c.live[1]) # Zero
        BY DEF sha256, Zero
      <3> QED BY <3>2, <3>3 DEF HeadersContinue, ChainHeader
    <2>4. Accused(entry)'
      BY <1>1, <1>6, <1>9, <2>2, <2>3 DEF Accused, AccusedIn, Chan
    <2>5. ChainInv(m)
      BY DEF ManagerInv
    <2>6. ChainInv(m)'
      BY <1>1, <1>9, <2>1, <2>5 DEF ChainInv, Chan, Tip
    <2>7. Linked(m)
      BY <1>9 DEF Linked, Chan
    <2>8. \A n \in Matches \ {m} : chans'[n] = chans[n] /\ calls'[n] = calls[n]
      BY <1>9, <2>1
    <2>9. \E v \in Violation : violations' = Append(violations, v) /\ v.match = m /\ Accused(v)'
      BY <1>9, <2>2, <2>4
    <2>10. Chan(m)' = Chan(m) /\ Tip(m)' = Tip(m) /\ chans' = chans
      BY <1>9 DEF Chan, Tip
    <2> QED BY <1>1, <1>3, <2>1, <2>6, <2>7, <2>8, <2>9, <2>10, OneChannel
  <1>10. CASE /\ verdict \in {"unchecked", "valid"}
              /\ chans' = [chans EXCEPT ![m] = <<new>>]
              /\ calls' = [calls EXCEPT ![m] = call] /\ UNCHANGED violations
    <2>1. /\ DOMAIN chans' = Matches /\ DOMAIN calls' = Matches /\ calls'[m] = call /\ chans'[m] = <<new>>
          /\ \A n \in Matches \ {m} : chans'[n] = chans[n] /\ calls'[n] = calls[n]
      BY <1>3, <1>10
    <2>2. Chan(m)' = new /\ DOMAIN chans'[m] = {1} /\ chans'[m] # <<>> /\ (c.live # <<>> => Tip(m)' = c.live[1])
      BY <1>4, <2>1 DEF Chan, Tip
    <2>3. c.live # <<>> /\ kernel # "none" => ChainHeader(m, cell) /\ cell.version > c.live[1].version
      BY <1>2, <1>6, <1>10 DEF HeadersContinue, ChainHeader
    <2>4. ChainInv(m)'
      <3>1. /\ calls'[m].pc = "transition" => /\ c.live # <<>> /\ calls'[m].cell = cell
                                               /\ calls'[m].version = c.cellVersion + 1 /\ calls'[m].mode = mode
            /\ calls'[m].pc \in {"returned", "transition"}
        BY <1>7, <2>1
      <3>2. c.live # <<>> /\ kernel = "full" => HeadersContinue(c.live[1], cell)
        BY <1>6, <1>10
      <3> HIDE DEF c
      <3>3. calls'[m].pc = "transition" => Follows(Tip(m), calls[m].cell, calls[m].version, calls[m].mode)'
        BY <1>1, <1>5, <2>2, <3>1, <3>2 DEF Follows
      <3> QED BY <1>1, <1>2, <1>4, <1>5, <2>2, <2>3, <3>1, <3>3 DEF ChainInv
    <2>5. Linked(m)
      BY <1>4, <2>2 DEF Linked
    <2>6. Chan(m)'.live = Chan(m).live /\ Chan(m)'.cellVersion = Chan(m).cellVersion
          /\ (Chan(m).live # <<>> => Tip(m)' = Tip(m))
      BY <1>4, <2>2 DEF Tip
    <2> QED BY <1>1, <1>10, <2>1, <2>2, <2>4, <2>5, <2>6, OneChannel
  <1> QED BY <1>1, <1>8, <1>9, <1>10

LEMMA ChannelStepInv ==
    ASSUME ManagerInv, NEW m \in Matches, ChannelStep(m)
    PROVE  ManagerInv' /\ Linked(m)
  <1>1. TRUE \in BOOLEAN
    OBVIOUS
  <1> QED BY <1>1, OpenStep, BetStep, CreatedStep, TransitionAnsweredStep, SettledStep, OtherSteps
          DEF ChannelStep, ManagerAnswers

LEMMA ManagerInitInv == Init => ManagerInv
  BY DEF Init, ChannelInit, ManagerInv, ChainInv, Idle

LEMMA ManagerNextInv == LoopTypeOK /\ ManagerInv /\ [Next]_vars => ManagerInv'
  <1> SUFFICES ASSUME LoopTypeOK, ManagerInv, [Next]_vars PROVE ManagerInv'
    OBVIOUS
  <1>1. ASSUME UNCHANGED <<kernel, chans, calls, violations>> PROVE ManagerInv'
    BY <1>1 DEF ManagerInv, ChainInv, Follows, Chan, Tip, Accused
  <1> QED BY <1>1, ManagerSteps, ChannelStepInv DEF Unmanaged

\* Every honest bet the kernel refused was refused for a tampered version that it had let through.
THEOREM HonestAccusedAfterTampering == Spec => []AccusedTampered
  <1>1. ManagerInv => AccusedTampered
    BY DEF ManagerInv, Accused, AccusedIn, AccusedTampered, Chan
  <1>2. LoopInv => LoopTypeOK
    BY DEF LoopInv
  <1> QED BY <1>1, <1>2, LoopInitInv, LoopNextInv, ManagerInitInv, ManagerNextInv, PTL DEF Spec

\* Every new live cell of a channel carries the version that is kept and the hash of the cell it
\* replaces, but for what its own bet had tampered with, and a full kernel passes none that does not
\* continue it: whatever was rejected or lost, and however the calls of different channels interleave.
THEOREM ChannelChainsLinked == Spec => ChannelChainLinked
  <1>1. ASSUME LoopTypeOK, ManagerInv, [Next]_vars
        PROVE  \A m \in Matches : Linked(m)
    <2>1. ASSUME NEW n \in Matches, chans'[n] = chans[n] PROVE Linked(n)
      BY <2>1 DEF Linked, Chan
    <2>2. ASSUME NEW m \in Matches, ChannelStep(m), NEW n \in Matches \ {m} PROVE chans'[n] = chans[n]
      <3>1. DOMAIN chans = Matches
        BY <1>1 DEF ManagerInv
      <3>2. ASSUME NEW ok \in BOOLEAN, openChannel(m, ok) \/ CellCreated(m, ok) \/ TransitionAnswered(m, ok) PROVE chans'[n] = chans[n]
        BY <3>1, <3>2 DEF openChannel, CellCreated, TransitionAnswered
      <3>3. ASSUME NEW ok \in BOOLEAN, SettlementAnswered(m, ok) PROVE chans'[n] = chans[n]
        BY <3>1, <3>3 DEF SettlementAnswered
      <3>4. ASSUME NEW side \in Sides, NEW sats, NEW mode \in {"honest"} \union Tampers, recordBet(m, side, sats, mode)
            PROVE  chans'[n] = chans[n]
        <4>1. chans' = chans \/ \E c : chans' = [chans EXCEPT ![m] = c]
          BY <3>4 DEF recordBet
        <4> QED BY <3>1, <4>1
      <3>5. ASSUME NEW ok \in BOOLEAN, ViolationAnchored(m, ok) \/ FallbackAnchored(m, ok) \/ WatchlistWritten(m, ok)
            PROVE  chans' = chans
        BY <3>5 DEF ViolationAnchored, FallbackAnchored, WatchlistWritten
      <3>6. settleChannel(m) => chans' = chans
        BY DEF settleChannel
      <3> QED BY <2>2, <3>2, <3>3, <3>4, <3>5, <3>6 DEF ChannelStep, ManagerAnswers
    <2> QED BY <1>1, <2>1, <2>2, ManagerSteps, ChannelStepInv DEF Unmanaged
  <1>2. LoopInv => LoopTypeOK
    BY DEF LoopInv
  <1> QED BY <1>1, <1>2, LoopInitInv, LoopNextInv, ManagerInitInv, ManagerNextInv, PTL DEF Spec, ChannelChainLinked, Linked
-------------------------------------------------------------------------------
(* The watchlists: no hit without a violation, and without guests, lost       *)
(* broadcasts and a partial kernel, a hit for every violation.                *)

Hits(a) == IF watchlists[a] = <<>> THEN 0 ELSE watchlists[a][1].hits

\* The calls that hold a violation against an agent and have not written its watchlist yet.
PendingIn(cs, a) == {m \in Matches : cs[m].pc \in {"violation", "watch"} /\ cs[m].offender = a}
Pending(a) == PendingIn(calls, a)

HeldIn(vs, a) == Cardinality({i \in DOMAIN vs : vs[i].offender = a})

\* The header every cell of a watchlist has.
WatchHeader(a, c) == c.magic /\ c.linearity = "LINEAR" /\ c.type = "watchlist" /\ c.owner = a

WatchInv(a) ==
    /\ Hits(a) \in Nat /\ Hits(a) + Cardinality(Pending(a)) <= Held(a)
    /\ watchlists[a] # <<>> =>
          LET w == watchlists[a][1]
          IN  w.version = w.hits /\ w.live.version = w.hits /\ WatchHeader(a, w.live)

NextInv(m) ==
    /\ calls[m].pc \in {"violation", "watch"} => calls[m].offender \in Agents
    /\ calls[m].pc = "watch" =>
          LET a == calls[m].offender
              w == calls[m].next
          IN  /\ w.hits \in Nat \ {0} /\ w.hits + Cardinality(Pending(a) \ {m}) <= Held(a)
              /\ w.cell.version = w.hits /\ WatchHeader(a, w.cell)

\* With no guest, under a full kernel and as long as no broadcast failed, every violation is counted.
Counted(a) ==
    LET c == calls[match]
    IN  /\ c.pc = "violation" /\ c.offender = a => Hits(a) + 1 = Held(a)
        /\ c.pc = "watch" /\ c.offender = a =>
              c.next.hits = Held(a) /\ (c.next.first \/ c.next.opener = watchlists[a][1].opener)
        /\ ~(c.pc \in {"violation", "watch"} /\ c.offender = a) => Hits(a) = Held(a)

AloneInv == GuestBets = 0 /\ kernel = "full" /\ faults = 0 => \A a \in Agents : Counted(a)

WatchlistInv ==
    /\ DOMAIN watchlists = Agents /\ faults \in Nat
    /\ \A a \in Agents : WatchInv(a)
    /\ \A m \in Matches : NextInv(m)
    /\ AloneInv

LEMMA Counts ==
    /\ \A cs, a : IsFiniteSet(PendingIn(cs, a)) /\ Cardinality(PendingIn(cs, a)) \in Nat
    /\ \A a : \A vs \in Seq(Violation) : HeldIn(vs, a) \in Nat
    /\ \A a : \A vs \in Seq(Violation), v \in Violation :
          HeldIn(Append(vs, v), a) = HeldIn(vs, a) + (IF v.offender = a THEN 1 ELSE 0)
  <1>1. ASSUME NEW cs, NEW a PROVE IsFiniteSet(PendingIn(cs, a)) /\ Cardinality(PendingIn(cs, a)) \in Nat
    <2>1. PendingIn(cs, a) \subseteq Matches /\ IsFiniteSet(Matches)
      BY ChannelAssumption DEF PendingIn, ChannelAssumption
    <2> QED BY <2>1, FS_Subset, FS_CardinalityType
  <1>2. ASSUME NEW vs \in Seq(Violation), NEW a
        PROVE  /\ IsFiniteSet({i \in DOMAIN vs : vs[i].offender = a}) /\ HeldIn(vs, a) \in Nat
               /\ \A v \in Violation :
                     HeldIn(Append(vs, v), a) = HeldIn(vs, a) + (IF v.offender = a THEN 1 ELSE 0)
    <2> DEFINE H(s) == {i \in DOMAIN s : s[i].offender = a}
    <2>1. DOMAIN vs = 1..Len(vs) /\ Len(vs) \in Nat
      OBVIOUS
    <2>2. IsFiniteSet(1..Len(vs))
      BY <2>1, FS_Interval
    <2>3. H(vs) \subseteq 1..Len(vs)
      BY <2>1
    <2>4. IsFiniteSet(H(vs))
      BY <2>2, <2>3, FS_Subset
    <2>5. HeldIn(vs, a) \in Nat
      BY <2>4, FS_CardinalityType DEF HeldIn
    <2>6. ASSUME NEW v \in Violation
          PROVE  HeldIn(Append(vs, v), a) = HeldIn(vs, a) + (IF v.offender = a THEN 1 ELSE 0)
      <3>1. /\ DOMAIN Append(vs, v) = 1..(Len(vs) + 1)
            /\ \A i \in 1..Len(vs) : Append(vs, v)[i] = vs[i]
            /\ Append(vs, v)[Len(vs) + 1] = v
        BY <2>1
      <3>2. H(Append(vs, v)) = IF v.offender = a THEN H(vs) \cup {Len(vs) + 1} ELSE H(vs)
        <4>1. ASSUME NEW i PROVE i \in 1..(Len(vs) + 1) <=> i \in 1..Len(vs) \/ i = Len(vs) + 1
          BY <2>1
        <4>2. ASSUME NEW i
              PROVE  i \in H(Append(vs, v)) <=> i \in (IF v.offender = a THEN H(vs) \cup {Len(vs) + 1} ELSE H(vs))
          <5>1. CASE i \in 1..Len(vs)
            <6>1. i # Len(vs) + 1
              BY <2>1, <5>1
            <6> QED BY <2>1, <3>1, <4>1, <5>1, <6>1
          <5>2. CASE i = Len(vs) + 1
            <6>1. i \notin 1..Len(vs)
              BY <2>1, <5>2
            <6> QED BY <2>1, <3>1, <4>1, <5>2, <6>1
          <5>3. CASE i \notin 1..(Len(vs) + 1)
            BY <2>1, <3>1, <4>1, <5>3
          <5> QED BY <4>1, <5>1, <5>2, <5>3
        <4> HIDE DEF H
        <4> QED BY <4>2
      <3>3. Len(vs) + 1 \notin H(vs)
        <4>1. Len(vs) + 1 \notin 1..Len(vs)
          BY <2>1
        <4> QED BY <2>3, <4>1
      <3> HIDE DEF H
      <3>4. Cardinality(H(vs) \cup {Len(vs) + 1}) = Cardinality(H(vs)) + 1
        BY <2>4, <3>3, FS_AddElement
      <3>5. HeldIn(Append(vs, v), a) = Cardinality(H(Append(vs, v))) /\ HeldIn(vs, a) = Cardinality(H(vs))
        BY DEF HeldIn, H
      <3> QED BY <2>5, <3>2, <3>4, <3>5
    <2> QED BY <2>4, <2>5, <2>6
  <1> QED BY <1>1, <1>2

LEMMA FewerPending ==
    ASSUME NEW S, NEW T, IsFiniteSet(T), S \subseteq T
    PROVE  Cardinality(S) \in Nat /\ Cardinality(T) \in Nat /\ Cardinality(S) <= Cardinality(T)
  BY FS_Subset, FS_CardinalityType

\* How a call moves between the violation it holds and the watchlist it writes.
Passes(a, next) == next.first \/ validate(kernel, watchlists[a][1].live, next.cell) = "valid"
Stored(a, w) == w.first \/ watchlists[a][1].opener = w.opener

Drops(m) ==
    /\ calls'[m].pc \notin {"violation", "watch"} /\ UNCHANGED <<watchlists, violations>>
    /\ calls[m].pc = "violation" => faults' = faults + 1 \/ ~Passes(calls[m].offender, NextWatch(m, calls[m].offender))
    /\ calls[m].pc = "watch" => faults' = faults + 1 \/ ~Stored(calls[m].offender, calls[m].next)

Holds(m) ==
    /\ calls[m] = Idle /\ UNCHANGED watchlists
    /\ \E v \in Violation : /\ violations' = Append(violations, v)
                            /\ calls'[m] = [pc |-> "violation", offender |-> v.offender]

Reads(m) ==
    LET a == calls[m].offender
        next == NextWatch(m, a)
    IN  /\ calls[m].pc = "violation" /\ UNCHANGED <<watchlists, violations>>
        /\ Passes(a, next)
        /\ calls'[m] = [pc |-> "watch", offender |-> a, next |-> next]

Writes(m) ==
    LET a == calls[m].offender
        w == calls[m].next
    IN  /\ calls[m].pc = "watch" /\ calls'[m].pc = "returned" /\ UNCHANGED violations
        /\ watchlists' = [watchlists EXCEPT ![a] = <<[opener |-> w.opener, hits |-> w.hits,
                                                      version |-> w.cell.version, live |-> w.cell,
                                                      txid |-> Len(written[a]) + 1]>>]

LEMMA WatchSteps ==
    ASSUME ManagerInv, faults \in Nat, NEW m \in Matches, ChannelStep(m)
    PROVE  /\ kernel' = kernel /\ faults' \in {faults, faults + 1}
           /\ \A n \in Matches \ {m} : calls'[n] = calls[n]
           /\ Drops(m) \/ Holds(m) \/ Reads(m) \/ Writes(m)
  <1>1. DOMAIN calls = Matches
    BY DEF ManagerInv
  <1>2. ASSUME NEW ok \in BOOLEAN, Answer(ok)
        PROVE  faults' \in {faults, faults + 1} /\ (~ok => faults' = faults + 1)
    BY <1>2 DEF Answer
  <1>3. Returned("ok").pc = "returned" /\ Returned("threw").pc = "returned" /\ Idle.pc = "idle"
    BY DEF Returned, Idle
  <1>4. ASSUME NEW ok \in BOOLEAN, openChannel(m, ok) PROVE Answer(ok) /\ kernel' = kernel /\ Drops(m)
                                                          /\ \A n \in Matches \ {m} : calls'[n] = calls[n]
    <2>1. /\ Answer(ok) /\ kernel' = kernel /\ UNCHANGED <<watchlists, violations>> /\ calls[m] = Idle
          /\ \/ calls' = [calls EXCEPT ![m] = [pc |-> "create"]]
             \/ calls' = [calls EXCEPT ![m] = Returned("threw")]
      BY <1>4 DEF openChannel
    <2> QED BY <1>1, <1>3, <2>1 DEF Drops
  <1>5. ASSUME NEW ok \in BOOLEAN, CellCreated(m, ok) \/ TransitionAnswered(m, ok) \/ FallbackAnchored(m, ok)
                                   \/ SettlementAnswered(m, ok)
        PROVE  /\ Answer(ok) /\ kernel' = kernel /\ Drops(m)
               /\ \A n \in Matches \ {m} : calls'[n] = calls[n]
    <2>1. /\ Answer(ok) /\ kernel' = kernel /\ UNCHANGED <<watchlists, violations>>
          /\ calls[m].pc \in {"create", "transition", "fallback", "settling"}
          /\ \/ calls' = [calls EXCEPT ![m] = Returned("ok")]
             \/ calls' = [calls EXCEPT ![m] = Returned("threw")]
      BY <1>5 DEF CellCreated, TransitionAnswered, FallbackAnchored, SettlementAnswered
    <2> QED BY <1>1, <1>3, <2>1 DEF Drops
  <1>6. ASSUME NEW ok \in BOOLEAN, ViolationAnchored(m, ok)
        PROVE  /\ Answer(ok) /\ kernel' = kernel /\ (Drops(m) \/ Reads(m))
               /\ \A n \in Matches \ {m} : calls'[n] = calls[n]
    <2> DEFINE a == calls[m].offender
               next == NextWatch(m, a)
    <2>1. /\ Answer(ok) /\ kernel' = kernel /\ UNCHANGED <<watchlists, violations>> /\ calls[m].pc = "violation"
          /\ calls' = [calls EXCEPT ![m] =
                          IF ~ok THEN [pc |-> "fallback"]
                          ELSE IF Passes(a, next) THEN [pc |-> "watch", offender |-> a, next |-> next]
                          ELSE Returned("threw")]
      BY <1>6 DEF ViolationAnchored, Passes
    <2>2. ~ok => faults' = faults + 1
      BY <1>2, <2>1
    <2>3. \A n \in Matches \ {m} : calls'[n] = calls[n]
      BY <1>1, <2>1
    <2> HIDE DEF next
    <2>4. CASE ~ok \/ ~Passes(a, next)
      <3>1. calls'[m].pc \in {"fallback", "returned"}
        BY <1>1, <1>3, <2>1, <2>4
      <3> QED BY <2>1, <2>2, <2>3, <2>4, <3>1 DEF Drops, next
    <2>5. CASE ok /\ Passes(a, next)
      <3>1. calls'[m] = [pc |-> "watch", offender |-> a, next |-> next]
        BY <1>1, <2>1, <2>5
      <3> QED BY <2>1, <2>3, <2>5, <3>1 DEF Reads, next
    <2> QED BY <2>4, <2>5
  <1>7. ASSUME NEW ok \in BOOLEAN, WatchlistWritten(m, ok)
        PROVE  /\ Answer(ok) /\ kernel' = kernel /\ (Drops(m) \/ Writes(m))
               /\ \A n \in Matches \ {m} : calls'[n] = calls[n]
    <2> DEFINE a == calls[m].offender
               w == calls[m].next
               moved == [opener |-> w.opener, hits |-> w.hits, version |-> w.cell.version, live |-> w.cell,
                         txid |-> Len(written[a]) + 1]
    <2>1. /\ Answer(ok) /\ kernel' = kernel /\ UNCHANGED violations /\ calls[m].pc = "watch"
          /\ watchlists' = (IF ok /\ Stored(a, w) THEN [watchlists EXCEPT ![a] = <<moved>>] ELSE watchlists)
          /\ calls' = [calls EXCEPT ![m] = Returned("threw")]
      BY <1>7 DEF WatchlistWritten, Stored
    <2>2. ~ok => faults' = faults + 1
      BY <1>2, <2>1
    <2>3. calls'[m].pc = "returned" /\ \A n \in Matches \ {m} : calls'[n] = calls[n]
      BY <1>1, <1>3, <2>1
    <2> HIDE DEF moved
    <2>4. CASE ok /\ Stored(a, w)
      BY <2>1, <2>3, <2>4 DEF Writes, moved
    <2>5. CASE ~(ok /\ Stored(a, w))
      BY <2>1, <2>2, <2>3, <2>5 DEF Drops
    <2> QED BY <2>1, <2>3, <2>4, <2>5
  <1>8. ASSUME NEW side \in Sides, NEW sats, NEW mode \in {"honest"} \union Tampers, recordBet(m, side, sats, mode)
        PROVE  /\ faults' = faults /\ kernel' = kernel /\ (Drops(m) \/ Holds(m))
               /\ \A n \in Matches \ {m} : calls'[n] = calls[n]
    <2> DEFINE v == [match |-> m, offender |-> AgentOf[m][side], mode |-> mode]
    <2>1. /\ faults' = faults /\ kernel' = kernel /\ calls[m] = Idle /\ UNCHANGED watchlists
          /\ \/ calls' = [calls EXCEPT ![m] = Returned("threw")] /\ UNCHANGED violations
             \/ /\ calls' = [calls EXCEPT ![m] = [pc |-> "violation", offender |-> AgentOf[m][side]]]
                /\ violations' = Append(violations, v)
             \/ /\ UNCHANGED violations
                /\ \E cell, version : calls' = [calls EXCEPT ![m] = IF Chan(m).live = <<>> THEN Returned("ok")
                                                 ELSE [pc |-> "transition", cell |-> cell, version |-> version,
                                                                             mode |-> mode]]
      BY <1>8 DEF recordBet
    <2>2. v \in Violation /\ v.offender = AgentOf[m][side]
      <3>1. AgentOf[m][side] \in Agents
        BY DEF Agents
      <3> QED BY <3>1, ChannelAssumption DEF Violation, ChannelAssumption
    <2> HIDE DEF v
    <2>3. CASE calls' = [calls EXCEPT ![m] = Returned("threw")] /\ UNCHANGED violations
      BY <1>1, <1>3, <2>1, <2>3 DEF Drops
    <2>4. CASE /\ calls' = [calls EXCEPT ![m] = [pc |-> "violation", offender |-> AgentOf[m][side]]]
               /\ violations' = Append(violations, v)
      BY <1>1, <2>1, <2>2, <2>4 DEF Holds
    <2>5. CASE /\ UNCHANGED violations
               /\ \E cell, version : calls' = [calls EXCEPT ![m] = IF Chan(m).live = <<>> THEN Returned("ok")
                                                ELSE [pc |-> "transition", cell |-> cell, version |-> version,
                                                                            mode |-> mode]]
      BY <1>1, <1>3, <2>1, <2>5 DEF Drops
    <2> QED BY <2>1, <2>3, <2>4, <2>5
  <1>9. ASSUME settleChannel(m) PROVE /\ faults' = faults /\ kernel' = kernel /\ Drops(m)
                                     /\ \A n \in Matches \ {m} : calls'[n] = calls[n]
    <2>1. /\ faults' = faults /\ kernel' = kernel /\ calls[m] = Idle /\ UNCHANGED <<watchlists, violations>>
          /\ \E out : calls' = [calls EXCEPT ![m] = IF confirmClose(requestClose(Chan(m).channel).value).ok
                                                    THEN [pc |-> "settling", out |-> out] ELSE Returned("threw")]
      BY <1>9 DEF settleChannel
    <2> QED BY <1>1, <1>3, <2>1 DEF Drops
  <1>10. ASSUME calls[m].pc = "returned", calls' = [calls EXCEPT ![m] = Idle],
                UNCHANGED <<kernel, chans, watchlists, violations, written, faults>>
         PROVE  Drops(m) /\ \A n \in Matches \ {m} : calls'[n] = calls[n]
    BY <1>1, <1>3, <1>10 DEF Drops
  <1> DEFINE Shown == /\ kernel' = kernel /\ faults' \in {faults, faults + 1}
                      /\ \A n \in Matches \ {m} : calls'[n] = calls[n]
                      /\ Drops(m) \/ Holds(m) \/ Reads(m) \/ Writes(m)
  <1>11. ASSUME NEW ok \in BOOLEAN,
                \/ openChannel(m, ok) \/ CellCreated(m, ok) \/ TransitionAnswered(m, ok) \/ FallbackAnchored(m, ok)
                \/ SettlementAnswered(m, ok) \/ ViolationAnchored(m, ok) \/ WatchlistWritten(m, ok)
         PROVE  Shown
    <2>1. /\ Answer(ok) /\ kernel' = kernel /\ (Drops(m) \/ Reads(m) \/ Writes(m))
          /\ \A n \in Matches \ {m} : calls'[n] = calls[n]
      BY <1>4, <1>5, <1>6, <1>7, <1>11
    <2>2. faults' \in {faults, faults + 1}
      BY <1>2, <2>1
    <2> QED BY <2>1, <2>2
  <1>12. ASSUME NEW side \in Sides, NEW sats, NEW mode \in {"honest"} \union Tampers, recordBet(m, side, sats, mode)
         PROVE  Shown
    BY <1>8, <1>12
  <1>13. ASSUME settleChannel(m) PROVE Shown
    BY <1>9, <1>13
  <1>14. ASSUME calls[m].pc = "returned", calls' = [calls EXCEPT ![m] = Idle],
                UNCHANGED <<kernel, chans, watchlists, violations, written, faults>>
         PROVE  Shown
    BY <1>10, <1>14
  <1> HIDE DEF Shown
  <1>15. Shown
    BY <1>11, <1>12, <1>13, <1>14 DEF ChannelStep, ManagerAnswers
  <1> QED BY <1>15 DEF Shown

\* What the next cell of a watchlist is: a full kernel passes it.
LEMMA NextWatchFacts ==
    ASSUME NEW a, WatchInv(a), NEW m
    PROVE  LET next == NextWatch(m, a)
           IN  /\ next.hits = Hits(a) + 1 /\ next.cell.version = next.hits /\ WatchHeader(a, next.cell)
               /\ next.first \/ (watchlists[a] # <<>> /\ next.opener = watchlists[a][1].opener)
               /\ kernel = "full" => Passes(a, next)
  <1> DEFINE next == NextWatch(m, a)
  <1>1. \A version, prev, hits : LET c == WatchlistCell(a, version, prev, hits)
                                 IN  c.version = version /\ c.prev = prev /\ WatchHeader(a, c)
    BY DEF WatchlistCell, WithVersion, NewCell, WatchHeader
  <1>2. CASE watchlists[a] = <<>>
    <2>1. next.first /\ next.hits = 1 /\ next.cell = WatchlistCell(a, 1, Zero, 1) /\ Hits(a) = 0
      BY <1>2 DEF NextWatch, Hits
    <2> HIDE DEF next
    <2> QED BY <1>1, <2>1 DEF Passes, next
  <1>3. CASE watchlists[a] # <<>>
    <2> DEFINE w == watchlists[a][1]
    <2>1. w.version = w.hits /\ w.live.version = w.hits /\ WatchHeader(a, w.live) /\ w.hits \in Nat /\ Hits(a) = w.hits
      BY <1>3 DEF WatchInv, Hits
    <2>2. /\ next.opener = w.opener /\ next.hits = w.hits + 1
          /\ next.cell = WatchlistCell(a, w.version + 1, sha256(w.live), w.hits + 1)
      BY <1>3 DEF NextWatch
    <2> HIDE DEF next, w
    <2>3. next.cell.version = w.hits + 1 /\ next.cell.prev = sha256(w.live) /\ WatchHeader(a, next.cell)
      BY <1>1, <2>1, <2>2
    <2>4. sha256(w.live) # Zero
      BY DEF sha256, Zero
    <2>5. HeadersContinue(w.live, next.cell)
      BY <2>1, <2>3, <2>4 DEF HeadersContinue, WatchHeader
    <2>6. kernel = "full" => validate(kernel, w.live, next.cell) = "valid"
      BY <2>5 DEF validate
    <2> QED BY <1>3, <2>1, <2>2, <2>3, <2>6 DEF Passes, next, w
  <1> QED BY <1>2, <1>3

LEMMA HeldNames == \A a : Held(a) = HeldIn(violations, a)
  BY DEF Held, HeldIn

\* The hits and the violations of the next state, from those of this one.
LEMMA Kept ==
    ASSUME UNCHANGED <<watchlists, violations>>
    PROVE  \A a : Hits(a)' = Hits(a) /\ Held(a)' = Held(a)
  BY DEF Hits, Held

\* Writing or giving up: fewer calls are pending.
LEMMA DropsInv ==
    ASSUME ManagerInv, WatchlistInv, NEW m \in Matches, Drops(m), GuestBets = 0 => m = match, setting' = setting,
           kernel' = kernel, faults' \in {faults, faults + 1}, \A n \in Matches \ {m} : calls'[n] = calls[n]
    PROVE  WatchlistInv'
  <1>1. \A a : Hits(a)' = Hits(a) /\ Held(a)' = Held(a) /\ watchlists' = watchlists
    BY Kept DEF Drops
  <1>2. ASSUME NEW a
        PROVE  /\ Pending(a)' \subseteq Pending(a)
               /\ \A n \in Matches : /\ Cardinality(Pending(a)' \ {n}) <= Cardinality(Pending(a) \ {n})
                                     /\ Cardinality(Pending(a)' \ {n}) \in Nat /\ Cardinality(Pending(a) \ {n}) \in Nat
               /\ Cardinality(Pending(a)') <= Cardinality(Pending(a))
               /\ Cardinality(Pending(a)') \in Nat /\ Cardinality(Pending(a)) \in Nat
    <2>1. Pending(a)' \subseteq Pending(a)
      <3>1. Pending(a)' = PendingIn(calls', a)
        BY DEF Pending, PendingIn
      <3> QED BY <3>1 DEF Pending, PendingIn, Drops
    <2>2. IsFiniteSet(Pending(a))
      BY Counts DEF Pending
    <2>3. \A n : IsFiniteSet(Pending(a) \ {n}) /\ Pending(a)' \ {n} \subseteq Pending(a) \ {n}
      BY <2>1, <2>2, FS_Subset
    <2> QED BY <2>1, <2>2, <2>3, FewerPending
  <1>3. ASSUME NEW a \in Agents PROVE WatchInv(a)'
    <2>1. WatchInv(a) /\ Held(a) \in Nat
      BY Counts, HeldNames DEF WatchlistInv, ManagerInv
    <2>2. /\ Cardinality(Pending(a)') \in Nat /\ Cardinality(Pending(a)) \in Nat
          /\ Cardinality(Pending(a)') <= Cardinality(Pending(a))
      BY <1>2
    <2>3. Hits(a) \in Nat /\ Hits(a) + Cardinality(Pending(a)) <= Held(a)
      BY <2>1 DEF WatchInv
    <2>4. Hits(a) + Cardinality(Pending(a)') <= Held(a)
      BY <2>1, <2>2, <2>3
    <2> QED BY <1>1, <2>1, <2>4 DEF WatchInv
  <1>4. ASSUME NEW n \in Matches PROVE NextInv(n)'
    <2>1. CASE n = m
      BY <2>1 DEF NextInv, Drops
    <2>2. CASE n # m
      <3>1. calls'[n] = calls[n] /\ NextInv(n)
        BY <2>2 DEF WatchlistInv
      <3>2. CASE calls[n].pc = "watch"
        <4>0. PICK a, w : a = calls[n].offender /\ w = calls[n].next
          OBVIOUS
        <4>1. /\ w.hits \in Nat \ {0} /\ w.hits + Cardinality(Pending(a) \ {n}) <= Held(a)
              /\ w.cell.version = w.hits /\ WatchHeader(a, w.cell) /\ a \in Agents /\ Held(a) \in Nat
          BY <3>1, <3>2, <4>0, Counts, HeldNames DEF NextInv, ManagerInv
        <4>2. w.hits + Cardinality(Pending(a)' \ {n}) <= Held(a)
          <5>1. /\ Cardinality(Pending(a)' \ {n}) \in Nat /\ Cardinality(Pending(a) \ {n}) \in Nat
                /\ Cardinality(Pending(a)' \ {n}) <= Cardinality(Pending(a) \ {n})
            BY <1>2
          <5>2. w.hits \in Nat /\ w.hits + Cardinality(Pending(a) \ {n}) <= Held(a) /\ Held(a) \in Nat
            BY <4>1
          <5> QED BY <5>1, <5>2
        <4>3. (calls[n].offender)' = a /\ (calls[n].next)' = w
          BY <3>1, <4>0
        <4> QED BY <1>1, <3>1, <3>2, <4>1, <4>2, <4>3 DEF NextInv, Pending
      <3>3. CASE calls[n].pc # "watch"
        BY <3>1, <3>3 DEF NextInv
      <3> QED BY <3>2, <3>3
    <2> QED BY <2>1, <2>2
  <1>5. AloneInv'
    <2>1. SUFFICES ASSUME GuestBets = 0, kernel = "full", faults' = 0, NEW a \in Agents PROVE Counted(a)'
      BY DEF AloneInv, GuestBets
    <2>2. faults = 0 /\ faults' # faults + 1 /\ m = match /\ WatchInv(a)
      BY <2>1 DEF WatchlistInv
    <2>3. Counted(a)
      BY <2>1, <2>2 DEF WatchlistInv, AloneInv
    <2>4. calls[match].pc # "violation"
      <3>1. SUFFICES ASSUME calls[match].pc = "violation" PROVE FALSE
        OBVIOUS
      <3>2. calls[match].offender \in Agents
        BY <2>2, <3>1 DEF WatchlistInv, NextInv
      <3>3. WatchInv(calls[match].offender)
        BY <3>2 DEF WatchlistInv
      <3> QED BY <2>1, <2>2, <3>1, <3>3, NextWatchFacts DEF Drops
    <2>5. calls[match].pc # "watch"
      <3>1. SUFFICES ASSUME calls[match].pc = "watch" PROVE FALSE
        OBVIOUS
      <3>2. calls[match].offender \in Agents
        BY <2>2, <3>1 DEF WatchlistInv, NextInv
      <3>3. Counted(calls[match].offender)
        BY <2>1, <2>2, <3>2 DEF WatchlistInv, AloneInv
      <3> QED BY <2>1, <2>2, <3>1, <3>3 DEF Drops, Counted, Stored
    <2>6. Hits(a) = Held(a)
      BY <2>3, <2>4, <2>5 DEF Counted
    <2> QED BY <1>1, <2>2, <2>6 DEF Counted, Drops
  <1>6. DOMAIN watchlists' = Agents /\ faults' \in Nat
    BY <1>1 DEF WatchlistInv
  <1> QED BY <1>3, <1>4, <1>5, <1>6 DEF WatchlistInv

\* A call nobody answers keeps its part of the invariant if the others take no more than is held.
LEMMA NextKept ==
    ASSUME ManagerInv, violations' \in Seq(Violation), NEW n \in Matches, NextInv(n), calls'[n] = calls[n],
           \A a : Cardinality(Pending(a)' \ {n}) \in Nat /\ Cardinality(Pending(a) \ {n}) \in Nat,
           \A a : Cardinality(Pending(a)' \ {n}) + Held(a) <= Cardinality(Pending(a) \ {n}) + Held(a)'
    PROVE  NextInv(n)'
  <1>1. CASE calls[n].pc = "watch"
    <2>0. PICK a, w : a = calls[n].offender /\ w = calls[n].next
      OBVIOUS
    <2>1. /\ w.hits \in Nat \ {0} /\ w.hits + Cardinality(Pending(a) \ {n}) <= Held(a)
          /\ w.cell.version = w.hits /\ WatchHeader(a, w.cell) /\ a \in Agents
      BY <1>1, <2>0 DEF NextInv
    <2>2. Held(a) \in Nat
      BY Counts, HeldNames DEF ManagerInv
    <2>3. Held(a)' \in Nat
      <3>1. Held(a)' = HeldIn(violations', a)
        BY DEF Held, HeldIn
      <3> QED BY <3>1, Counts
    <2>4. w.hits + Cardinality(Pending(a)' \ {n}) <= Held(a)'
      <3>1. /\ Cardinality(Pending(a)' \ {n}) \in Nat /\ Cardinality(Pending(a) \ {n}) \in Nat
            /\ Cardinality(Pending(a)' \ {n}) + Held(a) <= Cardinality(Pending(a) \ {n}) + Held(a)'
        OBVIOUS
      <3> QED BY <2>1, <2>2, <2>3, <3>1
    <2>5. (calls[n].offender)' = a /\ (calls[n].next)' = w
      BY <2>0
    <2> QED BY <1>1, <2>1, <2>4, <2>5 DEF NextInv, Pending
  <1>2. CASE calls[n].pc # "watch"
    BY <1>2 DEF NextInv
  <1> QED BY <1>1, <1>2

\* A violation is held: its call pends, and one more is held against its offender.
LEMMA HoldsInv ==
    ASSUME ManagerInv, WatchlistInv, NEW m \in Matches, Holds(m), GuestBets = 0 => m = match, setting' = setting,
           kernel' = kernel, faults' \in {faults, faults + 1}, \A n \in Matches \ {m} : calls'[n] = calls[n]
    PROVE  WatchlistInv'
  <1>1. PICK v \in Violation : violations' = Append(violations, v) /\ calls'[m] = [pc |-> "violation", offender |-> v.offender]
    BY DEF Holds
  <1>2. watchlists' = watchlists /\ \A a : Hits(a)' = Hits(a)
    BY DEF Holds, Hits
  <1>3. v.offender \in Agents /\ violations \in Seq(Violation) /\ violations' \in Seq(Violation)
    <2>1. violations \in Seq(Violation)
      BY DEF ManagerInv
    <2> QED BY <1>1, <2>1 DEF Violation
  <1>4. calls[m].pc = "idle" /\ calls'[m].pc = "violation" /\ calls'[m].offender = v.offender
    BY <1>1 DEF Holds, Idle
  <1>5. ASSUME NEW a
        PROVE  /\ Held(a) \in Nat /\ Held(a)' = Held(a) + (IF v.offender = a THEN 1 ELSE 0)
               /\ m \notin Pending(a) /\ Pending(a)' = Pending(a) \cup (IF v.offender = a THEN {m} ELSE {})
    <2>1. Held(a) = HeldIn(violations, a) /\ Held(a)' = HeldIn(violations', a)
      BY DEF Held, HeldIn
    <2>2. Pending(a)' = PendingIn(calls', a)
      BY DEF Pending, PendingIn
    <2>3. m \notin Pending(a)
      BY <1>4 DEF Pending, PendingIn
    <2>4. ASSUME NEW n \in Matches
          PROVE  n \in PendingIn(calls', a) <=> n \in Pending(a) \/ (n = m /\ v.offender = a)
      <3>1. CASE n = m
        BY <1>4, <2>3, <3>1 DEF PendingIn
      <3>2. CASE n # m
        BY <3>2 DEF Pending, PendingIn
      <3> QED BY <3>1, <3>2
    <2>5. Pending(a)' = Pending(a) \cup (IF v.offender = a THEN {m} ELSE {})
      <3>1. PendingIn(calls', a) \subseteq Matches /\ Pending(a) \subseteq Matches
        BY DEF Pending, PendingIn
      <3> QED BY <2>2, <2>4, <3>1
    <2> QED BY <1>1, <1>3, <2>1, <2>3, <2>5, Counts
  <1>6. ASSUME NEW a, NEW n, n # m
        PROVE  /\ Cardinality(Pending(a) \ {n}) \in Nat
               /\ Cardinality(Pending(a)' \ {n}) = Cardinality(Pending(a) \ {n}) + (IF v.offender = a THEN 1 ELSE 0)
    <2>1. IsFiniteSet(Pending(a) \ {n})
      <3>1. IsFiniteSet(Pending(a))
        BY Counts DEF Pending
      <3> QED BY <3>1, FS_Subset
    <2>2. m \notin Pending(a) \ {n}
      BY <1>5
    <2>3. Pending(a)' \ {n} = (Pending(a) \ {n}) \cup (IF v.offender = a THEN {m} ELSE {})
      BY <1>5, <1>6
    <2>4. Cardinality((Pending(a) \ {n}) \cup {m}) = Cardinality(Pending(a) \ {n}) + 1
      BY <2>1, <2>2, FS_AddElement
    <2>5. Cardinality(Pending(a) \ {n}) \in Nat
      BY <2>1, FS_CardinalityType
    <2> QED BY <2>3, <2>4, <2>5
  <1>7. ASSUME NEW a \in Agents PROVE WatchInv(a)'
    <2>1. WatchInv(a) /\ Hits(a) \in Nat
      BY DEF WatchlistInv, WatchInv
    <2>2. /\ Cardinality(Pending(a)) \in Nat
          /\ Cardinality(Pending(a)') = Cardinality(Pending(a)) + (IF v.offender = a THEN 1 ELSE 0)
      <3>1. IsFiniteSet(Pending(a)) /\ Cardinality(Pending(a)) \in Nat
        BY Counts DEF Pending
      <3>2. Cardinality(Pending(a) \cup {m}) = Cardinality(Pending(a)) + 1
        BY <1>5, <3>1, FS_AddElement
      <3> QED BY <1>5, <3>1, <3>2
    <2>3. Hits(a) + Cardinality(Pending(a)) <= Held(a)
      BY <2>1 DEF WatchInv
    <2>4. Hits(a) + Cardinality(Pending(a)') <= Held(a)'
      BY <1>5, <2>1, <2>2, <2>3
    <2> QED BY <1>2, <2>1, <2>4 DEF WatchInv
  <1>8. ASSUME NEW n \in Matches PROVE NextInv(n)'
    <2>1. CASE n = m
      BY <1>3, <1>4, <2>1 DEF NextInv
    <2>2. CASE n # m
      <3>1. calls'[n] = calls[n] /\ NextInv(n)
        BY <2>2 DEF WatchlistInv
      <3>2. ASSUME NEW a
            PROVE  /\ Cardinality(Pending(a)' \ {n}) \in Nat /\ Cardinality(Pending(a) \ {n}) \in Nat
                   /\ Cardinality(Pending(a)' \ {n}) + Held(a) <= Cardinality(Pending(a) \ {n}) + Held(a)'
        <4>1. /\ Cardinality(Pending(a) \ {n}) \in Nat
              /\ Cardinality(Pending(a)' \ {n}) = Cardinality(Pending(a) \ {n}) + (IF v.offender = a THEN 1 ELSE 0)
          BY <1>6, <2>2
        <4>2. Held(a) \in Nat /\ Held(a)' = Held(a) + (IF v.offender = a THEN 1 ELSE 0)
          BY <1>5
        <4> QED BY <4>1, <4>2
      <3> QED BY <1>3, <3>1, <3>2, NextKept
    <2> QED BY <2>1, <2>2
  <1>9. AloneInv'
    <2>1. SUFFICES ASSUME GuestBets = 0, kernel = "full", faults' = 0, NEW a \in Agents PROVE Counted(a)'
      BY DEF AloneInv, GuestBets
    <2>2. faults = 0 /\ m = match /\ Hits(a) \in Nat
      BY <2>1 DEF WatchlistInv, WatchInv
    <2>3. Hits(a) = Held(a)
      BY <1>4, <2>1, <2>2 DEF WatchlistInv, AloneInv, Counted
    <2>4. Hits(a)' = Hits(a) /\ Held(a)' = Held(a) + (IF v.offender = a THEN 1 ELSE 0)
      BY <1>2, <1>5
    <2> QED BY <1>4, <2>2, <2>3, <2>4 DEF Counted
  <1>10. DOMAIN watchlists' = Agents /\ faults' \in Nat
    BY <1>2 DEF WatchlistInv
  <1> QED BY <1>7, <1>8, <1>9, <1>10 DEF WatchlistInv

\* The watchlist is read: the call still pends, and what it will write counts one hit more.
LEMMA ReadsInv ==
    ASSUME ManagerInv, WatchlistInv, NEW m \in Matches, Reads(m), GuestBets = 0 => m = match, setting' = setting,
           kernel' = kernel, faults' \in {faults, faults + 1}, \A n \in Matches \ {m} : calls'[n] = calls[n]
    PROVE  WatchlistInv'
  <1>1. PICK b, next : b = calls[m].offender /\ next = NextWatch(m, b)
    OBVIOUS
  <1>2. /\ calls[m].pc = "violation" /\ calls'[m].pc = "watch" /\ calls'[m].offender = b /\ calls'[m].next = next
        /\ UNCHANGED <<watchlists, violations>>
    BY <1>1 DEF Reads
  <1>3. b \in Agents
    BY <1>1, <1>2 DEF WatchlistInv, NextInv
  <1>4. WatchInv(b)
    BY <1>3 DEF WatchlistInv
  <1>5. /\ next.hits = Hits(b) + 1 /\ next.cell.version = next.hits /\ WatchHeader(b, next.cell)
        /\ next.first \/ (watchlists[b] # <<>> /\ next.opener = watchlists[b][1].opener)
    BY <1>1, <1>4, NextWatchFacts
  <1>6. \A a : Hits(a)' = Hits(a) /\ Held(a)' = Held(a)
    BY <1>2, Kept
  <1>7. ASSUME NEW a PROVE Pending(a)' = Pending(a)
    <2>1. Pending(a)' = PendingIn(calls', a)
      BY DEF Pending, PendingIn
    <2>2. ASSUME NEW n \in Matches PROVE n \in PendingIn(calls', a) <=> n \in Pending(a)
      BY <1>1, <1>2 DEF Pending, PendingIn
    <2>3. PendingIn(calls', a) \subseteq Matches /\ Pending(a) \subseteq Matches
      BY DEF Pending, PendingIn
    <2> QED BY <2>1, <2>2, <2>3
  <1>8. ASSUME NEW a \in Agents PROVE WatchInv(a)'
    <2>1. WatchInv(a)
      BY DEF WatchlistInv
    <2> QED BY <1>2, <1>6, <1>7, <2>1 DEF WatchInv
  <1>9. ASSUME NEW n \in Matches PROVE NextInv(n)'
    <2>1. ASSUME NEW a
          PROVE /\ Cardinality(Pending(a)' \ {n}) \in Nat /\ Cardinality(Pending(a) \ {n}) \in Nat
                /\ Cardinality(Pending(a)' \ {n}) + Held(a) <= Cardinality(Pending(a) \ {n}) + Held(a)'
      <3>1. IsFiniteSet(Pending(a) \ {n})
        <4>1. IsFiniteSet(Pending(a))
          BY Counts DEF Pending
        <4> QED BY <4>1, FS_Subset
      <3>2. Cardinality(Pending(a) \ {n}) \in Nat /\ Held(a) \in Nat
        BY <3>1, FS_CardinalityType, Counts, HeldNames DEF ManagerInv
      <3>3. Held(a)' = Held(a) /\ Pending(a)' = Pending(a)
        BY <1>6, <1>7
      <3> QED BY <3>2, <3>3
    <2>2. CASE n # m
      <3>1. calls'[n] = calls[n] /\ NextInv(n) /\ violations' \in Seq(Violation)
        BY <1>2, <2>2 DEF WatchlistInv, ManagerInv
      <3> QED BY <2>1, <3>1, NextKept
    <2>3. CASE n = m
      <3>1. m \in Pending(b) /\ IsFiniteSet(Pending(b)) /\ Cardinality(Pending(b)) \in Nat
        <4>1. m \in Pending(b)
          BY <1>1, <1>2 DEF Pending, PendingIn
        <4>2. IsFiniteSet(Pending(b)) /\ Cardinality(Pending(b)) \in Nat
          BY Counts DEF Pending
        <4> QED BY <4>1, <4>2
      <3>2. Cardinality(Pending(b) \ {m}) = Cardinality(Pending(b)) - 1
        BY <3>1, FS_RemoveElement
      <3>3. Hits(b) \in Nat /\ Hits(b) + Cardinality(Pending(b)) <= Held(b) /\ Held(b) \in Nat
        BY <1>4, Counts, HeldNames DEF WatchInv, ManagerInv
      <3>4. next.hits \in Nat \ {0} /\ next.hits + Cardinality(Pending(b) \ {m}) <= Held(b)
        BY <1>5, <3>1, <3>2, <3>3
      <3>5. (calls[m].offender)' = b /\ (calls[m].next)' = next /\ Pending(b)' = Pending(b) /\ Held(b)' = Held(b)
        BY <1>2, <1>6, <1>7
      <3> QED BY <1>2, <1>3, <1>5, <2>3, <3>4, <3>5 DEF NextInv, Pending, PendingIn
    <2> QED BY <2>2, <2>3
  <1>10. AloneInv'
    <2>1. SUFFICES ASSUME GuestBets = 0, kernel = "full", faults' = 0, NEW a \in Agents PROVE Counted(a)'
      BY DEF AloneInv, GuestBets
    <2>2. faults = 0 /\ m = match
      BY <2>1 DEF WatchlistInv
    <2>3. Counted(a) /\ Counted(b)
      BY <1>3, <2>1, <2>2 DEF WatchlistInv, AloneInv
    <2>4. a # b => Hits(a) = Held(a)
      BY <1>1, <1>2, <2>2, <2>3 DEF Counted
    <2>5. next.hits = Held(b)
      BY <1>1, <1>2, <1>5, <2>2, <2>3 DEF Counted
    <2> QED BY <1>2, <1>5, <1>6, <2>2, <2>4, <2>5 DEF Counted
  <1>11. DOMAIN watchlists' = Agents /\ faults' \in Nat
    BY <1>2 DEF WatchlistInv
  <1> QED BY <1>8, <1>9, <1>10, <1>11 DEF WatchlistInv

\* The watchlist is written: it counts what its call held.
LEMMA WritesInv ==
    ASSUME ManagerInv, WatchlistInv, NEW m \in Matches, Writes(m), GuestBets = 0 => m = match, setting' = setting,
           kernel' = kernel, faults' \in {faults, faults + 1}, \A n \in Matches \ {m} : calls'[n] = calls[n]
    PROVE  WatchlistInv'
  <1>1. PICK b, w : b = calls[m].offender /\ w = calls[m].next
    OBVIOUS
  <1>2. /\ calls[m].pc = "watch" /\ calls'[m].pc = "returned" /\ violations' = violations
        /\ watchlists' = [watchlists EXCEPT ![b] = <<[opener |-> w.opener, hits |-> w.hits,
                                                      version |-> w.cell.version, live |-> w.cell,
                                                      txid |-> Len(written[b]) + 1]>>]
    BY <1>1 DEF Writes
  <1>3. NextInv(m)
    BY DEF WatchlistInv
  <1>4. /\ b \in Agents /\ w.hits \in Nat \ {0} /\ w.hits + Cardinality(Pending(b) \ {m}) <= Held(b)
        /\ w.cell.version = w.hits /\ WatchHeader(b, w.cell)
    BY <1>1, <1>2, <1>3 DEF NextInv
  <1>5. DOMAIN watchlists = Agents
    BY DEF WatchlistInv
  <1>6. watchlists'[b] # <<>> /\ watchlists'[b][1] = [opener |-> w.opener, hits |-> w.hits, version |-> w.cell.version, live |-> w.cell,
                                                         txid |-> Len(written[b]) + 1]
    BY <1>2, <1>4, <1>5
  <1>7. /\ Hits(b)' = w.hits
        /\ \A a \in Agents \ {b} : Hits(a)' = Hits(a) /\ watchlists'[a] = watchlists[a]
        /\ \A a : Held(a)' = Held(a)
    BY <1>2, <1>5, <1>6 DEF Hits, Held
  <1>8. ASSUME NEW a PROVE Pending(a)' = Pending(a) \ {m}
    <2>1. Pending(a)' = PendingIn(calls', a)
      BY DEF Pending, PendingIn
    <2>2. ASSUME NEW n \in Matches PROVE n \in PendingIn(calls', a) <=> n \in Pending(a) \ {m}
      BY <1>2 DEF Pending, PendingIn
    <2>3. PendingIn(calls', a) \subseteq Matches /\ Pending(a) \subseteq Matches
      BY DEF Pending, PendingIn
    <2> QED BY <2>1, <2>2, <2>3
  <1>9. ASSUME NEW a
        PROVE  /\ IsFiniteSet(Pending(a)) /\ Held(a) \in Nat
               /\ Cardinality(Pending(a)) \in Nat /\ Cardinality(Pending(a)') \in Nat
               /\ Cardinality(Pending(a)') <= Cardinality(Pending(a))
    <2>1. IsFiniteSet(Pending(a)) /\ Held(a) \in Nat
      BY Counts, HeldNames DEF Pending, ManagerInv
    <2> QED BY <1>8, <2>1, FewerPending
  <1>10. ASSUME NEW a \in Agents PROVE WatchInv(a)'
    <2>1. CASE a = b
      <3>1. Hits(b)' \in Nat /\ Hits(b)' + Cardinality(Pending(b)') <= Held(b)'
        BY <1>4, <1>7, <1>8
      <3> QED BY <1>4, <1>6, <2>1, <3>1 DEF WatchInv, Pending
    <2>2. CASE a # b
      <3>1. WatchInv(a) /\ Hits(a)' = Hits(a) /\ watchlists'[a] = watchlists[a]
        BY <1>7, <2>2 DEF WatchlistInv
      <3>2. Hits(a) \in Nat /\ Hits(a) + Cardinality(Pending(a)) <= Held(a)
        BY <3>1 DEF WatchInv
      <3>3. Hits(a) + Cardinality(Pending(a)') <= Held(a)
        BY <1>9, <3>2
      <3> QED BY <1>7, <3>1, <3>2, <3>3 DEF WatchInv
    <2> QED BY <2>1, <2>2
  <1>11. ASSUME NEW n \in Matches PROVE NextInv(n)'
    <2>1. CASE n = m
      BY <1>2, <2>1 DEF NextInv
    <2>2. CASE n # m
      <3>1. ASSUME NEW a
            PROVE /\ Cardinality(Pending(a)' \ {n}) \in Nat /\ Cardinality(Pending(a) \ {n}) \in Nat
                  /\ Cardinality(Pending(a)' \ {n}) + Held(a) <= Cardinality(Pending(a) \ {n}) + Held(a)'
        <4>1. Pending(a)' \ {n} \subseteq Pending(a) \ {n} /\ IsFiniteSet(Pending(a) \ {n})
          BY <1>8, <1>9, FS_Subset
        <4>2. /\ Cardinality(Pending(a)' \ {n}) \in Nat /\ Cardinality(Pending(a) \ {n}) \in Nat
              /\ Cardinality(Pending(a)' \ {n}) <= Cardinality(Pending(a) \ {n})
          BY <4>1, FewerPending
        <4>3. Held(a)' = Held(a) /\ Held(a) \in Nat
          BY <1>7, <1>9
        <4> QED BY <4>2, <4>3
      <3>2. calls'[n] = calls[n] /\ NextInv(n) /\ violations' \in Seq(Violation)
        BY <1>2, <2>2 DEF WatchlistInv, ManagerInv
      <3> QED BY <3>1, <3>2, NextKept
    <2> QED BY <2>1, <2>2
  <1>12. AloneInv'
    <2>1. SUFFICES ASSUME GuestBets = 0, kernel = "full", faults' = 0, NEW a \in Agents PROVE Counted(a)'
      BY DEF AloneInv, GuestBets
    <2>2. faults = 0 /\ m = match
      BY <2>1 DEF WatchlistInv
    <2>3. Counted(a) /\ Counted(b)
      BY <1>4, <2>1, <2>2 DEF WatchlistInv, AloneInv
    <2>4. Hits(a)' = Held(a)
      BY <1>1, <1>2, <1>7, <2>2, <2>3 DEF Counted
    <2> QED BY <1>2, <1>7, <2>2, <2>4 DEF Counted
  <1>13. DOMAIN watchlists' = Agents /\ faults' \in Nat
    BY <1>2, <1>5 DEF WatchlistInv
  <1> QED BY <1>10, <1>11, <1>12, <1>13 DEF WatchlistInv

LEMMA WatchlistInitInv == Init => WatchlistInv
  <1> SUFFICES ASSUME Init PROVE WatchlistInv
    OBVIOUS
  <1>1. /\ watchlists = [a \in Agents |-> <<>>] /\ violations = <<>> /\ faults = 0
        /\ \A m \in Matches : calls[m].pc = "idle"
    BY DEF Init, ChannelInit, Idle
  <1>2. ASSUME NEW a PROVE Pending(a) = {} /\ Held(a) = 0
    <2>1. Pending(a) = {}
      BY <1>1 DEF Pending, PendingIn
    <2>2. {i \in DOMAIN violations : violations[i].offender = a} = {}
      BY <1>1
    <2> QED BY <2>1, <2>2, FS_EmptySet DEF Held
  <1>3. \A a \in Agents : Hits(a) = 0
    BY <1>1 DEF Hits
  <1>4. Cardinality({}) = 0
    BY FS_EmptySet
  <1>5. ASSUME NEW a \in Agents PROVE WatchInv(a)
    <2>1. watchlists[a] = <<>> /\ Hits(a) = 0 /\ Held(a) = 0 /\ Cardinality(Pending(a)) = 0
      BY <1>1, <1>2, <1>3, <1>4
    <2> QED BY <2>1 DEF WatchInv
  <1>6. \A m \in Matches : NextInv(m)
    BY <1>1 DEF NextInv
  <1>7. match \in Matches
    BY LoopAssumption DEF LoopAssumption
  <1>8. AloneInv
    BY <1>1, <1>2, <1>3, <1>7 DEF AloneInv, Counted
  <1> QED BY <1>1, <1>5, <1>6, <1>8 DEF WatchlistInv

LEMMA WatchlistNextInv == LoopTypeOK /\ ManagerInv /\ WatchlistInv /\ [Next]_vars => WatchlistInv'
  <1> SUFFICES ASSUME LoopTypeOK, ManagerInv, WatchlistInv, [Next]_vars PROVE WatchlistInv'
    OBVIOUS
  <1>1. setting' = setting
    BY DEF Next, LoopStep, Answers, Guest, Done, vars, loopVars
  <1>2. ASSUME Unmanaged PROVE WatchlistInv'
    <2>0. faults \in Nat
      BY DEF WatchlistInv
    <2>1. UNCHANGED <<kernel, calls, watchlists, violations>> /\ faults' \in {faults, faults + 1}
      BY <1>2, <2>0 DEF Unmanaged, Answer
    <2>2. \A a : WatchInv(a)' <=> WatchInv(a)
      BY <2>1 DEF WatchInv, Hits, Pending, Held, WatchHeader
    <2>3. \A m : NextInv(m)' <=> NextInv(m)
      BY <2>1 DEF NextInv, Pending, Held, WatchHeader
    <2>4. \A a : Counted(a)' <=> Counted(a)
      BY <2>1 DEF Counted, Hits, Held
    <2>5. faults' \in Nat /\ (faults' = 0 => faults = 0)
      BY <2>0, <2>1
    <2>6. AloneInv => AloneInv'
      BY <1>1, <2>1, <2>4, <2>5 DEF AloneInv, GuestBets
    <2> QED BY <2>1, <2>2, <2>3, <2>5, <2>6 DEF WatchlistInv
  <1>3. ASSUME NEW m \in Matches, ChannelStep(m), m = match \/ GuestBets > 0 PROVE WatchlistInv'
    <2>1. /\ kernel' = kernel /\ faults' \in {faults, faults + 1}
          /\ \A n \in Matches \ {m} : calls'[n] = calls[n]
          /\ Drops(m) \/ Holds(m) \/ Reads(m) \/ Writes(m)
      BY <1>3, WatchSteps DEF WatchlistInv
    <2>2. GuestBets = 0 => m = match
      BY <1>3
    <2> QED BY <1>1, <2>1, <2>2, DropsInv, HoldsInv, ReadsInv, WritesInv
  <1> QED BY <1>2, <1>3, ManagerSteps

\* The cells broadcast for an offender.  An entry spends the cell its call read, and what overlapped
\* no other is in the count.
Entry == [seen : Nat, spends : Nat]

LogOK(log, list) ==
    /\ log \in Seq(Entry)
    /\ \A i \in DOMAIN log : log[i].seen < i /\ log[i].spends <= log[i].seen
    /\ \A i, j \in DOMAIN log :
          i < j /\ log[i].spends = log[j].spends => log[j].spends = 0 \/ log[j].seen < i
    /\ list = <<>> => log = <<>>
    /\ list # <<>> =>
          /\ list[1].txid \in Nat /\ list[1].txid <= Len(log)
          /\ \A i \in DOMAIN log : log[i].spends # list[1].txid
          /\ list[1].hits \in Nat /\ Cardinality(Alone(log)) <= list[1].hits

\* A call that has read the list and has not written it: what it will count, and what it spends.
ReadOK(w, log, list) ==
    /\ w.seen \in Nat /\ w.seen <= Len(log) /\ w.spends \in Nat /\ w.spends <= w.seen
    /\ w.hits \in Nat /\ w.hits >= 1 + Cardinality({i \in Alone(log) : i <= w.seen})
    /\ ~w.first =>
          /\ list # <<>>
          /\ w.seen = Len(log) => w.opener = list[1].opener
          /\ w.spends = list[1].txid => w.opener = list[1].opener
    /\ \A i \in DOMAIN log : log[i].spends = w.spends => w.spends = 0 \/ w.seen < i

OverlapInv ==
    /\ DOMAIN written = Agents
    /\ \A a \in Agents : LogOK(written[a], watchlists[a])
    /\ \A m \in Matches : calls[m].pc = "watch" =>
          ReadOK(calls[m].next, written[calls[m].offender], watchlists[calls[m].offender])

LEMMA AloneCounts ==
    ASSUME NEW log \in Seq(Entry)
    PROVE  /\ IsFiniteSet(Alone(log)) /\ Cardinality(Alone(log)) \in Nat
           /\ \A i \in Alone(log) : i \in Nat /\ i <= Len(log)
  <1>1. Alone(log) \subseteq 1..Len(log) /\ Len(log) \in Nat
    BY DEF Alone
  <1>2. IsFiniteSet(1..Len(log))
    BY <1>1, FS_Interval
  <1> QED BY <1>1, <1>2, FS_Subset, FS_CardinalityType

LEMMA UpTo ==
    ASSUME NEW S, IsFiniteSet(S), NEW P, P \subseteq S
    PROVE  IsFiniteSet(P) /\ Cardinality(P) \in Nat /\ Cardinality(P) <= Cardinality(S) /\ Cardinality(S) \in Nat
  BY FS_Subset, FS_CardinalityType

\* What the next entry leaves of the hits that overlapped no other.
LEMMA AloneAppend ==
    ASSUME NEW log \in Seq(Entry), NEW e \in Entry
    PROVE  Alone(Append(log, e)) \subseteq
              {i \in Alone(log) : i <= e.seen} \cup (IF e.seen = Len(log) THEN {Len(log) + 1} ELSE {})
  <1>1. /\ Len(log) \in Nat /\ DOMAIN log = 1..Len(log) /\ e.seen \in Nat
        /\ DOMAIN Append(log, e) = 1..(Len(log) + 1)
        /\ \A i \in 1..Len(log) : Append(log, e)[i] = log[i]
        /\ Append(log, e)[Len(log) + 1] = e
    BY DEF Entry
  <1> DEFINE new == Append(log, e)
  <1> HIDE DEF new
  <1>2. /\ DOMAIN new = 1..(Len(log) + 1) /\ new[Len(log) + 1] = e
        /\ \A i \in 1..Len(log) : new[i] = log[i]
    BY <1>1 DEF new
  <1>3. ASSUME NEW i \in Alone(new)
        PROVE  \/ i \in Alone(log) /\ i <= e.seen
               \/ i = Len(log) + 1 /\ e.seen = Len(log)
    <2>1. i \in 1..(Len(log) + 1) /\ new[i].seen = i - 1 /\ \A j \in 1..(Len(log) + 1) : j > i => new[j].seen >= i
      BY <1>2, <1>3 DEF Alone
    <2>2. CASE i = Len(log) + 1
      BY <1>1, <1>2, <2>1, <2>2
    <2>3. CASE i \in 1..Len(log)
      <3>1. e.seen >= i
        BY <1>1, <1>2, <2>1, <2>3
      <3>2. log[i].seen = i - 1
        BY <1>2, <2>1, <2>3
      <3>3. ASSUME NEW j \in 1..Len(log), j > i PROVE log[j].seen >= i
        <4>1. j \in 1..(Len(log) + 1)
          BY <1>1, <3>3
        <4> QED BY <1>2, <2>1, <3>3, <4>1
      <3>4. i \in Alone(log)
        BY <1>1, <2>3, <3>2, <3>3 DEF Alone
      <3> QED BY <1>1, <3>1, <3>4
    <2> QED BY <1>1, <2>1, <2>2, <2>3
  <1>4. Alone(new) \subseteq {i \in Alone(log) : i <= e.seen} \cup (IF e.seen = Len(log) THEN {Len(log) + 1} ELSE {})
    BY <1>3
  <1> QED BY <1>4 DEF new

\* Reading: what was counted so far is what the call starts from.
LEMMA ReadLog ==
    ASSUME NEW log, NEW list, LogOK(log, list), NEW w,
           w.seen = Len(log), w.spends = (IF list = <<>> THEN 0 ELSE list[1].txid),
           w.hits = 1 + (IF list = <<>> THEN 0 ELSE list[1].hits),
           w.first \/ (list # <<>> /\ w.opener = list[1].opener)
    PROVE  ReadOK(w, log, list)
  <1> DEFINE P == {i \in Alone(log) : i <= w.seen}
  <1>1. log \in Seq(Entry) /\ Len(log) \in Nat
    BY DEF LogOK
  <1>2. /\ IsFiniteSet(Alone(log)) /\ Cardinality(Alone(log)) \in Nat /\ Cardinality(P) \in Nat
        /\ Cardinality(P) <= Cardinality(Alone(log))
    BY <1>1, AloneCounts, UpTo
  <1> HIDE DEF P
  <1>3. CASE list = <<>>
    <2>1. log = <<>> /\ Len(log) = 0
      BY <1>3 DEF LogOK
    <2>2. Alone(log) = {}
      BY <2>1 DEF Alone
    <2>3. Cardinality(P) <= 0
      BY <1>2, <2>2, FS_EmptySet
    <2>4. w.hits \in Nat /\ w.hits >= 1 + Cardinality(P)
      BY <1>2, <1>3, <2>3
    <2> QED BY <1>1, <1>3, <2>1, <2>4 DEF ReadOK, P
  <1>4. CASE list # <<>>
    <2>1. /\ list[1].txid \in Nat /\ list[1].txid <= Len(log) /\ list[1].hits \in Nat
          /\ Cardinality(Alone(log)) <= list[1].hits
          /\ \A i \in DOMAIN log : log[i].spends # list[1].txid
      BY <1>4 DEF LogOK
    <2>2. w.hits \in Nat /\ w.hits >= 1 + Cardinality(P)
      BY <1>2, <1>4, <2>1
    <2> QED BY <1>1, <1>4, <2>1, <2>2 DEF ReadOK, P
  <1> QED BY <1>3, <1>4

\* Writing: stored or not, the list counts what overlapped no other, and the cell that it keeps is unspent.
LEMMA WriteLog ==
    ASSUME NEW log, NEW list, LogOK(log, list), NEW w, ReadOK(w, log, list),
           NEW e \in Entry, e.seen = w.seen, e.spends = w.spends, NEW after,
           \/ after # <<>> /\ after[1].txid = Len(log) + 1 /\ after[1].hits = w.hits
           \/ after = list /\ ~w.first /\ list[1].opener # w.opener
    PROVE  LogOK(Append(log, e), after) /\ \A v : ReadOK(v, log, list) => ReadOK(v, Append(log, e), after)
  <1> DEFINE new == Append(log, e)
             L == Len(log)
             P == {i \in Alone(log) : i <= w.seen}
  <1>1. /\ log \in Seq(Entry) /\ e \in Entry /\ e.seen = w.seen /\ e.spends = w.spends
        /\ w.seen \in Nat /\ w.seen <= L /\ w.spends \in Nat /\ w.spends <= w.seen
        /\ \A i \in DOMAIN log : log[i].spends = w.spends => w.spends = 0 \/ w.seen < i
    BY DEF LogOK, ReadOK, Entry
  <1>2. /\ L \in Nat /\ DOMAIN log = 1..L /\ new \in Seq(Entry) /\ Len(new) = L + 1 /\ DOMAIN new = 1..(L + 1)
        /\ \A i \in 1..L : new[i] = log[i]
        /\ new[L + 1] = e
    BY <1>1
  <1>3. Alone(new) \subseteq P \cup (IF w.seen = L THEN {L + 1} ELSE {})
    BY <1>1, AloneAppend
  <1>4. /\ IsFiniteSet(Alone(log)) /\ IsFiniteSet(P) /\ Cardinality(P) \in Nat
        /\ IsFiniteSet(Alone(new)) /\ Cardinality(Alone(new)) \in Nat /\ Cardinality(Alone(log)) \in Nat
    BY <1>1, <1>2, AloneCounts, UpTo
  <1>5. \A i \in Alone(log) : i \in Nat /\ i <= L
    BY <1>1, AloneCounts
  <1> HIDE DEF new, P, L
  <1>6. \A i \in 1..(L + 1) : i \in 1..L \/ i = L + 1
    BY <1>2
  <1>7. \A i \in DOMAIN new : new[i].seen < i /\ new[i].spends <= new[i].seen
    <2>1. \A i \in 1..L : log[i].seen < i /\ log[i].spends <= log[i].seen
      BY <1>2 DEF LogOK
    <2> QED BY <1>1, <1>2, <1>6, <2>1
  <1>8. ASSUME NEW i \in DOMAIN new, NEW j \in DOMAIN new, i < j, new[i].spends = new[j].spends
        PROVE  new[j].spends = 0 \/ new[j].seen < i
    <2>1. i \in 1..L
      BY <1>2, <1>6, <1>8
    <2>2. CASE j \in 1..L
      BY <1>2, <1>8, <2>1, <2>2 DEF LogOK
    <2>3. CASE j = L + 1
      BY <1>1, <1>2, <1>8, <2>1, <2>3
    <2> QED BY <1>2, <1>6, <2>2, <2>3
  <1>9. ASSUME NEW v, ReadOK(v, log, list)
        PROVE  /\ v.seen \in Nat /\ v.seen <= L /\ v.spends \in Nat /\ v.spends <= v.seen /\ v.hits \in Nat
               /\ v.hits >= 1 + Cardinality({i \in Alone(new) : i <= v.seen})
               /\ \A i \in DOMAIN new : new[i].spends = v.spends => v.spends = 0 \/ v.seen < i
    <2>1. /\ v.seen \in Nat /\ v.seen <= L /\ v.spends \in Nat /\ v.spends <= v.seen /\ v.hits \in Nat
          /\ v.hits >= 1 + Cardinality({i \in Alone(log) : i <= v.seen})
          /\ \A i \in DOMAIN log : log[i].spends = v.spends => v.spends = 0 \/ v.seen < i
      BY <1>9 DEF ReadOK, L
    <2>2. {i \in Alone(new) : i <= v.seen} \subseteq {i \in Alone(log) : i <= v.seen}
      <3>1. ASSUME NEW i \in Alone(new), i <= v.seen PROVE i \in Alone(log)
        <4>1. i # L + 1
          BY <1>2, <2>1, <3>1
        <4> QED BY <1>3, <3>1, <4>1 DEF P
      <3> QED BY <3>1
    <2>3. /\ Cardinality({i \in Alone(new) : i <= v.seen}) <= Cardinality({i \in Alone(log) : i <= v.seen})
          /\ Cardinality({i \in Alone(new) : i <= v.seen}) \in Nat
          /\ Cardinality({i \in Alone(log) : i <= v.seen}) \in Nat
      <3>1. IsFiniteSet({i \in Alone(log) : i <= v.seen})
        BY <1>4, FS_Subset
      <3> QED BY <2>2, <3>1, UpTo
    <2>4. v.hits >= 1 + Cardinality({i \in Alone(new) : i <= v.seen})
      BY <2>1, <2>3
    <2>5. \A i \in DOMAIN new : new[i].spends = v.spends => v.spends = 0 \/ v.seen < i
      BY <1>2, <1>6, <2>1
    <2> QED BY <2>1, <2>4, <2>5
  <1>10. CASE after # <<>> /\ after[1].txid = L + 1 /\ after[1].hits = w.hits
    <2>1. after # <<>> /\ after[1].txid = L + 1 /\ after[1].hits = w.hits
      BY <1>10
    <2>2. Cardinality(Alone(new)) <= w.hits /\ w.hits \in Nat
      <3>1. w.hits \in Nat /\ w.hits >= 1 + Cardinality(P)
        BY DEF ReadOK, P
      <3>2. Alone(new) \subseteq P \cup {L + 1}
        BY <1>3
      <3>3. Cardinality(P \cup {L + 1}) = Cardinality(P) + 1 /\ IsFiniteSet(P \cup {L + 1})
        <4>1. L + 1 \notin P
          BY <1>2, <1>5 DEF P
        <4> QED BY <1>4, <4>1, FS_AddElement
      <3>4. Cardinality(Alone(new)) <= Cardinality(P \cup {L + 1})
        BY <3>2, <3>3, UpTo
      <3> QED BY <1>4, <3>1, <3>3, <3>4
    <2>3. \A i \in DOMAIN new : new[i].spends # L + 1
      <3>1. \A i \in 1..(L + 1) : new[i].spends \in Nat /\ new[i].seen \in Nat
        <4>1. \A i \in 1..(L + 1) : new[i] \in Entry
          BY <1>2
        <4> QED BY <4>1 DEF Entry
      <3> QED BY <1>2, <1>7, <3>1
    <2>4. L + 1 \in Nat /\ L + 1 <= Len(new)
      BY <1>2
    <2>5. LogOK(new, after)
      BY <1>2, <1>7, <1>8, <1>10, <2>1, <2>2, <2>3, <2>4 DEF LogOK
    <2>6. ASSUME NEW v, ReadOK(v, log, list) PROVE ReadOK(v, new, after)
      <3>1. v.seen # Len(new) /\ v.spends # L + 1 /\ v.seen <= Len(new)
        <4>1. v.seen \in Nat /\ v.seen <= L /\ v.spends \in Nat /\ v.spends <= v.seen
          BY <1>9, <2>6
        <4> QED BY <1>2, <4>1
      <3> QED BY <1>9, <1>10, <2>1, <2>6, <3>1 DEF ReadOK
    <2> QED BY <2>5, <2>6 DEF new
  <1>11. CASE after = list /\ ~w.first /\ list[1].opener # w.opener
    <2>1. list # <<>> /\ w.seen # L /\ w.spends # list[1].txid
      BY <1>11 DEF ReadOK, L
    <2>2. /\ list[1].txid \in Nat /\ list[1].txid <= L /\ list[1].hits \in Nat
          /\ Cardinality(Alone(log)) <= list[1].hits
          /\ \A i \in 1..L : log[i].spends # list[1].txid
      BY <1>2, <2>1 DEF LogOK, L
    <2>3. Cardinality(Alone(new)) <= list[1].hits
      <3>1. Alone(new) \subseteq Alone(log)
        BY <1>3, <2>1 DEF P
      <3>2. Cardinality(Alone(new)) <= Cardinality(Alone(log))
        BY <1>4, <3>1, UpTo
      <3> QED BY <1>4, <2>2, <3>2
    <2>4. list[1].txid <= Len(new) /\ \A i \in DOMAIN new : new[i].spends # list[1].txid
      BY <1>1, <1>2, <1>6, <2>1, <2>2
    <2>5. LogOK(new, after)
      BY <1>2, <1>7, <1>8, <1>11, <2>1, <2>2, <2>3, <2>4 DEF LogOK
    <2>6. ASSUME NEW v, ReadOK(v, log, list) PROVE ReadOK(v, new, after)
      <3>1. v.seen # Len(new) /\ v.seen <= Len(new)
        <4>1. v.seen \in Nat /\ v.seen <= L
          BY <1>9, <2>6
        <4> QED BY <1>2, <4>1
      <3>2. ~v.first => (v.spends = list[1].txid => v.opener = list[1].opener)
        BY <2>6 DEF ReadOK
      <3> QED BY <1>9, <1>11, <2>1, <2>6, <3>1, <3>2 DEF ReadOK
    <2> QED BY <2>5, <2>6 DEF new
  <1> QED BY <1>10, <1>11 DEF L, new

\* What a step does to a watchlist and to its history.
Keeps(m) == calls'[m].pc # "watch" /\ UNCHANGED <<watchlists, written>>

Fetches(m) ==
    LET a == calls[m].offender
    IN  /\ calls[m].pc = "violation" /\ UNCHANGED <<watchlists, written>>
        /\ calls'[m] = [pc |-> "watch", offender |-> a, next |-> NextWatch(m, a)]

Broadcasts(m) ==
    LET a == calls[m].offender
        w == calls[m].next
    IN  /\ calls[m].pc = "watch" /\ calls'[m].pc = "returned"
        /\ written' = [written EXCEPT ![a] = Append(@, [seen |-> w.seen, spends |-> w.spends])]
        /\ IF Stored(a, w)
           THEN watchlists' = [watchlists EXCEPT ![a] = <<[opener |-> w.opener, hits |-> w.hits,
                   version |-> w.cell.version, live |-> w.cell, txid |-> Len(written[a]) + 1]>>]
           ELSE watchlists' = watchlists

LEMMA OverlapSteps ==
    ASSUME ManagerInv, NEW m \in Matches, ChannelStep(m)
    PROVE  Keeps(m) \/ Fetches(m) \/ Broadcasts(m)
  <1>1. DOMAIN calls = Matches
    BY DEF ManagerInv
  <1>2. Returned("ok").pc = "returned" /\ Returned("threw").pc = "returned" /\ Idle.pc = "idle"
    BY DEF Returned, Idle
  <1>3. ASSUME NEW ok \in BOOLEAN, openChannel(m, ok) PROVE Keeps(m)
    <2>1. /\ UNCHANGED <<watchlists, written>>
          /\ \/ calls' = [calls EXCEPT ![m] = [pc |-> "create"]]
             \/ calls' = [calls EXCEPT ![m] = Returned("threw")]
      BY <1>3 DEF openChannel
    <2> QED BY <1>1, <1>2, <2>1 DEF Keeps
  <1>4. ASSUME NEW ok \in BOOLEAN, CellCreated(m, ok) \/ TransitionAnswered(m, ok) \/ FallbackAnchored(m, ok)
                                   \/ SettlementAnswered(m, ok)
        PROVE  Keeps(m)
    <2>1. /\ UNCHANGED <<watchlists, written>>
          /\ \/ calls' = [calls EXCEPT ![m] = Returned("ok")]
             \/ calls' = [calls EXCEPT ![m] = Returned("threw")]
      BY <1>4 DEF CellCreated, TransitionAnswered, FallbackAnchored, SettlementAnswered
    <2> QED BY <1>1, <1>2, <2>1 DEF Keeps
  <1>5. ASSUME NEW ok \in BOOLEAN, ViolationAnchored(m, ok) PROVE Keeps(m) \/ Fetches(m)
    <2> DEFINE a == calls[m].offender
               next == NextWatch(m, a)
    <2>1. /\ UNCHANGED <<watchlists, written>> /\ calls[m].pc = "violation"
          /\ calls' = [calls EXCEPT ![m] =
                          IF ~ok THEN [pc |-> "fallback"]
                          ELSE IF Passes(a, next) THEN [pc |-> "watch", offender |-> a, next |-> next]
                          ELSE Returned("threw")]
      BY <1>5 DEF ViolationAnchored, Passes
    <2> HIDE DEF next
    <2>2. CASE ~ok \/ ~Passes(a, next)
      <3>1. calls'[m].pc \in {"fallback", "returned"}
        BY <1>1, <1>2, <2>1, <2>2
      <3> QED BY <2>1, <3>1 DEF Keeps
    <2>3. CASE ok /\ Passes(a, next)
      <3>1. calls'[m] = [pc |-> "watch", offender |-> a, next |-> next]
        BY <1>1, <2>1, <2>3
      <3> QED BY <2>1, <3>1 DEF Fetches, next
    <2> QED BY <2>2, <2>3
  <1>6. ASSUME NEW ok \in BOOLEAN, WatchlistWritten(m, ok) PROVE Keeps(m) \/ Broadcasts(m)
    <2> DEFINE a == calls[m].offender
               w == calls[m].next
               moved == [opener |-> w.opener, hits |-> w.hits, version |-> w.cell.version, live |-> w.cell,
                         txid |-> Len(written[a]) + 1]
    <2>1. /\ calls[m].pc = "watch"
          /\ written' = (IF ok THEN [written EXCEPT ![a] = Append(@, [seen |-> w.seen, spends |-> w.spends])]
                         ELSE written)
          /\ watchlists' = (IF ok /\ Stored(a, w) THEN [watchlists EXCEPT ![a] = <<moved>>] ELSE watchlists)
          /\ calls' = [calls EXCEPT ![m] = Returned("threw")]
      BY <1>6 DEF WatchlistWritten, Stored
    <2>2. calls'[m].pc = "returned"
      BY <1>1, <1>2, <2>1
    <2>3. CASE ok
      <3> HIDE DEF w, a
      <3>1. /\ written' = [written EXCEPT ![a] = Append(@, [seen |-> w.seen, spends |-> w.spends])]
            /\ IF Stored(a, w) THEN watchlists' = [watchlists EXCEPT ![a] = <<moved>>] ELSE watchlists' = watchlists
        <4> HIDE DEF moved
        <4> QED BY <2>1, <2>3
      <3> QED BY <2>1, <2>2, <3>1 DEF Broadcasts, w, a
    <2>4. CASE ~ok
      BY <2>1, <2>2, <2>4 DEF Keeps
    <2> QED BY <2>3, <2>4
  <1>7. ASSUME NEW side \in Sides, NEW sats, NEW mode \in {"honest"} \union Tampers, recordBet(m, side, sats, mode)
        PROVE  Keeps(m)
    <2>1. /\ UNCHANGED <<watchlists, written>>
          /\ \/ calls' = [calls EXCEPT ![m] = Returned("threw")]
             \/ calls' = [calls EXCEPT ![m] = [pc |-> "violation", offender |-> AgentOf[m][side]]]
             \/ \E cell, version : calls' = [calls EXCEPT ![m] = IF Chan(m).live = <<>> THEN Returned("ok")
                                              ELSE [pc |-> "transition", cell |-> cell, version |-> version,
                                                    mode |-> mode]]
      BY <1>7 DEF recordBet
    <2> QED BY <1>1, <1>2, <2>1 DEF Keeps
  <1>8. ASSUME settleChannel(m) PROVE Keeps(m)
    <2>1. /\ UNCHANGED <<watchlists, written>>
          /\ \E out : calls' = [calls EXCEPT ![m] = IF confirmClose(requestClose(Chan(m).channel).value).ok
                                                    THEN [pc |-> "settling", out |-> out] ELSE Returned("threw")]
      BY <1>8 DEF settleChannel
    <2> QED BY <1>1, <1>2, <2>1 DEF Keeps
  <1>9. ASSUME calls' = [calls EXCEPT ![m] = Idle], UNCHANGED <<watchlists, written>> PROVE Keeps(m)
    BY <1>1, <1>2, <1>9 DEF Keeps
  <1> QED BY <1>3, <1>4, <1>5, <1>6, <1>7, <1>8, <1>9 DEF ChannelStep, ManagerAnswers

LEMMA OverlapNextInv ==
    LoopTypeOK /\ ManagerInv /\ WatchlistInv /\ OverlapInv /\ [Next]_vars => OverlapInv'
  <1> SUFFICES ASSUME LoopTypeOK, ManagerInv, WatchlistInv, OverlapInv, [Next]_vars PROVE OverlapInv'
    OBVIOUS
  <1>1. ASSUME Unmanaged PROVE OverlapInv'
    BY <1>1 DEF Unmanaged, OverlapInv
  <1>2. ASSUME NEW m \in Matches, ChannelStep(m) PROVE OverlapInv'
    <2>1. \A n \in Matches \ {m} : calls'[n] = calls[n]
      BY <1>2, WatchSteps DEF WatchlistInv
    <2>2. /\ DOMAIN watchlists = Agents /\ DOMAIN written = Agents
          /\ \A n \in Matches : calls[n].pc \in {"violation", "watch"} => calls[n].offender \in Agents
      BY DEF WatchlistInv, NextInv, OverlapInv
    <2>3. CASE Keeps(m)
      BY <2>1, <2>3 DEF Keeps, OverlapInv
    <2>4. CASE Fetches(m)
      <3>1. PICK a, w : a = calls[m].offender /\ w = NextWatch(m, a)
        OBVIOUS
      <3>2. /\ a \in Agents /\ UNCHANGED <<watchlists, written>>
            /\ calls'[m].pc = "watch" /\ calls'[m].offender = a /\ calls'[m].next = w
        BY <2>2, <2>4, <3>1 DEF Fetches
      <3>3. /\ w.seen = Len(written[a]) /\ w.spends = (IF watchlists[a] = <<>> THEN 0 ELSE watchlists[a][1].txid)
            /\ w.hits = 1 + (IF watchlists[a] = <<>> THEN 0 ELSE watchlists[a][1].hits)
            /\ w.first \/ (watchlists[a] # <<>> /\ w.opener = watchlists[a][1].opener)
        <4>1. watchlists[a] # <<>> => watchlists[a][1].hits \in Nat
          BY <3>2 DEF OverlapInv, LogOK
        <4> QED BY <3>1, <4>1 DEF NextWatch
      <3>4. ReadOK(w, written[a], watchlists[a])
        BY <3>2, <3>3, ReadLog DEF OverlapInv
      <3> QED BY <2>1, <3>2, <3>4 DEF OverlapInv
    <2>5. CASE Broadcasts(m)
      <3>1. PICK a, w : a = calls[m].offender /\ w = calls[m].next
        OBVIOUS
      <3>2. PICK moved : moved = [opener |-> w.opener, hits |-> w.hits, version |-> w.cell.version,
                                  live |-> w.cell, txid |-> Len(written[a]) + 1]
        OBVIOUS
      <3>3. /\ a \in Agents /\ calls[m].pc = "watch" /\ calls'[m].pc = "returned"
            /\ written' = [written EXCEPT ![a] = Append(@, [seen |-> w.seen, spends |-> w.spends])]
            /\ IF Stored(a, w) THEN watchlists' = [watchlists EXCEPT ![a] = <<moved>>] ELSE watchlists' = watchlists
        BY <2>2, <2>5, <3>1, <3>2 DEF Broadcasts
      <3>4. /\ DOMAIN written' = Agents /\ written'[a] = Append(written[a], [seen |-> w.seen, spends |-> w.spends])
            /\ \A b \in Agents \ {a} : written'[b] = written[b] /\ watchlists'[b] = watchlists[b]
        BY <2>2, <3>3
      <3>5. \/ watchlists'[a] = <<moved>> /\ moved.txid = Len(written[a]) + 1 /\ moved.hits = w.hits
            \/ watchlists'[a] = watchlists[a] /\ ~w.first /\ watchlists[a][1].opener # w.opener
        <4>1. moved.txid = Len(written[a]) + 1 /\ moved.hits = w.hits
          BY <3>2
        <4>2. CASE Stored(a, w)
          BY <2>2, <3>3, <4>1, <4>2
        <4>3. CASE ~Stored(a, w)
          BY <3>3, <4>3 DEF Stored
        <4> QED BY <4>2, <4>3
      <3>6. LogOK(written[a], watchlists[a]) /\ ReadOK(w, written[a], watchlists[a])
        BY <3>1, <3>3 DEF OverlapInv
      <3>7. /\ LogOK(written'[a], watchlists'[a])
            /\ \A v : ReadOK(v, written[a], watchlists[a]) => ReadOK(v, written'[a], watchlists'[a])
        <4>1. PICK log, list, after, e : /\ log = written[a] /\ list = watchlists[a] /\ after = watchlists'[a]
                                         /\ e = [seen |-> w.seen, spends |-> w.spends]
          OBVIOUS
        <4>2. LogOK(log, list) /\ ReadOK(w, log, list) /\ written'[a] = Append(log, e)
          BY <3>4, <3>6, <4>1
        <4>3. e \in Entry /\ e.seen = w.seen /\ e.spends = w.spends
          BY <4>1, <4>2 DEF ReadOK, Entry
        <4>4. \/ after # <<>> /\ after[1].txid = Len(log) + 1 /\ after[1].hits = w.hits
              \/ after = list /\ ~w.first /\ list[1].opener # w.opener
          BY <3>5, <4>1
        <4>5. LogOK(Append(log, e), after) /\ \A v : ReadOK(v, log, list) => ReadOK(v, Append(log, e), after)
          BY <4>2, <4>3, <4>4, WriteLog
        <4> QED BY <4>1, <4>2, <4>5
      <3>8. \A b \in Agents : LogOK(written'[b], watchlists'[b])
        BY <3>4, <3>7 DEF OverlapInv
      <3>9. ASSUME NEW n \in Matches, calls'[n].pc = "watch"
            PROVE  ReadOK(calls'[n].next, written'[calls'[n].offender], watchlists'[calls'[n].offender])
        <4>1. n # m /\ calls'[n] = calls[n]
          BY <2>1, <3>3, <3>9
        <4>2. /\ ReadOK(calls[n].next, written[calls[n].offender], watchlists[calls[n].offender])
              /\ calls[n].offender \in Agents
          BY <2>2, <3>9, <4>1 DEF OverlapInv
        <4> QED BY <3>4, <3>7, <4>1, <4>2
      <3> QED BY <3>4, <3>8, <3>9 DEF OverlapInv
    <2> QED BY <1>2, <2>3, <2>4, <2>5, OverlapSteps
  <1> QED BY <1>1, <1>2, ManagerSteps

LEMMA OverlapInitInv == Init => OverlapInv
  <1> SUFFICES ASSUME Init PROVE OverlapInv
    OBVIOUS
  <1>1. /\ watchlists = [a \in Agents |-> <<>>] /\ written = [a \in Agents |-> <<>>]
        /\ \A m \in Matches : calls[m].pc = "idle"
    BY DEF Init, ChannelInit, Idle
  <1>2. ASSUME NEW a \in Agents PROVE LogOK(written[a], watchlists[a])
    <2>1. written[a] = <<>> /\ watchlists[a] = <<>> /\ DOMAIN <<>> = {}
      BY <1>1
    <2> QED BY <2>1 DEF LogOK
  <1> QED BY <1>1, <1>2 DEF OverlapInv

\* A watchlist counts no hit that was not a violation and loses none but of hits that overlapped at
\* their broadcasts, and only of these two may spend the same cell; under a full kernel, with no guest
\* and as long as no broadcast failed, it counts every violation.
THEOREM WatchlistsCount == Spec => []WatchlistCounts
  <1>1. LoopInv => LoopTypeOK
    BY DEF LoopInv
  <1>2. ManagerInv /\ WatchlistInv /\ OverlapInv => WatchlistCounts
    <2> SUFFICES ASSUME ManagerInv, WatchlistInv, OverlapInv PROVE WatchlistCounts
      OBVIOUS
    <2>0. ASSUME NEW a \in Agents
          PROVE  /\ \A i, j \in DOMAIN written[a] :
                       i < j /\ written[a][i].spends = written[a][j].spends =>
                           written[a][j].spends = 0 \/ written[a][j].seen < i
                 /\ Cardinality(Alone(written[a])) <= (IF watchlists[a] = <<>> THEN 0 ELSE watchlists[a][1].hits)
      <3>1. LogOK(written[a], watchlists[a])
        BY DEF OverlapInv
      <3>2. CASE watchlists[a] = <<>>
        <4>1. Alone(written[a]) = {} /\ Cardinality({}) = 0
          BY <3>1, <3>2, FS_EmptySet DEF LogOK, Alone
        <4> QED BY <3>1, <3>2, <4>1 DEF LogOK
      <3>3. CASE watchlists[a] # <<>>
        BY <3>1, <3>3 DEF LogOK
      <3> QED BY <3>2, <3>3
    <2> SUFFICES ASSUME NEW a \in Agents, watchlists[a] # <<>>
                 PROVE  LET w == watchlists[a][1]
                        IN  /\ w.hits <= Held(a) /\ w.version = w.hits
                            /\ (/\ GuestBets = 0 /\ kernel = "full" /\ faults = 0
                                /\ calls[match].pc \notin {"violation", "watch"}) => w.hits = Held(a)
      BY <2>0 DEF WatchlistCounts
    <2>1. WatchInv(a) /\ Hits(a) = watchlists[a][1].hits
      BY DEF WatchlistInv, Hits
    <2>2. Cardinality(Pending(a)) \in Nat /\ Held(a) \in Nat
      BY Counts, HeldNames DEF Pending, ManagerInv
    <2>3. Hits(a) \in Nat /\ Hits(a) + Cardinality(Pending(a)) <= Held(a) /\ watchlists[a][1].version = Hits(a)
      BY <2>1 DEF WatchInv
    <2>4. Hits(a) <= Held(a)
      BY <2>2, <2>3
    <2>5. /\ GuestBets = 0 /\ kernel = "full" /\ faults = 0
          /\ calls[match].pc \notin {"violation", "watch"}
          => Hits(a) = Held(a)
      BY DEF WatchlistInv, AloneInv, Counted
    <2> QED BY <2>1, <2>3, <2>4, <2>5
  <1> QED BY <1>1, <1>2, LoopInitInv, LoopNextInv, ManagerInitInv, ManagerNextInv, WatchlistInitInv, WatchlistNextInv,
             OverlapInitInv, OverlapNextInv, PTL DEF Spec
-------------------------------------------------------------------------------
(* The match's meter against its pots.  What was placed is owed until it is    *)
(* ticked or lost, and a hand's pot is in play until it is in the table.       *)

HandRow == [winner : Sides \union {"none"}, pot : Int]
Books == [wager : Int, short : Int, lost : Int]
Meter == [state : ChannelState, currentTick : Int, cumulativeSatoshis : Int]

Cumulative == Chan(match).channel.cumulativeSatoshis

\* The call in progress will throw, or has.
Failing ==
    \/ calls[match].pc \in {"violation", "fallback", "watch"}
    \/ calls[match].pc = "returned" /\ calls[match].outcome = "threw"

Unpaid(sats) == IF Failing THEN sats ELSE 0

\* What was placed and is neither ticked nor given up.
Owed ==
    CASE pc = "small"       -> SmallBlind + BigBlind
      [] pc = "smallTicked" -> Unpaid(SmallBlind) + BigBlind
      [] pc = "big"         -> BigBlind
      [] pc = "bigTicked"   -> Unpaid(BigBlind)
      [] pc = "tick"        -> books.wager
      [] pc = "ticked"      -> Unpaid(books.wager)
      [] OTHER              -> 0

RowsInv ==
    /\ books \in Books /\ hands \in Seq(HandRow) /\ Len(hands) = table.hand
    /\ InHand => table.hand > 0 /\ hands[table.hand].pot = 0
    /\ pc \in {"open", "opening"} => hands = <<>> /\ books.lost = 0 /\ books.short = 0

ChipsInv == (\A s \in Sides : players[s].chips >= 0) /\ table.pot >= 0 /\ table.minRaise > 0

\* What the meter must show: the pots and what short blinds owe, less what is to be ticked or lost.
Due == PotsPaid + PotInPlay + books.short - books.lost - Owed

MetersInv ==
    chans[match] # <<>> =>
        /\ Chan(match).channel \in Meter
        /\ pc # "aborted" => Cumulative = Due

MeterInv == RowsInv /\ ChipsInv /\ MetersInv

\* Induction over the naturals, for sets.
LEMMA NatSetInduction ==
    ASSUME NEW T \in SUBSET Nat, 0 \in T, \A n \in T : n + 1 \in T
    PROVE  T = Nat
  <1> DEFINE R == {ss \in Nat \X Nat : ss[1] < ss[2]}
             rest == Nat \ T
  <1> SUFFICES ASSUME rest # {} PROVE FALSE
    OBVIOUS
  <1>1. \E x \in rest : \A y \in rest : ~(<<y, x>> \in R)
    <2>1. IsWellFoundedOn(R, Nat)
      BY NatLessThanWellFounded DEF OpToRel
    <2>2. rest \in SUBSET Nat
      OBVIOUS
    <2> HIDE DEF R, rest
    <2> QED BY <2>1, <2>2, WFMin
  <1>2. PICK x \in rest : \A y \in rest : ~(y < x)
    <2>1. \A x, y \in Nat : y < x => <<y, x>> \in R
      OBVIOUS
    <2> HIDE DEF R
    <2> QED BY <1>1, <2>1
  <1>3. x - 1 \in Nat /\ x - 1 \notin rest
    BY <1>2
  <1> QED BY <1>2, <1>3

\* What Paid computes: one hand more with every step.
OneMorePaid(rows, f, i) == IF i = 0 THEN 0 ELSE f[i - 1] + rows[i].pot

PaidWalk(rows, f) == \A i \in 0..Len(rows) : f[i] = OneMorePaid(rows, f, i)

LEMMA PaidWalks ==
    ASSUME NEW rows \in Seq(HandRow)
    PROVE  \E f : PaidWalk(rows, f) /\ Paid(rows) = f[Len(rows)]
  <1> DEFINE Goes(k) == \E f : f = [i \in 0..k |-> OneMorePaid(rows, f, i)]
             T == {k \in Nat : Goes(k)}
  <1>1. 0 \in T
    <2>1. [i \in 0..0 |-> 0] = [i \in 0..0 |-> OneMorePaid(rows, [j \in 0..0 |-> 0], i)]
      BY DEF OneMorePaid
    <2> QED BY <2>1
  <1>2. ASSUME NEW k \in T PROVE k + 1 \in T
    <2>1. PICK f : f = [i \in 0..k |-> OneMorePaid(rows, f, i)]
      OBVIOUS
    <2> DEFINE g == [i \in 0..(k + 1) |-> IF i <= k THEN f[i] ELSE OneMorePaid(rows, f, k + 1)]
    <2>2. \A i \in 0..k : g[i] = f[i]
      OBVIOUS
    <2>3. \A i \in 0..k : f[i] = OneMorePaid(rows, f, i)
      BY <2>1
    <2>4. \A i \in 1..(k + 1) : i - 1 \in 0..k
      OBVIOUS
    <2>5. g[k + 1] = OneMorePaid(rows, f, k + 1)
      OBVIOUS
    <2> HIDE DEF g
    <2>6. \A i \in 0..(k + 1) : OneMorePaid(rows, g, i) = OneMorePaid(rows, f, i)
      BY <2>2, <2>4 DEF OneMorePaid
    <2>7. \A i \in 0..(k + 1) : g[i] = OneMorePaid(rows, g, i)
      BY <2>2, <2>3, <2>5, <2>6
    <2>8. g = [i \in 0..(k + 1) |-> OneMorePaid(rows, g, i)]
      <3>1. g = [i \in 0..(k + 1) |-> g[i]]
        BY DEF g
      <3> QED BY <2>7, <3>1
    <2> QED BY <2>8
  <1>3. Len(rows) \in T
    <2>1. T \in SUBSET Nat
      OBVIOUS
    <2> HIDE DEF T
    <2>2. T = Nat
      BY <1>1, <1>2, <2>1, NatSetInduction
    <2> QED BY <2>2
  <1> DEFINE f == CHOOSE h : h = [i \in 0..Len(rows) |-> OneMorePaid(rows, h, i)]
  <1>4. f = [i \in 0..Len(rows) |-> OneMorePaid(rows, f, i)]
    BY <1>3
  <1>5. Paid(rows) = f[Len(rows)]
    BY DEF Paid, OneMorePaid
  <1> HIDE DEF f
  <1> QED BY <1>4, <1>5 DEF PaidWalk

\* Rows that agree on the first k hands have paid the same by then.
LEMMA PaidAgrees ==
    ASSUME NEW r \in Seq(HandRow), NEW s \in Seq(HandRow), NEW f, NEW g, PaidWalk(r, f), PaidWalk(s, g),
           NEW k \in Nat, k <= Len(r), k <= Len(s), \A i \in 1..k : r[i] = s[i]
    PROVE  f[k] = g[k] /\ f[k] \in Int
  <1> DEFINE T == {n \in Nat : n <= k => f[n] = g[n] /\ f[n] \in Int}
  <1>1. 0 \in T
    <2>1. 0 \in 0..Len(r) /\ 0 \in 0..Len(s)
      OBVIOUS
    <2> QED BY <2>1 DEF PaidWalk, OneMorePaid
  <1>2. ASSUME NEW n \in T PROVE n + 1 \in T
    <2> SUFFICES ASSUME n + 1 <= k PROVE f[n + 1] = g[n + 1] /\ f[n + 1] \in Int
      OBVIOUS
    <2>1. n \in Nat /\ f[n] = g[n] /\ f[n] \in Int /\ n + 1 \in 1..k /\ (n + 1) - 1 = n
      BY <1>2
    <2>2. n + 1 \in 0..Len(r) /\ n + 1 \in 0..Len(s) /\ n + 1 # 0 /\ n + 1 \in 1..Len(r)
      BY <2>1
    <2>3. f[n + 1] = f[n] + r[n + 1].pot /\ g[n + 1] = g[n] + s[n + 1].pot
      BY <2>1, <2>2 DEF PaidWalk, OneMorePaid
    <2>4. r[n + 1] \in HandRow /\ r[n + 1] = s[n + 1]
      BY <2>1, <2>2
    <2>5. r[n + 1].pot \in Int
      BY <2>4 DEF HandRow
    <2> QED BY <2>1, <2>3, <2>4, <2>5
  <1>3. T = Nat
    <2>1. T \in SUBSET Nat
      OBVIOUS
    <2> HIDE DEF T
    <2> QED BY <1>1, <1>2, <2>1, NatSetInduction
  <1>4. k \in T
    BY <1>3
  <1> QED BY <1>4

LEMMA PaidNone == Paid(<<>>) = 0
  <1>1. PICK r : r = <<>>
    OBVIOUS
  <1>2. r \in Seq(HandRow) /\ Len(r) = 0
    BY <1>1
  <1>3. PICK f : PaidWalk(r, f) /\ Paid(r) = f[Len(r)]
    BY <1>2, PaidWalks
  <1>4. f[0] = 0
    BY <1>2, <1>3 DEF PaidWalk, OneMorePaid
  <1> QED BY <1>1, <1>2, <1>3, <1>4

\* A table of hands is worth its last hand and those before it.
LEMMA PaidLast ==
    ASSUME NEW r \in Seq(HandRow), NEW s \in Seq(HandRow), Len(s) > 0,
           Len(r) = Len(s) \/ Len(r) = Len(s) - 1, \A i \in 1..(Len(s) - 1) : r[i] = s[i]
    PROVE  /\ Paid(r) \in Int /\ Paid(s) \in Int
           /\ Len(r) = Len(s) => Paid(s) = Paid(r) - r[Len(s)].pot + s[Len(s)].pot
           /\ Len(r) = Len(s) - 1 => Paid(s) = Paid(r) + s[Len(s)].pot
  <1>0. Len(s) \in Nat /\ Len(s) - 1 \in Nat /\ Len(r) \in Nat
    OBVIOUS
  <1>1. PICK n \in Nat : n = Len(s) - 1
    BY <1>0
  <1>2. Len(s) = n + 1 /\ (Len(r) = n + 1 \/ Len(r) = n) /\ n + 1 \in Nat /\ n + 1 # 0 /\ (n + 1) - 1 = n
    BY <1>1
  <1>3. PICK f : PaidWalk(r, f) /\ Paid(r) = f[Len(r)]
    BY PaidWalks
  <1>4. PICK g : PaidWalk(s, g) /\ Paid(s) = g[Len(s)]
    BY PaidWalks
  <1>5. f[n] = g[n] /\ f[n] \in Int
    <2>1. n <= Len(r) /\ n <= Len(s) /\ \A i \in 1..n : r[i] = s[i]
      BY <1>0, <1>1, <1>2
    <2> QED BY <1>3, <1>4, <2>1, PaidAgrees
  <1>6. g[n + 1] = g[n] + s[n + 1].pot /\ s[n + 1].pot \in Int
    <2>1. n + 1 \in 0..Len(s) /\ n + 1 \in 1..Len(s)
      BY <1>2
    <2>2. s[n + 1] \in HandRow
      BY <2>1
    <2> QED BY <1>2, <1>4, <2>1, <2>2 DEF PaidWalk, OneMorePaid, HandRow
  <1>7. CASE Len(r) = n
    BY <1>2, <1>3, <1>4, <1>5, <1>6, <1>7
  <1>8. CASE Len(r) = n + 1
    <2>1. n + 1 \in 0..Len(r) /\ n + 1 \in 1..Len(r)
      BY <1>2, <1>8
    <2>2. r[n + 1] \in HandRow
      BY <2>1
    <2>3. f[n + 1] = f[n] + r[n + 1].pot /\ r[n + 1].pot \in Int
      BY <1>2, <1>3, <2>1, <2>2 DEF PaidWalk, OneMorePaid, HandRow
    <2> QED BY <1>2, <1>3, <1>4, <1>5, <1>6, <1>8, <2>3
  <1> QED BY <1>2, <1>7, <1>8
-------------------------------------------------------------------------------
(* What a step of the manager does to the match's meter. *)

LEMMA MoveKeeps ==
    ASSUME NEW ch \in Meter, NEW a, NEW to \in ChannelState
    PROVE  Move(ch, a, to).value \in Meter /\ Move(ch, a, to).value.cumulativeSatoshis = ch.cumulativeSatoshis
  <1>1. [ch EXCEPT !.state = to] \in Meter /\ [ch EXCEPT !.state = to].cumulativeSatoshis = ch.cumulativeSatoshis
    BY DEF Meter
  <1> QED BY <1>1 DEF Move, Ok, Fail

LEMMA TickAdds ==
    ASSUME NEW ch \in Meter, NEW sats \in Int, tick(ch, sats).ok
    PROVE  /\ tick(ch, sats).value \in Meter
           /\ tick(ch, sats).value.cumulativeSatoshis = ch.cumulativeSatoshis + sats
  <1>1. tick(ch, sats).value = [ch EXCEPT !.currentTick = @ + 1, !.cumulativeSatoshis = @ + sats]
    BY DEF tick, Ok, Fail
  <1>2. ch.currentTick + 1 \in Int /\ ch.cumulativeSatoshis + sats \in Int
    BY DEF Meter
  <1> QED BY <1>1, <1>2 DEF Meter

\* The channel's meter is typed.
MeterTyped == chans[match] # <<>> => Chan(match).channel \in Meter

\* Nothing of the match's money moves.
MeterRests ==
    /\ chans'[match] = <<>> <=> chans[match] = <<>>
    /\ chans[match] # <<>> => Chan(match)'.channel \in Meter /\ Cumulative' = Cumulative
    /\ Failing' <=> Failing

LEMMA OpenMeter ==
    ASSUME ManagerInv, match \in Matches, NEW ok \in BOOLEAN, openChannel(match, ok)
    PROVE  chans'[match] # <<>> => Chan(match)'.channel \in Meter /\ Cumulative' = 0
  <1> DEFINE ch == activate(fund(createChannel).value).value
             c == [channel |-> ch, balanceA |-> FundingSats \div 2, balanceB |-> FundingSats \div 2,
                   cellVersion |-> 0, live |-> <<>>, paid |-> <<>>]
  <1>1. createChannel \in Meter /\ createChannel.cumulativeSatoshis = 0
    BY DEF createChannel, Meter, ChannelState
  <1>2. fund(createChannel).value \in Meter /\ fund(createChannel).value.cumulativeSatoshis = 0
    BY <1>1, MoveKeeps DEF fund, ChannelState
  <1>3. ch \in Meter /\ ch.cumulativeSatoshis = 0
    BY <1>2, MoveKeeps DEF activate, ChannelState
  <1>4. /\ chans[match] = <<>>
        /\ chans' = IF ok THEN [chans EXCEPT ![match] = <<c>>] ELSE chans
    BY DEF openChannel
  <1>5. c.channel = ch
    OBVIOUS
  <1> HIDE DEF ch, c
  <1>6. chans'[match] = IF ok THEN <<c>> ELSE <<>>
    BY <1>4 DEF ManagerInv
  <1> QED BY <1>3, <1>5, <1>6 DEF Chan, Cumulative

LEMMA BetMeter ==
    ASSUME ManagerInv, MeterTyped, match \in Matches, NEW side, NEW sats \in Int, NEW mode,
           recordBet(match, side, sats, mode)
    PROVE  /\ chans[match] # <<>> /\ chans'[match] # <<>> /\ Chan(match)'.channel \in Meter
           /\ Cumulative' = Cumulative + sats - Unpaid(sats)'
  <1>1. PICK c : c = Chan(match)
    OBVIOUS
  <1>2. PICK ticked : ticked = tick(c.channel, sats)
    OBVIOUS
  <1>3. PICK to : to = Moved(c, side, sats)
    OBVIOUS
  <1>4. PICK cell : cell = applyTamper(NextCell(match, c, ticked.value, to), mode)
    OBVIOUS
  <1>5. \/ /\ calls' = [calls EXCEPT ![match] = Returned("threw")]
           /\ UNCHANGED chans
        \/ /\ calls' = [calls EXCEPT ![match] = [pc |-> "violation", offender |-> AgentOf[match][side]]]
           /\ UNCHANGED chans
        \/ /\ ticked.ok
           /\ chans' = [chans EXCEPT ![match] = <<Committed(c, ticked.value, to, cell)>>]
           /\ calls' = [calls EXCEPT ![match] = IF c.live = <<>> THEN Returned("ok")
                                                ELSE [pc |-> "transition", cell |-> cell,
                                                      version |-> c.cellVersion + 1, mode |-> mode]]
    BY <1>1, <1>2, <1>3, <1>4 DEF recordBet
  <1>6. /\ chans[match] # <<>> /\ c.channel \in Meter /\ DOMAIN chans = Matches /\ DOMAIN calls = Matches
        /\ DOMAIN c = ChannelFields
    BY <1>1 DEF recordBet, MeterTyped, ManagerInv, ChainInv
  <1>7. Cumulative = c.channel.cumulativeSatoshis /\ Cumulative \in Int
    BY <1>1, <1>6 DEF Cumulative, Meter
  <1>8. CASE \/ calls' = [calls EXCEPT ![match] = Returned("threw")] /\ UNCHANGED chans
             \/ /\ calls' = [calls EXCEPT ![match] = [pc |-> "violation", offender |-> AgentOf[match][side]]]
                /\ UNCHANGED chans
    <2>1. Failing'
      BY <1>6, <1>8 DEF Failing, Returned
    <2>2. chans' = chans /\ Unpaid(sats)' = sats
      BY <1>8, <2>1 DEF Unpaid
    <2> QED BY <1>1, <1>6, <1>7, <2>2 DEF Chan, Cumulative
  <1>9. CASE /\ ticked.ok
             /\ chans' = [chans EXCEPT ![match] = <<Committed(c, ticked.value, to, cell)>>]
             /\ calls' = [calls EXCEPT ![match] = IF c.live = <<>> THEN Returned("ok")
                                                  ELSE [pc |-> "transition", cell |-> cell,
                                                        version |-> c.cellVersion + 1, mode |-> mode]]
    <2>1. ticked.value \in Meter /\ ticked.value.cumulativeSatoshis = c.channel.cumulativeSatoshis + sats
      BY <1>2, <1>6, <1>9, TickAdds
    <2>2. Committed(c, ticked.value, to, cell).channel = ticked.value
      BY <1>6 DEF Committed, ChannelFields
    <2>3. chans'[match] = <<Committed(c, ticked.value, to, cell)>>
      BY <1>6, <1>9
    <2>4. chans'[match] # <<>> /\ Chan(match)'.channel = ticked.value
      BY <2>2, <2>3 DEF Chan
    <2>5. ~Failing'
      BY <1>6, <1>9 DEF Failing, Returned
    <2>6. Unpaid(sats)' = 0
      BY <2>5 DEF Unpaid
    <2> QED BY <1>6, <1>7, <2>1, <2>4, <2>6 DEF Cumulative
  <1> QED BY <1>5, <1>8, <1>9

LEMMA AnswersMeter ==
    ASSUME ManagerInv, MeterTyped, match \in Matches, ManagerAnswers(match)
    PROVE  MeterRests
  <1>1. DOMAIN chans = Matches /\ DOMAIN calls = Matches /\ ChainInv(match)
    BY DEF ManagerInv
  <1>2. chans[match] # <<>> => DOMAIN chans[match] = {1} /\ DOMAIN Chan(match) = ChannelFields
    BY <1>1 DEF ChainInv
  <1>3. ASSUME chans'[match] = chans[match], Failing' <=> Failing PROVE MeterRests
    BY <1>3 DEF MeterRests, MeterTyped, Chan, Cumulative
  <1>4. PICK ok \in BOOLEAN :
          \/ CellCreated(match, ok)       \/ TransitionAnswered(match, ok)
          \/ ViolationAnchored(match, ok) \/ FallbackAnchored(match, ok) \/ WatchlistWritten(match, ok)
          \/ SettlementAnswered(match, ok)
    BY DEF ManagerAnswers
  <1>5. CASE ViolationAnchored(match, ok)
    <2>1. chans' = chans /\ calls[match].pc = "violation"
      BY <1>5 DEF ViolationAnchored
    <2>2. PICK a : a = calls[match].offender
      OBVIOUS
    <2>3. PICK next : next = NextWatch(match, a)
      OBVIOUS
    <2>4. calls'[match] \in {[pc |-> "fallback"], [pc |-> "watch", offender |-> a, next |-> next],
                             Returned("threw")}
      BY <1>1, <1>5, <2>2, <2>3 DEF ViolationAnchored
    <2>5. Failing /\ Failing'
      BY <2>1, <2>4 DEF Failing, Returned
    <2> QED BY <1>3, <2>1, <2>5
  <1>6. CASE FallbackAnchored(match, ok) \/ WatchlistWritten(match, ok)
    <2>1. /\ chans' = chans /\ calls[match].pc \in {"fallback", "watch"}
          /\ calls' = [calls EXCEPT ![match] = Returned("threw")]
      BY <1>6 DEF FallbackAnchored, WatchlistWritten
    <2>2. Failing /\ Failing'
      BY <1>1, <2>1 DEF Failing, Returned
    <2> QED BY <1>3, <2>1, <2>2
  <1>7. CASE CellCreated(match, ok) \/ TransitionAnswered(match, ok) \/ SettlementAnswered(match, ok)
    <2>1. /\ calls[match].pc \in {"create", "transition", "settling"}
          /\ calls' = [calls EXCEPT ![match] = Returned("ok")]
      BY <1>7 DEF CellCreated, TransitionAnswered, SettlementAnswered
    <2>2. ~Failing /\ ~Failing'
      BY <1>1, <2>1 DEF Failing, Returned
    <2>3. chans[match] # <<>>
      BY <1>1, <2>1 DEF ChainInv
    <2>4. PICK c : c = Chan(match)
      OBVIOUS
    <2>5. c.channel \in Meter /\ DOMAIN c = ChannelFields /\ Cumulative = c.channel.cumulativeSatoshis
      BY <1>2, <2>3, <2>4 DEF MeterTyped, Cumulative
    <2>6. chans'[match] # <<>> /\ Chan(match)'.channel \in Meter
          /\ Chan(match)'.channel.cumulativeSatoshis = c.channel.cumulativeSatoshis
      <3>1. CASE chans'[match] = chans[match]
        BY <2>3, <2>4, <2>5, <3>1 DEF Chan
      <3>2. ASSUME NEW live, NEW version, chans' = [chans EXCEPT ![match][1].live = live, ![match][1].cellVersion = version]
            PROVE  chans'[match] # <<>> /\ Chan(match)'.channel = c.channel
        <4>1. DOMAIN chans'[match] = {1} /\ Chan(match)' = [c EXCEPT !.live = live, !.cellVersion = version]
          BY <1>1, <1>2, <2>3, <2>4, <3>2 DEF Chan
        <4>2. chans'[match] # <<>>
          BY <4>1, NonEmpty
        <4> QED BY <2>5, <4>1, <4>2 DEF ChannelFields
      <3>3. CASE CellCreated(match, ok) \/ TransitionAnswered(match, ok)
        <4>1. \/ chans' = chans
              \/ \E live, version : chans' = [chans EXCEPT ![match][1].live = live, ![match][1].cellVersion = version]
          BY <3>3 DEF CellCreated, TransitionAnswered
        <4> QED BY <2>5, <3>1, <3>2, <4>1
      <3>4. CASE SettlementAnswered(match, ok)
        <4>1. PICK closed : closed = confirmClose(requestClose(c.channel).value).value
          OBVIOUS
        <4>2. requestClose(c.channel).value \in Meter
              /\ requestClose(c.channel).value.cumulativeSatoshis = c.channel.cumulativeSatoshis
          BY <2>5, MoveKeeps DEF requestClose, ChannelState
        <4>3. closed \in Meter /\ closed.cumulativeSatoshis = c.channel.cumulativeSatoshis
          BY <4>1, <4>2, MoveKeeps DEF confirmClose, ChannelState
        <4>4. PICK done : done = settle(closed).value
          OBVIOUS
        <4>5. done \in Meter /\ done.cumulativeSatoshis = c.channel.cumulativeSatoshis
          BY <4>3, <4>4, MoveKeeps DEF settle, ChannelState
        <4>6. \E paid : chans' = [chans EXCEPT ![match][1].channel = done, ![match][1].paid = paid]
          BY <2>4, <3>4, <4>1, <4>4 DEF SettlementAnswered
        <4>7. PICK paid : chans' = [chans EXCEPT ![match][1].channel = done, ![match][1].paid = paid]
          BY <4>6
        <4>8. DOMAIN chans'[match] = {1} /\ Chan(match)' = [c EXCEPT !.channel = done, !.paid = paid]
          BY <1>1, <1>2, <2>3, <2>4, <4>7 DEF Chan
        <4>9. chans'[match] # <<>> /\ Chan(match)'.channel = done
          BY <2>5, <4>8, NonEmpty DEF ChannelFields
        <4> QED BY <4>5, <4>9
      <3> QED BY <1>7, <3>3, <3>4
    <2> QED BY <2>2, <2>3, <2>5, <2>6 DEF MeterRests, Cumulative
  <1> QED BY <1>4, <1>5, <1>6, <1>7

LEMMA GuestMeter ==
    ASSUME ManagerInv, MeterTyped, match \in Matches, Guest
    PROVE  MeterRests
  <1>1. DOMAIN chans = Matches /\ DOMAIN calls = Matches
    BY DEF ManagerInv
  <1>2. PICK m \in Matches \ {match} :
           \/ \E ok \in BOOLEAN : openChannel(m, ok)
           \/ /\ chans[m] # <<>> /\ Chan(m).channel.currentTick < GuestBets
              /\ \E side \in Sides :
                   \/ \E mode \in {"honest"} \union Tampers : recordBet(m, side, 1, mode)
                   \/ awardPot(m, side, 1)
           \/ settleChannel(m)
           \/ ManagerAnswers(m)
           \/ /\ calls[m].pc = "returned" /\ calls' = [calls EXCEPT ![m] = Idle]
              /\ UNCHANGED <<kernel, chans, watchlists, violations, written, tampers, faults>>
    BY DEF Guest
  <1>3. ASSUME ManagerAnswers(m)
        PROVE  chans'[match] = chans[match] /\ calls'[match] = calls[match]
    <2>1. PICK ok \in BOOLEAN :
             \/ CellCreated(m, ok)
             \/ TransitionAnswered(m, ok)
             \/ ViolationAnchored(m, ok)
             \/ FallbackAnchored(m, ok)
             \/ WatchlistWritten(m, ok)
             \/ SettlementAnswered(m, ok)
      BY <1>3 DEF ManagerAnswers
    <2>2. CASE CellCreated(m, ok)
      BY <1>1, <1>2, <2>2 DEF CellCreated
    <2>3. CASE TransitionAnswered(m, ok)
      BY <1>1, <1>2, <2>3 DEF TransitionAnswered
    <2>4. CASE ViolationAnchored(m, ok)
      BY <1>1, <1>2, <2>4 DEF ViolationAnchored
    <2>5. CASE FallbackAnchored(m, ok)
      BY <1>1, <1>2, <2>5 DEF FallbackAnchored
    <2>6. CASE WatchlistWritten(m, ok)
      BY <1>1, <1>2, <2>6 DEF WatchlistWritten
    <2>7. CASE SettlementAnswered(m, ok)
      BY <1>1, <1>2, <2>7 DEF SettlementAnswered
    <2> QED BY <2>1, <2>2, <2>3, <2>4, <2>5, <2>6, <2>7
  <1>4. chans'[match] = chans[match] /\ calls'[match] = calls[match]
    <2>1. ASSUME NEW ok \in BOOLEAN, openChannel(m, ok)
          PROVE  chans'[match] = chans[match] /\ calls'[match] = calls[match]
      BY <1>1, <1>2, <2>1 DEF openChannel
    <2>2. ASSUME NEW side \in Sides, NEW mode, recordBet(m, side, 1, mode)
          PROVE  chans'[match] = chans[match] /\ calls'[match] = calls[match]
      BY <1>1, <1>2, <2>2 DEF recordBet
    <2>3. ASSUME NEW side \in Sides, awardPot(m, side, 1)
          PROVE  chans'[match] = chans[match] /\ calls'[match] = calls[match]
      BY <1>1, <1>2, <2>3 DEF awardPot, recordBet
    <2>4. ASSUME settleChannel(m)
          PROVE  chans'[match] = chans[match] /\ calls'[match] = calls[match]
      BY <1>1, <1>2, <2>4 DEF settleChannel
    <2>5. ASSUME calls' = [calls EXCEPT ![m] = Idle], chans' = chans
          PROVE  chans'[match] = chans[match] /\ calls'[match] = calls[match]
      BY <1>1, <1>2, <2>5
    <2>6. CASE \E side \in Sides :
                   \/ \E mode \in {"honest"} \union Tampers : recordBet(m, side, 1, mode)
                   \/ awardPot(m, side, 1)
      BY <2>2, <2>3, <2>6
    <2> QED BY <1>2, <1>3, <2>1, <2>4, <2>5, <2>6
  <1>5. Failing' <=> Failing
    BY <1>4 DEF Failing
  <1> QED BY <1>4, <1>5 DEF MeterRests, MeterTyped, Chan, Cumulative
-------------------------------------------------------------------------------
(* The loop's side of the balance. *)

LEMMA DueInt ==
    ASSUME RowsInv, LoopTypeOK
    PROVE  /\ PotsPaid \in Int /\ PotInPlay \in Int /\ Owed \in Int /\ Due \in Int
           /\ books.short \in Int /\ books.lost \in Int /\ books.wager \in Int
           /\ SmallBlind \in Nat /\ BigBlind \in Nat /\ table.pot \in Int
  <1>1. hands \in Seq(HandRow) /\ books.short \in Int /\ books.lost \in Int /\ books.wager \in Int
    BY DEF RowsInv, Books
  <1>2. SmallBlind \in Nat /\ BigBlind \in Nat /\ table.pot \in Int
    BY LoopAssumption DEF LoopAssumption, LoopTypeOK, Table
  <1>3. PotsPaid \in Int
    <2>1. PICK f : PaidWalk(hands, f) /\ Paid(hands) = f[Len(hands)]
      BY <1>1, PaidWalks
    <2>2. Len(hands) \in Nat /\ Len(hands) <= Len(hands) /\ \A i \in 1..Len(hands) : hands[i] = hands[i]
      BY <1>1
    <2>3. f[Len(hands)] \in Int
      BY <1>1, <2>1, <2>2, PaidAgrees
    <2> QED BY <2>1, <2>3 DEF PotsPaid
  <1>4. PotInPlay \in Int
    BY <1>2 DEF PotInPlay
  <1>5. Unpaid(SmallBlind) \in Int /\ Unpaid(BigBlind) \in Int /\ Unpaid(books.wager) \in Int
    BY <1>1, <1>2 DEF Unpaid
  <1>6. Owed \in Int
    BY <1>1, <1>2, <1>5 DEF Owed
  <1>7. Due \in Int
    BY <1>1, <1>3, <1>4, <1>6 DEF Due
  <1> QED BY <1>1, <1>2, <1>3, <1>4, <1>6, <1>7

\* A step of the loop alone, in which nothing falls due.
LEMMA NothingDue ==
    ASSUME MetersInv, UNCHANGED <<chans, calls>>, pc' # "aborted" => pc # "aborted" /\ Due' = Due
    PROVE  MetersInv'
  <1>1. Chan(match)' = Chan(match) /\ Cumulative' = Cumulative
    BY DEF Chan, Cumulative
  <1> QED BY <1>1 DEF MetersInv

\* A step of the manager alone.
LEMMA MeterRestsInv ==
    ASSUME MeterInv, MeterRests, UNCHANGED loopVars
    PROVE  MeterInv'
  <1>1. RowsInv' /\ ChipsInv'
    BY DEF MeterInv, RowsInv, ChipsInv, InHand, loopVars
  <1>2. Owed' = Owed
    BY DEF Owed, Unpaid, MeterRests, loopVars
  <1>3. Due' = Due
    BY <1>2 DEF Due, PotsPaid, PotInPlay, InHand, loopVars
  <1>4. pc' = pc
    BY DEF loopVars
  <1> QED BY <1>1, <1>3, <1>4 DEF MeterInv, MetersInv, MeterRests

LEMMA WagerSpends ==
    ASSUME NEW p \in Player, p.chips >= 0, NEW n \in Int, n >= 0
    PROVE  /\ placeBet(p, n).chips \in 0..p.chips /\ placeBet(p, n).chips = p.chips - Wager(p, n)
           /\ Wager(p, n) \in Int /\ Wager(p, n) >= 0
  <1>1. p.chips \in Int /\ Wager(p, n) \in Int /\ Wager(p, n) >= 0 /\ Wager(p, n) <= p.chips
    BY DEF Player, Wager, Least
  <1>2. placeBet(p, n).chips = p.chips - Wager(p, n)
    BY DEF placeBet, Player
  <1> QED BY <1>1, <1>2

\* An action the policies let through, and a fold, never win chips back, and the least raise stays above zero.
LEMMA EffectSpends ==
    ASSUME LoopTypeOK, table.minRaise > 0, NEW p \in Player, p.chips >= 0, NEW d, d.amount \in Nat,
           d.action \in {"fold", "check", "call", "bet", "raise", "all-in"},
           d.action = "fold" \/ validateActionPolicy(p, d)
    PROVE  Effect(p, d).player.chips \in 0..p.chips /\ Effect(p, d).minRaise > 0
  <1>1. /\ table.currentBet \in Int /\ table.minRaise \in Int /\ BigBlind \in Nat \ {0}
        /\ p.chips \in Int /\ p.currentBet \in Int /\ p.chips \in 0..p.chips
    BY LoopAssumption DEF LoopTypeOK, Table, Player, LoopAssumption
  <1>2. \A x, y \in Int : x > 0 => Most(x, y) > 0
    BY DEF Most
  <1>3. ToCall(p) = table.currentBet - p.currentBet
    BY DEF ToCall
  <1>4. CASE d.action = "fold"
    BY <1>1, <1>4 DEF Effect, Player
  <1>5. CASE d.action = "check"
    BY <1>1, <1>5 DEF Effect
  <1>6. CASE d.action = "call"
    <2>1. ToCall(p) \in Int /\ ToCall(p) >= 0
      BY <1>1, <1>3, <1>6 DEF validateActionPolicy
    <2>2. placeBet(p, ToCall(p)).chips \in 0..p.chips
      BY <2>1, WagerSpends
    <2> QED BY <1>1, <1>6, <2>2 DEF Effect
  <1>7. CASE d.action = "bet"
    <2>1. PICK amount : amount = IF d.amount = 0 THEN BigBlind ELSE d.amount
      OBVIOUS
    <2>2. amount \in Int /\ amount > 0
      BY <1>1, <2>1
    <2>3. placeBet(p, amount).chips \in 0..p.chips
      BY <2>2, WagerSpends
    <2>4. Effect(p, d).player = placeBet(p, amount) /\ Effect(p, d).minRaise = amount
      BY <1>7, <2>1 DEF Effect
    <2> QED BY <2>2, <2>3, <2>4
  <1>8. CASE d.action = "raise"
    <2>1. PICK total : total = IF d.amount = 0 THEN table.currentBet + table.minRaise ELSE d.amount
      OBVIOUS
    <2>2. PICK q : q = placeBet(p, total - p.currentBet)
      OBVIOUS
    <2>3. total \in Int /\ total - p.currentBet \in Int /\ total - p.currentBet >= 0
      BY <1>1, <1>3, <1>8, <2>1 DEF validateActionPolicy
    <2>4. q.chips \in 0..p.chips /\ q.currentBet \in Int
      BY <2>2, <2>3, WagerSpends, PlaceBetType DEF Player
    <2>5. Effect(p, d).player = q /\ Effect(p, d).minRaise = Most(table.minRaise, total - q.currentBet)
      BY <1>8, <2>1, <2>2 DEF Effect
    <2>6. total - q.currentBet \in Int
      BY <2>3, <2>4
    <2> QED BY <1>1, <1>2, <2>4, <2>5, <2>6
  <1>9. CASE d.action = "all-in"
    <2>1. PICK q : q = placeBet(p, p.chips)
      OBVIOUS
    <2>2. q.chips \in 0..p.chips /\ q.currentBet \in Int
      BY <1>1, <2>1, WagerSpends, PlaceBetType DEF Player
    <2>3. /\ Effect(p, d).player = q
          /\ Effect(p, d).minRaise \in {table.minRaise, Most(table.minRaise, q.currentBet - table.currentBet)}
      BY <1>9, <2>1 DEF Effect
    <2>4. q.currentBet - table.currentBet \in Int
      BY <1>1, <2>2
    <2> QED BY <1>1, <1>2, <2>2, <2>3, <2>4
  <1> QED BY <1>4, <1>5, <1>6, <1>7, <1>8, <1>9

LEMMA StartMeter ==
    ASSUME LoopInv, MeterInv, StartHand
    PROVE  MeterInv'
  <1>1. PICK dealer : dealer = IF table.hand > 0 THEN Other(table.dealer) ELSE table.dealer
    OBVIOUS
  <1>2. PICK fresh : fresh = [s \in Sides |-> NewPlayer(players[s].chips)]
    OBVIOUS
  <1>3. PICK small : small = Wager(fresh[dealer], SmallBlind)
    OBVIOUS
  <1>4. PICK big : big = Wager(fresh[Other(dealer)], BigBlind)
    OBVIOUS
  <1>5. PICK row : row = [winner |-> "none", pot |-> 0]
    OBVIOUS
  <1>6. /\ pc = "loop" /\ pc' = "small" /\ UNCHANGED channelVars
        /\ table' = [hand |-> table.hand + 1, phase |-> "preflop", pot |-> small + big, currentBet |-> BigBlind,
                     minRaise |-> BigBlind, dealer |-> dealer, active |-> dealer, safety |-> Safety]
        /\ players' = [s \in Sides |-> placeBet(fresh[s], IF s = dealer THEN SmallBlind ELSE BigBlind)]
        /\ hands' = Append(hands, row)
        /\ books' = [books EXCEPT !.short = @ + (SmallBlind - small) + (BigBlind - big)]
    BY <1>1, <1>2, <1>3, <1>4, <1>5 DEF StartHand
  <1>7. /\ table \in Table /\ players \in [Sides -> Player] /\ hands \in Seq(HandRow) /\ books \in Books
        /\ Len(hands) = table.hand /\ table.hand \in Nat
        /\ SmallBlind \in Nat \ {0} /\ BigBlind \in Nat \ {0}
    BY LoopAssumption DEF LoopAssumption, LoopInv, LoopTypeOK, Table, MeterInv, RowsInv
  <1>8. dealer \in Sides /\ Other(dealer) \in Sides
    BY <1>1, <1>7 DEF Table, Other, Sides
  <1>9. ASSUME NEW s \in Sides
        PROVE  fresh[s] \in Player /\ fresh[s].chips = players[s].chips /\ fresh[s].chips >= 0
    BY <1>2, <1>7 DEF NewPlayer, Player, MeterInv, ChipsInv
  <1>10. small \in Int /\ small >= 0 /\ big \in Int /\ big >= 0
    <2>1. /\ fresh[dealer] \in Player /\ fresh[dealer].chips >= 0
          /\ fresh[Other(dealer)] \in Player /\ fresh[Other(dealer)].chips >= 0
      BY <1>8, <1>9
    <2>2. SmallBlind \in Int /\ SmallBlind >= 0 /\ BigBlind \in Int /\ BigBlind >= 0
      BY <1>7
    <2>3. small \in Int /\ small >= 0
      BY <1>3, <2>1, <2>2, WagerSpends
    <2>4. big \in Int /\ big >= 0
      BY <1>4, <2>1, <2>2, WagerSpends
    <2> QED BY <2>3, <2>4
  <1>11. ChipsInv'
    <2>1. ASSUME NEW s \in Sides PROVE players'[s].chips >= 0
      <3>1. PICK blind \in Int : blind >= 0 /\ players'[s] = placeBet(fresh[s], blind)
        BY <1>6, <1>7
      <3>2. placeBet(fresh[s], blind).chips \in 0..fresh[s].chips
        BY <1>9, <3>1, WagerSpends
      <3> QED BY <3>1, <3>2
    <2>2. table'.pot >= 0 /\ table'.minRaise > 0
      BY <1>6, <1>7, <1>10
    <2> QED BY <2>1, <2>2 DEF ChipsInv
  <1>12. row \in HandRow /\ row.pot = 0
    BY <1>5 DEF HandRow
  <1>13. /\ hands' \in Seq(HandRow) /\ Len(hands') = Len(hands) + 1 /\ hands'[Len(hands) + 1] = row
         /\ \A i \in 1..Len(hands) : hands'[i] = hands[i]
    BY <1>6, <1>7, <1>12
  <1>14. PotsPaid' = PotsPaid
    <2>1. /\ Len(hands') > 0 /\ Len(hands) = Len(hands') - 1 /\ (Len(hands') - 1) = Len(hands)
      BY <1>7, <1>13
    <2>2. Paid(hands) \in Int /\ Paid(hands') = Paid(hands) + hands'[Len(hands')].pot
      BY <1>7, <1>13, <2>1, PaidLast
    <2>3. hands'[Len(hands')].pot = 0
      BY <1>12, <1>13
    <2> QED BY <2>2, <2>3 DEF PotsPaid
  <1>15. books' \in Books /\ books'.short = books.short + (SmallBlind - small) + (BigBlind - big)
         /\ books'.lost = books.lost
    <2>1. books.short + (SmallBlind - small) + (BigBlind - big) \in Int
      BY <1>7, <1>10 DEF Books
    <2> QED BY <1>6, <1>7, <2>1 DEF Books
  <1>16. RowsInv'
    BY <1>6, <1>7, <1>12, <1>13, <1>15 DEF RowsInv
  <1>17. Due' = Due
    <2>1. PotsPaid \in Int /\ books.short \in Int /\ books.lost \in Int
      BY DueInt DEF MeterInv, LoopInv
    <2>2. Owed = 0 /\ PotInPlay = 0 /\ Owed' = SmallBlind + BigBlind /\ PotInPlay' = small + big
      BY <1>6 DEF Owed, PotInPlay, InHand
    <2> QED BY <1>7, <1>10, <1>14, <1>15, <2>1, <2>2 DEF Due
  <1>18. MetersInv'
    BY <1>6, <1>17, NothingDue DEF channelVars, MeterInv
  <1> QED BY <1>11, <1>16, <1>18 DEF MeterInv

LEMMA ActMeter ==
    ASSUME LoopInv, MeterInv, Act
    PROVE  MeterInv'
  <1>1. PICK s : s = table.active
    OBVIOUS
  <1>2. PICK p : p = players[s]
    OBVIOUS
  <1>3. /\ s \in Sides /\ Other(s) \in Sides /\ Other(s) # s /\ p \in Player /\ p.chips \in Int /\ p.chips >= 0
        /\ table \in Table /\ players \in [Sides -> Player] /\ table.pot \in Int /\ books \in Books
    BY <1>1, <1>2 DEF LoopInv, LoopTypeOK, Table, Player, Other, Sides, MeterInv, ChipsInv, RowsInv
  <1>4. PICK d \in decide(p) : executeAction(s, IF validateActionPolicy(p, d) THEN d ELSE [d EXCEPT !.action = "fold"])
    BY <1>1, <1>2 DEF Act
  <1>5. PICK done : done = IF validateActionPolicy(p, d) THEN d ELSE [d EXCEPT !.action = "fold"]
    OBVIOUS
  <1>6. /\ DOMAIN d = {"action", "amount"} /\ d.amount \in Nat
        /\ d.action \in {"fold", "check", "call", "bet", "raise", "all-in"}
    <2>1. getLegalActions(p) \subseteq {"fold", "check", "call", "bet", "raise", "all-in"}
      BY DEF getLegalActions
    <2>2. Amounts \subseteq Nat
      BY LoopAssumption DEF LoopAssumption
    <2>3. CASE d \in parseDecision(p)
      <3>1. d \in [action : getLegalActions(p), amount : Amounts]
        BY <2>3 DEF parseDecision
      <3> QED BY <2>1, <2>2, <3>1
    <2>4. CASE d = fallbackDecision(p)
      BY <2>4 DEF fallbackDecision
    <2> QED BY <2>3, <2>4 DEF decide
  <1>7. /\ done.amount \in Nat /\ done.action \in {"fold", "check", "call", "bet", "raise", "all-in"}
        /\ done.action = "fold" \/ validateActionPolicy(p, done)
    BY <1>5, <1>6
  <1>8. PICK e : e = Effect(p, done)
    OBVIOUS
  <1>9. e.player.chips \in 0..p.chips /\ e.minRaise > 0
    BY <1>3, <1>7, <1>8, EffectSpends DEF LoopInv, MeterInv, ChipsInv
  <1>10. /\ players' = [players EXCEPT ![s] = [e.player EXCEPT !.hasActed = TRUE],
                                       ![Other(s)].hasActed = @ /\ ~(e.opens /\ ~players[Other(s)].folded
                                                                     /\ ~players[Other(s)].allIn)]
         /\ table' = [table EXCEPT !.currentBet = e.bet, !.minRaise = e.minRaise, !.safety = @ - 1,
                                   !.pot = @ + p.chips - e.player.chips]
         /\ books' = [books EXCEPT !.wager = p.chips - e.player.chips]
    BY <1>2, <1>4, <1>5, <1>8 DEF executeAction
  <1>11. e.player \in Player
    BY <1>3, <1>7, <1>8, EffectType DEF LoopInv
  <1>12. /\ pc = "bet" /\ pc' = (IF books'.wager > 0 THEN "tick" ELSE "acted")
         /\ UNCHANGED <<hands, channelVars>>
    BY DEF Act
  <1>13. /\ table'.pot = table.pot + p.chips - e.player.chips /\ table'.minRaise = e.minRaise
         /\ table'.hand = table.hand
         /\ books' \in Books /\ books'.wager = p.chips - e.player.chips
         /\ books'.short = books.short /\ books'.lost = books.lost
    <2>1. p.chips - e.player.chips \in Int
      BY <1>3, <1>9
    <2> QED BY <1>3, <1>10, <2>1 DEF Table, Books
  <1>14. ChipsInv'
    <2>1. players'[s].chips = e.player.chips /\ players'[Other(s)].chips = players[Other(s)].chips
      BY <1>3, <1>10, <1>11 DEF Player
    <2>2. \A t \in Sides : t = s \/ t = Other(s)
      BY <1>3 DEF Sides, Other
    <2>3. table'.pot >= 0
      BY <1>3, <1>9, <1>13 DEF MeterInv, ChipsInv
    <2> QED BY <1>9, <1>13, <2>1, <2>2, <2>3 DEF ChipsInv, MeterInv
  <1>15. RowsInv'
    BY <1>12, <1>13 DEF RowsInv, MeterInv, InHand
  <1>16. Due' = Due
    <2>1. PotsPaid \in Int /\ books.short \in Int /\ books.lost \in Int
      BY DueInt DEF MeterInv, LoopInv
    <2>2. /\ Owed = 0 /\ PotInPlay = table.pot /\ PotInPlay' = table'.pot
          /\ Owed' = IF books'.wager > 0 THEN books'.wager ELSE 0
      BY <1>12 DEF Owed, PotInPlay, InHand
    <2>3. books'.wager >= 0 /\ books'.wager \in Int
      BY <1>3, <1>9, <1>13
    <2>4. Owed' = p.chips - e.player.chips
      BY <1>3, <1>9, <1>13, <2>2, <2>3
    <2>5. PotsPaid' = PotsPaid
      BY <1>12 DEF PotsPaid
    <2>6. e.player.chips \in Int
      BY <1>9
    <2> QED BY <1>3, <1>13, <2>1, <2>2, <2>4, <2>5, <2>6 DEF Due
  <1>17. MetersInv'
    BY <1>12, <1>16, NothingDue DEF channelVars, MeterInv
  <1> QED BY <1>14, <1>15, <1>17 DEF MeterInv

\* A hand is awarded: the pot leaves play for the table of hands.
LEMMA AwardMeter ==
    ASSUME LoopInv, MeterInv, OpponentFolded \/ Showdown
    PROVE  MeterInv'
  <1>1. PICK winner \in Sides : Award(winner)
    BY DEF OpponentFolded, Showdown, Other, Sides
  <1>2. PICK row : row = [winner |-> winner, pot |-> table.pot]
    OBVIOUS
  <1>3. /\ players' = [players EXCEPT ![winner].chips = @ + table.pot]
        /\ hands' = [hands EXCEPT ![table.hand] = row]
    BY <1>1, <1>2 DEF Award
  <1>4. /\ pc \in {"acted", "showdown"} /\ pc' = "complete" /\ UNCHANGED <<channelVars, table, books>>
    BY DEF OpponentFolded, Showdown
  <1>5. /\ table.pot \in Int /\ table.hand \in Nat /\ table.hand > 0 /\ players \in [Sides -> Player]
        /\ hands \in Seq(HandRow) /\ Len(hands) = table.hand /\ hands[table.hand].pot = 0
    BY <1>4 DEF LoopInv, LoopTypeOK, Table, MeterInv, RowsInv, InHand
  <1>6. row \in HandRow /\ row.pot = table.pot
    BY <1>2, <1>5 DEF HandRow
  <1>7. /\ hands' \in Seq(HandRow) /\ Len(hands') = Len(hands) /\ hands'[table.hand] = row
        /\ \A i \in 1..(Len(hands) - 1) : hands'[i] = hands[i]
    BY <1>3, <1>5, <1>6
  <1>8. PotsPaid' = PotsPaid + table.pot
    <2>1. Paid(hands) \in Int /\ Paid(hands') = Paid(hands) - hands[Len(hands')].pot + hands'[Len(hands')].pot
      <3>1. Len(hands') > 0 /\ \A i \in 1..(Len(hands') - 1) : hands[i] = hands'[i]
        BY <1>5, <1>7
      <3> QED BY <1>5, <1>7, <3>1, PaidLast
    <2> QED BY <1>5, <1>6, <1>7, <2>1 DEF PotsPaid
  <1>9. ChipsInv'
    <2>1. ASSUME NEW s \in Sides PROVE players'[s].chips >= 0
      <3>1. players[s].chips \in Int /\ players[s].chips >= 0 /\ table.pot >= 0
        BY <1>5 DEF Player, MeterInv, ChipsInv
      <3>2. players'[s].chips = players[s].chips \/ players'[s].chips = players[s].chips + table.pot
        BY <1>3, <1>5 DEF Player
      <3> QED BY <1>5, <3>1, <3>2
    <2> QED BY <1>4, <2>1 DEF ChipsInv, MeterInv
  <1>10. RowsInv'
    BY <1>4, <1>5, <1>7 DEF RowsInv, MeterInv, InHand
  <1>11. Due' = Due
    <2>1. PotsPaid \in Int /\ books.short \in Int /\ books.lost \in Int
      BY DueInt DEF MeterInv, LoopInv
    <2>2. Owed = 0 /\ Owed' = 0 /\ PotInPlay = table.pot /\ PotInPlay' = 0
      BY <1>4 DEF Owed, PotInPlay, InHand
    <2> QED BY <1>4, <1>5, <1>8, <2>1, <2>2 DEF Due
  <1>12. MetersInv'
    BY <1>4, <1>11, NothingDue DEF channelVars, MeterInv
  <1> QED BY <1>9, <1>10, <1>12 DEF MeterInv

\* Turns that move no chip, and the hand's cells.
LEMMA IdleMeter ==
    ASSUME LoopInv, MeterInv,
           SkipIdle \/ AnotherTurn \/ RoundCutOff \/ \E ok \in BOOLEAN : CreateHandToken(ok) \/ DealPhase(ok) \/ EndHand(ok)
    PROVE  MeterInv'
  <1>1. /\ UNCHANGED <<chans, calls, books, hands>>
        /\ table'.hand = table.hand /\ table'.pot = table.pot
        /\ table'.minRaise = table.minRaise \/ table'.minRaise = BigBlind
    BY DEF SkipIdle, AnotherTurn, RoundCutOff, CreateHandToken, DealPhase, EndHand, channelVars, LoopInv, LoopTypeOK, Table
  <1>2. \A s \in Sides : players'[s].chips = players[s].chips
    <2>1. \/ players' = players
          \/ players' = [s \in Sides |-> [players[s] EXCEPT !.currentBet = 0, !.hasActed = FALSE]]
      BY DEF SkipIdle, AnotherTurn, RoundCutOff, CreateHandToken, DealPhase, EndHand
    <2>2. ASSUME NEW q \in Player PROVE [q EXCEPT !.currentBet = 0, !.hasActed = FALSE].chips = q.chips
      BY DEF Player
    <2>3. \A s \in Sides : players[s] \in Player
      BY DEF LoopInv, LoopTypeOK
    <2> QED BY <2>1, <2>2, <2>3
  <1>3. \/ pc \in {"birth", "bet", "acted", "phase"} /\ pc' \in {"bet", "phase", "showdown", "aborted"}
        \/ pc = "complete" /\ pc' \in {"loop", "aborted"}
    BY DEF SkipIdle, AnotherTurn, RoundCutOff, CreateHandToken, DealPhase, EndHand, AfterRound
  <1>4. ChipsInv'
    BY LoopAssumption, <1>1, <1>2 DEF ChipsInv, MeterInv, LoopAssumption
  <1>5. RowsInv'
    BY <1>1, <1>3 DEF RowsInv, MeterInv, InHand
  <1>6. pc' # "aborted" => Due' = Due
    <2>1. pc' # "aborted" => Owed' = Owed /\ PotInPlay' = PotInPlay
      BY <1>1, <1>3 DEF Owed, PotInPlay, InHand
    <2>2. PotsPaid' = PotsPaid
      BY <1>1 DEF PotsPaid
    <2> QED BY <1>1, <2>1, <2>2 DEF Due
  <1>7. MetersInv'
    BY <1>1, <1>3, <1>6, NothingDue DEF MeterInv
  <1> QED BY <1>4, <1>5, <1>7 DEF MeterInv

\* A call begins: it is opened, settled, or a bet's, and then what was owed is ticked or will be lost.
LEMMA CallMeter ==
    ASSUME LoopInv, ManagerInv, MeterInv,
           SmallBlindTick \/ BigBlindTick \/ WagerTick \/ SettleChannel \/ \E ok \in BOOLEAN : OpenChannel(ok)
    PROVE  MeterInv'
  <1>1. /\ match \in Matches /\ SmallBlind \in Int /\ BigBlind \in Int /\ books.wager \in Int
        /\ UNCHANGED <<table, players, hands, books>>
    BY LoopAssumption DEF LoopAssumption, MeterInv, RowsInv, Books, SmallBlindTick, BigBlindTick, WagerTick, SettleChannel,
                          OpenChannel
  <1>2. MeterTyped
    BY DEF MeterInv, MetersInv, MeterTyped
  <1>3. ChipsInv'
    BY <1>1 DEF MeterInv, ChipsInv
  <1>4. \/ pc = "open" /\ pc' = "opening"
        \/ pc = "loop" /\ pc' = "settling"
        \/ pc = "small" /\ pc' = "smallTicked"
        \/ pc = "big" /\ pc' = "bigTicked"
        \/ pc = "tick" /\ pc' = "ticked"
    <2>1. SmallBlindTick => pc = "small" /\ pc' = "smallTicked"
      BY DEF SmallBlindTick
    <2>2. BigBlindTick => pc = "big" /\ pc' = "bigTicked"
      BY DEF BigBlindTick
    <2>3. WagerTick => pc = "tick" /\ pc' = "ticked"
      BY DEF WagerTick
    <2>4. SettleChannel => pc = "loop" /\ pc' = "settling"
      BY DEF SettleChannel
    <2>5. (\E ok \in BOOLEAN : OpenChannel(ok)) => pc = "open" /\ pc' = "opening"
      BY DEF OpenChannel
    <2> QED BY <2>1, <2>2, <2>3, <2>4, <2>5
  <1>5. RowsInv'
    BY <1>1, <1>4 DEF MeterInv, RowsInv, InHand
  <1>6. PotsPaid' = PotsPaid /\ PotInPlay' = PotInPlay
    BY <1>1, <1>4 DEF PotsPaid, PotInPlay, InHand
  <1>7. /\ PotsPaid \in Int /\ PotInPlay \in Int /\ books.short \in Int /\ books.lost \in Int
    BY DueInt DEF MeterInv, LoopInv
  <1>8. CASE SmallBlindTick \/ BigBlindTick \/ WagerTick
    <2>1. PICK sats \in Int :
             /\ \E side, mode : recordBet(match, side, sats, mode)
             /\ Owed' = Owed - sats + Unpaid(sats)'
      <3>1. CASE SmallBlindTick
        <4>1. pc = "small" /\ pc' = "smallTicked" /\ \E side, mode : recordBet(match, side, SmallBlind, mode)
          BY <3>1 DEF SmallBlindTick, Bet
        <4>2. Owed = SmallBlind + BigBlind /\ Owed' = Unpaid(SmallBlind)' + BigBlind
          BY <4>1 DEF Owed
        <4>3. Unpaid(SmallBlind)' \in Int
          BY <1>1 DEF Unpaid
        <4> QED BY <1>1, <4>1, <4>2, <4>3
      <3>2. CASE BigBlindTick
        <4>1. pc = "big" /\ pc' = "bigTicked" /\ \E side, mode : recordBet(match, side, BigBlind, mode)
          BY <3>2 DEF BigBlindTick, Bet
        <4>2. Owed = BigBlind /\ Owed' = Unpaid(BigBlind)'
          BY <4>1 DEF Owed
        <4>3. Unpaid(BigBlind)' \in Int
          BY <1>1 DEF Unpaid
        <4> QED BY <1>1, <4>1, <4>2, <4>3
      <3>3. CASE WagerTick
        <4>1. pc = "tick" /\ pc' = "ticked" /\ \E side, mode : recordBet(match, side, books.wager, mode)
          BY <3>3 DEF WagerTick, Bet
        <4>2. Owed = books.wager /\ Owed' = Unpaid(books.wager)'
          BY <1>1, <4>1 DEF Owed, Unpaid
        <4>3. Unpaid(books.wager)' \in Int
          BY <1>1 DEF Unpaid
        <4>4. Unpaid(books.wager)' = IF Failing' THEN books.wager ELSE 0
          BY <1>1 DEF Unpaid
        <4>5. \E sats \in Int : sats = books.wager /\ Unpaid(sats)' = Unpaid(books.wager)'
          BY <1>1, <4>4 DEF Unpaid
        <4> QED BY <1>1, <4>1, <4>2, <4>3, <4>5
      <3> QED BY <1>8, <3>1, <3>2, <3>3
    <2>2. /\ chans[match] # <<>> /\ chans'[match] # <<>> /\ Chan(match)'.channel \in Meter
          /\ Cumulative' = Cumulative + sats - Unpaid(sats)'
      BY <1>1, <1>2, <2>1, BetMeter
    <2>3. Owed \in Int /\ Unpaid(sats)' \in Int
      BY DueInt DEF MeterInv, LoopInv, Unpaid
    <2>4. Cumulative = Due
      BY <1>4, <2>2 DEF MeterInv, MetersInv
    <2>5. Due' = Due + sats - Unpaid(sats)'
      BY <1>1, <1>6, <1>7, <2>1, <2>3 DEF Due
    <2> QED BY <1>3, <1>5, <2>2, <2>4, <2>5 DEF MeterInv, MetersInv
  <1>9. CASE SettleChannel
    <2>1. pc = "loop" /\ pc' = "settling" /\ chans' = chans
      BY <1>9 DEF SettleChannel, settleChannel
    <2>2. Owed' = Owed
      BY <2>1 DEF Owed
    <2>3. Due' = Due
      BY <1>1, <1>6, <2>2 DEF Due
    <2> QED BY <1>3, <1>5, <2>1, <2>3 DEF MeterInv, MetersInv, Chan, Cumulative
  <1>10. ASSUME NEW ok \in BOOLEAN, OpenChannel(ok) PROVE MeterInv'
    <2>1. openChannel(match, ok) /\ pc = "open" /\ pc' = "opening"
      BY <1>10 DEF OpenChannel
    <2>2. chans'[match] # <<>> => Chan(match)'.channel \in Meter /\ Cumulative' = 0
      BY <1>1, <2>1, OpenMeter
    <2>3. hands' = <<>> /\ books'.short = 0 /\ books'.lost = 0
      BY <1>1, <2>1 DEF MeterInv, RowsInv
    <2>4. PotsPaid' = 0 /\ PotInPlay' = 0 /\ Owed' = 0
      BY <2>1, <2>3, PaidNone DEF PotsPaid, PotInPlay, InHand, Owed
    <2>5. Due' = 0
      BY <2>3, <2>4 DEF Due
    <2> QED BY <1>3, <1>5, <2>2, <2>5 DEF MeterInv, MetersInv
  <1> QED BY <1>8, <1>9, <1>10

\* A call returns: what it did not tick is lost, and a thrown small blind takes the big one with it.
LEMMA ReturnMeter ==
    ASSUME LoopInv, MeterInv,
           ChannelOpened \/ SmallBlindTicked \/ BigBlindTicked \/ WagerTicked \/ GameOver
    PROVE  MeterInv'
  <1>1. /\ UNCHANGED <<table, players, hands, chans>> /\ calls[match].pc = "returned"
        /\ SmallBlind \in Int /\ BigBlind \in Int /\ books.wager \in Int /\ books \in Books
    BY LoopAssumption DEF LoopAssumption, MeterInv, RowsInv, Books, ChannelOpened, SmallBlindTicked, BigBlindTicked,
                          WagerTicked, GameOver, Returns
  <1>2. Failing <=> Threw
    BY <1>1 DEF Failing, Threw
  <1>3. ChipsInv'
    BY <1>1 DEF MeterInv, ChipsInv
  <1>4. \/ pc = "opening" /\ pc' \in {"loop", "aborted"} /\ books' = books
        \/ pc = "settling" /\ pc' = "over" /\ books' = books
        \/ pc \in {"smallTicked", "bigTicked", "ticked"} /\ pc' \in {"birth", "big", "acted"}
    BY DEF ChannelOpened, SmallBlindTicked, BigBlindTicked, WagerTicked, GameOver, Returns
  <1>5. /\ PotsPaid \in Int /\ PotInPlay \in Int /\ books.short \in Int /\ books.lost \in Int
        /\ PotsPaid' = PotsPaid /\ PotInPlay' = PotInPlay
    BY <1>1, <1>4, DueInt DEF MeterInv, LoopInv, PotsPaid, PotInPlay, InHand
  <1>6. pc' # "aborted" => books' \in Books /\ books'.short = books.short /\ books'.lost + Owed' = books.lost + Owed
                           /\ Owed \in Int /\ Owed' \in Int
    <2>1. CASE pc \in {"opening", "settling"}
      BY <1>1, <1>4, <1>5, <2>1 DEF Owed
    <2>2. CASE SmallBlindTicked
      <3>1. PICK n \in Int : n = IF Threw THEN SmallBlind + BigBlind ELSE 0
        BY <1>1
      <3>2. /\ pc = "smallTicked" /\ pc' = (IF Threw THEN "birth" ELSE "big")
            /\ books' = [books EXCEPT !.lost = @ + n]
        BY <2>2, <3>1 DEF SmallBlindTicked, Returns
      <3>3. Owed = Unpaid(SmallBlind) + BigBlind /\ Owed' = IF Threw THEN 0 ELSE BigBlind
        BY <3>2 DEF Owed
      <3>4. Unpaid(SmallBlind) = IF Threw THEN SmallBlind ELSE 0
        BY <1>2 DEF Unpaid
      <3>5. books' \in Books /\ books'.short = books.short /\ books'.lost = books.lost + n
        BY <1>1, <1>5, <3>1, <3>2 DEF Books
      <3> QED BY <1>1, <1>5, <3>1, <3>3, <3>4, <3>5
    <2>3. CASE BigBlindTicked
      <3>1. PICK n \in Int : n = IF Threw THEN BigBlind ELSE 0
        BY <1>1
      <3>2. pc = "bigTicked" /\ pc' = "birth" /\ books' = [books EXCEPT !.lost = @ + n]
        BY <2>3, <3>1 DEF BigBlindTicked, Returns
      <3>3. Owed = Unpaid(BigBlind) /\ Owed' = 0
        BY <3>2 DEF Owed
      <3>4. Unpaid(BigBlind) = n
        BY <1>2, <3>1 DEF Unpaid
      <3>5. books' \in Books /\ books'.short = books.short /\ books'.lost = books.lost + n
        BY <1>1, <1>5, <3>1, <3>2 DEF Books
      <3> QED BY <1>5, <3>1, <3>3, <3>4, <3>5
    <2>4. CASE WagerTicked
      <3>1. PICK n \in Int : n = IF Threw THEN books.wager ELSE 0
        BY <1>1
      <3>2. pc = "ticked" /\ pc' = "acted" /\ books' = [books EXCEPT !.wager = 0, !.lost = @ + n]
        BY <2>4, <3>1 DEF WagerTicked, Returns
      <3>3. PICK zero \in Int : zero = 0
        OBVIOUS
      <3>4. books' = [books EXCEPT !.wager = zero, !.lost = @ + n] /\ books.lost + n \in Int
        BY <1>5, <3>1, <3>2, <3>3
      <3>5. Owed = Unpaid(books.wager) /\ Owed' = 0
        BY <3>2 DEF Owed
      <3>6. Unpaid(books.wager) = n
        BY <1>2, <3>1 DEF Unpaid
      <3>7. books' \in Books /\ books'.short = books.short /\ books'.lost = books.lost + n
        BY <1>1, <3>4 DEF Books
      <3> QED BY <1>5, <3>1, <3>5, <3>6, <3>7
    <2>5. ChannelOpened => pc = "opening"
      BY DEF ChannelOpened, Returns
    <2>6. GameOver => pc = "settling"
      BY DEF GameOver, Returns
    <2> QED BY <2>1, <2>2, <2>3, <2>4, <2>5, <2>6
  <1>7. RowsInv'
    BY <1>1, <1>4, <1>6 DEF MeterInv, RowsInv, InHand
  <1>8. pc' # "aborted" => Due' = Due /\ pc # "aborted"
    <2> SUFFICES ASSUME pc' # "aborted" PROVE Due' = Due /\ pc # "aborted"
      OBVIOUS
    <2>1. /\ books'.short = books.short /\ books'.lost + Owed' = books.lost + Owed
          /\ books'.lost \in Int /\ Owed' \in Int /\ Owed \in Int
      BY <1>6 DEF Books
    <2> QED BY <1>4, <1>5, <2>1 DEF Due
  <1>9. MetersInv'
    BY <1>1, <1>8 DEF MeterInv, MetersInv, Chan, Cumulative
  <1> QED BY <1>3, <1>7, <1>9 DEF MeterInv

LEMMA MeterInitInv == Init => MeterInv
  <1> SUFFICES ASSUME Init PROVE MeterInv
    OBVIOUS
  <1>1. setting.chips \in Nat /\ BigBlind \in Nat \ {0} /\ match \in Matches
    BY LoopAssumption DEF Init, LoopAssumption
  <1>2. /\ hands = <<>> /\ table.hand = 0 /\ table.pot = 0 /\ table.minRaise = BigBlind
        /\ books = [wager |-> 0, short |-> 0, lost |-> 0] /\ pc = "open"
        /\ \A s \in Sides : players[s].chips = setting.chips
    BY DEF Init, NewPlayer, StartingChips
  <1>3. hands \in Seq(HandRow) /\ Len(hands) = 0
    BY <1>2
  <1>4. RowsInv
    BY <1>2, <1>3 DEF RowsInv, Books, InHand
  <1>5. ChipsInv
    BY <1>1, <1>2 DEF ChipsInv
  <1>6. chans[match] = <<>>
    BY <1>1 DEF Init, ChannelInit
  <1> QED BY <1>4, <1>5, <1>6 DEF MeterInv, MetersInv

LEMMA MeterNextInv == LoopInv /\ ManagerInv /\ MeterInv /\ [Next]_vars => MeterInv'
  <1> SUFFICES ASSUME LoopInv, ManagerInv, MeterInv, [Next]_vars PROVE MeterInv'
    OBVIOUS
  <1>1. match \in Matches /\ MeterTyped
    BY LoopAssumption DEF LoopAssumption, MeterInv, MetersInv, MeterTyped
  <1>2. CASE LoopStep
    BY <1>2, StartMeter, ActMeter, AwardMeter, IdleMeter, CallMeter, ReturnMeter DEF LoopStep, Turn
  <1>3. CASE Answers
    BY <1>1, <1>3, AnswersMeter, MeterRestsInv DEF Answers
  <1>4. CASE Guest
    <2>1. UNCHANGED loopVars
      BY <1>4 DEF Guest
    <2> QED BY <1>1, <1>4, <2>1, GuestMeter, MeterRestsInv
  <1>5. CASE Done \/ UNCHANGED vars
    <2>1. UNCHANGED loopVars /\ chans' = chans /\ calls' = calls
      BY <1>5 DEF Done, vars, channelVars
    <2>2. MeterRests
      BY <1>1, <2>1 DEF MeterRests, MeterTyped, Failing, Chan, Cumulative
    <2> QED BY <2>1, <2>2, MeterRestsInv
  <1> QED BY <1>2, <1>3, <1>4, <1>5 DEF Next

\* A channel's meter is the pots played for, less the ticks that threw and with the blinds a short stack
\* could not place, for any number of hands and matches, whatever is tampered with, rejected or lost
\* (recordBet and the loop's calls of it).
THEOREM MeterAlwaysExplained == Spec => []MeterExplainsPots
  <1>1. LoopInv /\ MeterInv => MeterExplainsPots
    <2> SUFFICES ASSUME LoopInv, MeterInv, pc \in {"bet", "acted", "phase", "showdown", "loop", "complete"},
                        chans[match] # <<>>
                 PROVE  Cumulative + books.lost = PotsPaid + PotInPlay + books.short
      BY DEF MeterExplainsPots, Cumulative
    <2>1. Cumulative = Due
      BY DEF MeterInv, MetersInv
    <2>2. Owed = 0
      BY DEF Owed
    <2>3. /\ PotsPaid \in Int /\ PotInPlay \in Int /\ books.short \in Int /\ books.lost \in Int
      BY DueInt DEF MeterInv, LoopInv
    <2> QED BY <2>1, <2>2, <2>3 DEF Due
  <1> QED BY <1>1, LoopInitInv, LoopNextInv, ManagerInitInv, ManagerNextInv, MeterInitInv, MeterNextInv, PTL DEF Spec, LoopInv
===============================================================================
