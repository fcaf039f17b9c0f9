------------------------------- MODULE PokerTable -------------------------------
(***************************************************************************)
(* One poker table of src/src/engine/poker-table-engine.ts: runTableEngine *)
(* with the heuristic players every floor table seats.                     *)
(*                                                                         *)
(* Cards, personas' random draws and hand strengths decide only which of   *)
(* the heuristic's answers a player gives and who wins a showdown: both    *)
(* are nondeterministic here.  Every answer is checked by the kernel's     *)
(* predicates and replaced by fold or check when they refuse it, as in the *)
(* code.  The audit log keeps one entry per state cell.                    *)
(***************************************************************************)
EXTENDS Integers, Sequences, FiniteSets

CONSTANTS
    NumSeats, StartingChips, SmallBlind, BigBlind,  \* TableRunnerConfig
    HandsPerTable,                                  \* TableRunnerConfig; bounds a behaviour
    EliminationMode,                                \* TableRunnerConfig: replace busted players or rebuy
    Aggression                                      \* the personas' aggression, in percent

ASSUME TableAssumption ==
    /\ NumSeats \in Nat /\ NumSeats >= 2
    /\ SmallBlind \in Nat \ {0} /\ BigBlind \in Nat /\ StartingChips \in Nat
    /\ SmallBlind <= BigBlind /\ BigBlind <= StartingChips
    /\ HandsPerTable \in Nat
    /\ EliminationMode \in BOOLEAN
    /\ Aggression \subseteq 5..95        \* adaptPersona clamps it to [0.05, 0.95]

VARIABLES
    seats,              \* SeatState of every seat
    pc,                 \* where runTableEngine is
    hand,               \* h
    phase,              \* betting round of the hand
    pot, currentBet,    \* of the hand
    dealerIdx,
    startIdx,           \* the seat whose turn it is
    actedCount, playersToAct,
    cells,              \* cellAuditLog
    cellVersion,
    handCellStartIdx,   \* cells already reported with a hand
    winner,             \* seat that won the last showdown
    eliminations,       \* totalEliminations
    entered             \* history: playersToAct when the round began

gameVars  == <<seats, pc, phase, pot, currentBet, startIdx, actedCount, playersToAct, entered, winner>>
tableVars == <<gameVars, hand, dealerIdx, cells, cellVersion, handCellStartIdx, eliminations>>

Seats  == 0..(NumSeats - 1)
Phases == <<"preflop", "flop", "turn", "river">>

Seat == [player : Nat, chips : Nat, currentBet : Nat, folded : BOOLEAN, allIn : BOOLEAN]
CellKind == {"preflop", "flop", "turn", "river", "complete", "elimination", "rebuy"}
Cell == [kind : CellKind, hand : Nat, version : Nat, reports : Nat]

Fresh(player) == [player |-> player, chips |-> StartingChips, currentBet |-> 0,
                  folded |-> FALSE, allIn |-> FALSE]

smaller(a, b) == IF a <= b THEN a ELSE b
larger(a, b)  == IF a >= b THEN a ELSE b

Seated(k) == k % NumSeats
sbIdx == Seated(dealerIdx + 1)
bbIdx == Seated(dealerIdx + 2)

TableInit ==
    /\ seats = [i \in Seats |-> Fresh(i)]
    /\ pc = IF HandsPerTable = 0 THEN "done" ELSE "topup"
    /\ hand = 0 /\ phase = 1 /\ pot = 0 /\ currentBet = 0
    /\ dealerIdx = 0 /\ startIdx = 0 /\ actedCount = 0 /\ playersToAct = 0 /\ entered = 0
    /\ cells = <<>> /\ cellVersion = 0 /\ handCellStartIdx = 0
    /\ winner = 0 /\ eliminations = 0

\* The log entry of a state cell; a cell already handed to onCells carries reports = 1.
NewCell(kind, version, reports) == [kind |-> kind, hand |-> hand, version |-> version, reports |-> reports]
-------------------------------------------------------------------------------
(* Before a hand: every seat below one big blind, in seat order. *)

Short == {i \in Seats : seats[i].chips < BigBlind}

\* The cell carries the version before the increment and is reported at once.
LogTopUp(kind) == Append(cells, NewCell(kind, cellVersion, 1))

TopUp(i, player, kind) ==
    /\ seats' = [seats EXCEPT ![i].player = player, ![i].chips = StartingChips]
    /\ cells' = LogTopUp(kind)
    /\ cellVersion' = cellVersion + 1
    /\ UNCHANGED <<pc, hand, phase, pot, currentBet, dealerIdx, startIdx, actedCount, playersToAct,
                   entered, handCellStartIdx, winner>>

FirstShort(i) == pc = "topup" /\ i \in Short /\ \A j \in Short : i <= j

\* Every onElimination of the repository returns a fresh player; the busted one's chips leave the game.
Eliminate(i) ==
    /\ EliminationMode
    /\ TopUp(i, NumSeats + eliminations, "elimination")
    /\ eliminations' = eliminations + 1

Rebuy(i) ==
    /\ ~EliminationMode
    /\ TopUp(i, seats[i].player, "rebuy")
    /\ UNCHANGED eliminations

\* The engine's mode decides which of the two a short seat gets.
RefillSeat(i) == FirstShort(i) /\ (Eliminate(i) \/ Rebuy(i))
-------------------------------------------------------------------------------
(* Dealing a hand, and the start of a betting round. *)

CanAct(seat) == ~seat.folded /\ ~seat.allIn /\ seat.chips > 0

ToAct(table) == Cardinality({i \in Seats : CanAct(table[i])})

BeginPhase(k, first, table) ==
    /\ phase' = k
    /\ startIdx' = first
    /\ actedCount' = 0
    /\ playersToAct' = ToAct(table)
    /\ entered' = ToAct(table)

Posted(i) == IF i = sbIdx THEN smaller(SmallBlind, seats[i].chips)
             ELSE IF i = bbIdx THEN smaller(BigBlind, seats[i].chips) ELSE 0

Blinds == Posted(sbIdx) + Posted(bbIdx)

\* Mutant: the bet to call is left at zero although the blinds are posted.
NoOpeningBet == 0

OpeningBet == Posted(bbIdx)

StartHand ==
    /\ pc = "topup" /\ Short = {}
    /\ pc' = "betting"
    /\ seats' = [i \in Seats |-> [player |-> seats[i].player, chips |-> seats[i].chips - Posted(i),
                                  currentBet |-> Posted(i), folded |-> seats[i].chips <= 0, allIn |-> FALSE]]
    /\ pot' = Blinds
    /\ currentBet' = OpeningBet
    /\ cellVersion' = cellVersion + 1
    /\ cells' = Append(cells, NewCell("preflop", cellVersion', 0))
    /\ BeginPhase(1, Seated(bbIdx + 1), seats')
    /\ UNCHANGED <<hand, dealerIdx, handCellStartIdx, winner, eliminations>>
-------------------------------------------------------------------------------
(* A turn: the heuristic's answer, the kernel's verdict, and its effect. *)

Answer(action, amount) == [action |-> action, amount |-> amount]

BetSizes    == {larger(BigBlind, (pot * (100 + a)) \div 200) : a \in Aggression}
RaiseSizes(toCall) == {larger(BigBlind, (toCall * (150 + a)) \div 100) : a \in Aggression}

\* selectHeuristicAction, for every draw of its random numbers and every hand strength.
selectHeuristicAction(seat) ==
    LET toCall == currentBet - seat.currentBet
        bets   == {Answer("bet", smaller(size, seat.chips)) : size \in BetSizes}
        raises == {Answer("raise", smaller(size, seat.chips)) : size \in RaiseSizes(toCall)}
    IN  IF toCall = 0
        THEN bets \cup {Answer("check", 0)}
        ELSE {Answer("fold", 0)}
             \cup (IF seat.chips > toCall * 2 THEN raises ELSE {})
             \cup (IF seat.chips >= toCall THEN {Answer("call", toCall)}
                                           ELSE {Answer("all-in", seat.chips)})

\* validateActionViaKernel: the engine always names the asking player as the active one.
Valid(answer, toCall, chips) ==
    CASE answer.action = "fold"   -> TRUE
      [] answer.action = "check"  -> toCall = 0
      [] answer.action = "call"   -> toCall > 0
      [] answer.action = "bet"    -> toCall = 0 /\ answer.amount >= BigBlind
      [] answer.action = "raise"  -> toCall > 0 /\ answer.amount - toCall >= BigBlind
      [] answer.action = "all-in" -> chips > 0

Fallback(seat) == IF currentBet > seat.currentBet THEN Answer("fold", 0) ELSE Answer("check", 0)

Decision(seat, answer) ==
    IF Valid(answer, currentBet - seat.currentBet, seat.chips) THEN answer ELSE Fallback(seat)

\* Mutant: an all-in moves one chip more than the player has.
MovedTooMuch(seat, d) ==
    CASE d.action = "call"            -> currentBet - seat.currentBet
      [] d.action \in {"bet", "raise"} -> smaller(d.amount, seat.chips)
      [] d.action = "all-in"          -> seat.chips + 1
      [] OTHER                        -> 0

Moved(seat, d) ==
    CASE d.action = "call"            -> smaller(currentBet - seat.currentBet, seat.chips)
      [] d.action \in {"bet", "raise"} -> smaller(d.amount, seat.chips)
      [] d.action = "all-in"          -> seat.chips
      [] OTHER                        -> 0

Raises(seat, d) == d.action \in {"bet", "raise", "all-in"} /\ seat.currentBet + Moved(seat, d) > currentBet

\* Mutant: a raise does not reopen the betting.
CountNoReopen(seat, d) == actedCount + 1

\* Mutant: only raises are counted.
CountRaises(seat, d) == IF d.action # "all-in" /\ Raises(seat, d) THEN 1 ELSE actedCount

\* Only a bet or raise reopens the betting; going all in does not, even above the current bet.
Acted(seat, d) == IF d.action # "all-in" /\ Raises(seat, d) THEN 1 ELSE actedCount + 1

\* The round ends when enough players acted, or none is left to act.
RoundOver == playersToAct <= 1 \/ actedCount >= playersToAct

Turn == pc = "betting" /\ ~RoundOver /\ startIdx' = Seated(startIdx + 1)

Apply(d) ==
    LET seat  == seats[startIdx]
        moved == Moved(seat, d)
    IN  /\ seats' = [seats EXCEPT ![startIdx] =
                        [seat EXCEPT !.chips = @ - moved, !.currentBet = @ + moved,
                                     !.folded = d.action = "fold", !.allIn = d.action = "all-in"]]
        /\ pot' = pot + moved
        /\ currentBet' = IF Raises(seat, d) THEN seat.currentBet + moved ELSE currentBet
        /\ actedCount' = Acted(seat, d)
        /\ playersToAct' = playersToAct - (IF d.action \in {"fold", "all-in"} THEN 1 ELSE 0)

Act(d) ==
    /\ Turn
    /\ CanAct(seats[startIdx])
    /\ Apply(d)
    /\ UNCHANGED <<pc, hand, phase, dealerIdx, cells, cellVersion, handCellStartIdx, winner,
                   eliminations, entered>>

Decisions == {Decision(seats[startIdx], answer) : answer \in selectHeuristicAction(seats[startIdx])}

\* A seat that folded, is all in or has no chips is passed over without being counted.
Skip ==
    /\ Turn
    /\ ~CanAct(seats[startIdx])
    /\ UNCHANGED <<seats, pc, hand, phase, pot, currentBet, dealerIdx, actedCount, playersToAct, cells,
                   cellVersion, handCellStartIdx, winner, eliminations, entered>>
-------------------------------------------------------------------------------
(* The end of a round and of a hand. *)

Contenders == {i \in Seats : ~seats[i].folded}

\* Mutant: the version is read before it is incremented, as it is for a top-up cell.
PhaseCellEarly == NewCell(Phases[phase], cellVersion, 0)

PhaseCell == NewCell(Phases[phase], cellVersion + 1, 0)

EndPhase ==
    /\ pc = "betting" /\ RoundOver
    /\ seats' = [i \in Seats |-> [seats[i] EXCEPT !.currentBet = 0]]
    /\ currentBet' = 0
    /\ cellVersion' = cellVersion + 1
    /\ cells' = Append(cells, PhaseCell)
    /\ IF Cardinality(Contenders) <= 1 \/ phase = Len(Phases)
       THEN pc' = "showdown" /\ UNCHANGED <<phase, startIdx, actedCount, playersToAct, entered>>
       ELSE BeginPhase(phase + 1, Seated(dealerIdx + 1), seats') /\ UNCHANGED pc
    /\ UNCHANGED <<hand, pot, dealerIdx, handCellStartIdx, winner, eliminations>>

\* Mutant: the best hand wins although its player folded.
AllSeats == Seats

Eligible == Contenders

Showdown ==
    /\ pc = "showdown"
    /\ winner' \in Eligible
    /\ seats' = [seats EXCEPT ![winner'].chips = @ + pot]
    /\ cellVersion' = cellVersion + 1
    /\ cells' = Append(cells, NewCell("complete", cellVersion', 0))
    /\ pc' = "complete"
    /\ UNCHANGED <<hand, phase, pot, currentBet, dealerIdx, startIdx, actedCount, playersToAct,
                   handCellStartIdx, eliminations, entered>>

\* The cells handed to onCells with the hand: everything since the last hand's report.
ReportedNow(i) == i > handCellStartIdx

\* onHandComplete, onCells, and on to the next hand.
CompleteHand ==
    /\ pc = "complete"
    /\ cells' = [i \in DOMAIN cells |-> IF ReportedNow(i) THEN [cells[i] EXCEPT !.reports = @ + 1] ELSE cells[i]]
    /\ handCellStartIdx' = Len(cells)
    /\ dealerIdx' = Seated(dealerIdx + 1)
    /\ hand' = hand + 1
    /\ pc' = IF hand + 1 < HandsPerTable THEN "topup" ELSE "done"
    /\ UNCHANGED <<seats, phase, pot, currentBet, startIdx, actedCount, playersToAct, cellVersion,
                   winner, eliminations, entered>>

TableNext ==
    \/ \E i \in Seats : RefillSeat(i)
    \/ StartHand
    \/ \E d \in Decisions : Act(d)
    \/ Skip
    \/ EndPhase
    \/ Showdown
    \/ CompleteHand

\* One thread runs the table: nothing but the end of its hands stops it.
TableSpec == TableInit /\ [][TableNext]_tableVars /\ WF_tableVars(TableNext)
-------------------------------------------------------------------------------
(* Properties *)

TableTypeOK ==
    /\ seats \in [Seats -> Seat]
    /\ pc \in {"topup", "betting", "showdown", "complete", "done"}
    /\ hand \in Nat /\ pot \in Nat /\ currentBet \in Nat
    /\ phase \in 1..Len(Phases)
    /\ dealerIdx \in Seats /\ startIdx \in Seats /\ winner \in Seats
    /\ actedCount \in Nat /\ playersToAct \in Nat /\ entered \in Nat
    /\ cells \in Seq(Cell) /\ cellVersion \in Nat
    /\ handCellStartIdx \in 0..Len(cells)
    /\ eliminations \in Nat

\* While a hand is bet, nobody has put in more than the bet to call and some player still in the hand
\* has put in exactly that: the amount to call is never negative, and whoever holds the bet cannot be
\* made to fold, so that the showdown has a contender and `winner.chips += pot` (964-974) a winner.
BetIsHeld ==
    /\ pc = "betting" =>
          /\ \A i \in Seats : seats[i].currentBet <= currentBet
          /\ \E i \in Contenders : seats[i].currentBet = currentBet
    /\ pc = "showdown" => Contenders # {}

\* A round that began with two players able to act or more, and in which nobody folded or went all in,
\* ends with every player still in the hand having matched the bet, or having nothing left to match it
\* with (the counting of 816-935).  With a fold or an all-in the code may close a round early.
RoundClosesMatched ==
    pc = "betting" /\ RoundOver /\ playersToAct = entered /\ entered > 1 =>
        \A i \in Contenders : seats[i].currentBet = currentBet \/ ~CanAct(seats[i])

TopUpCell(c) == c.kind \in {"elimination", "rebuy"}

HandCells(h) == {i \in DOMAIN cells : cells[i].hand = h /\ ~TopUpCell(cells[i])}

\* The cells of a played hand stand together in the log: its deal, its betting rounds in order as far
\* as they were played, and its result.
HandChains ==
    \A h \in 0..(hand - 1) : \E first \in DOMAIN cells, n \in 3..6 :
        /\ HandCells(h) = first..(first + n - 1)
        /\ \A k \in 1..n : cells[first + k - 1].kind = IF k = 1 THEN "preflop"
                                                       ELSE IF k = n THEN "complete" ELSE Phases[k - 1]

\* Versions count the cells of the table, over all its hands; a top-up cell repeats the version before.
CellsNumbered == \A i \in DOMAIN cells : cells[i].version = IF TopUpCell(cells[i]) THEN i - 1 ELSE i

\* A cell is reported with its hand, and a top-up cell once more, at once.
CellsReported ==
    \A i \in DOMAIN cells : cells[i].reports = (IF TopUpCell(cells[i]) THEN 1 ELSE 0)
                                               + (IF cells[i].hand < hand THEN 1 ELSE 0)

\* What the audit log and onCells (648-740, 942-1046) show of a table: hand by hand an unbroken chain of
\* cells, no version skipped, none repeated but by a rebuy or an elimination, no cell unreported.
HandCellsInOrder == HandChains /\ CellsNumbered /\ CellsReported

\* Nobody can act, yet the round waits for more answers: the loop of 819-936 spins for ever.
Stalled == pc = "betting" /\ ~RoundOver /\ \A i \in Seats : ~CanAct(seats[i])

\* Every hand that is dealt produces its whole chain of cells (README.md:155).
EveryHandCompletes ==
    \A h \in 0..(HandsPerTable - 1) : (hand = h /\ pc = "betting") ~> (hand > h)

\* What the betting promises: chips move only from a contender into the pot and from the whole pot
\* to one contender.
Pot == INSTANCE PotGame WITH
    stack      <- [i \in Seats |-> seats[i].chips],
    pot        <- IF pc \in {"betting", "showdown"} THEN pot ELSE 0,
    contenders <- IF pc \in {"betting", "showdown"} THEN Contenders ELSE {}

ImplementsPotGame == Pot!Spec
===============================================================================
