---------------------------- MODULE PokerTableProofs ----------------------------
(***************************************************************************)
(* Proofs about one poker table, for every number of seats, every stack    *)
(* and blind size, every number of hands and both ways to fill up stacks.  *)
(***************************************************************************)
EXTENDS PokerTable, FiniteSetTheorems, SequenceTheorems, TLAPS

-------------------------------------------------------------------------------
(* Facts about the helpers. *)

LEMMA SeatedRange ==
    ASSUME NEW k \in Nat
    PROVE  Seated(k) \in Seats
  BY TableAssumption DEF Seated, Seats, TableAssumption

\* The two blinds are posted by different seats.
LEMMA BlindsDiffer ==
    ASSUME NEW d \in Seats
    PROVE  Seated(d + 1) # Seated(d + 2)
  <1>1. NumSeats \in Nat /\ NumSeats >= 2 /\ d \in 0..(NumSeats - 1)
    BY TableAssumption DEF Seats, TableAssumption
  <1> QED BY <1>1 DEF Seated

LEMMA ToActType ==
    ASSUME NEW table
    PROVE  ToAct(table) \in Nat
  <1>1. IsFiniteSet(Seats)
    BY TableAssumption, FS_Interval DEF Seats, TableAssumption
  <1>2. IsFiniteSet({i \in Seats : CanAct(table[i])})
    BY <1>1, FS_Subset
  <1> QED BY <1>2, FS_CardinalityType DEF ToAct

\* Marking log entries keeps the log a sequence of cells (the report of 1040-1046).
LEMMA MarkedCells ==
    ASSUME NEW log \in Seq(Cell), NEW marked,
           marked = [i \in DOMAIN log |-> IF ReportedNow(i) THEN [log[i] EXCEPT !.reports = @ + 1] ELSE log[i]]
    PROVE  marked \in Seq(Cell) /\ Len(marked) = Len(log)
  <1>1. Len(log) \in Nat /\ DOMAIN log = 1..Len(log) /\ \A i \in 1..Len(log) : log[i] \in Cell
    OBVIOUS
  <1>2. ASSUME NEW i \in 1..Len(log) PROVE marked[i] \in Cell
    <2>1. log[i] \in Cell
      BY <1>1
    <2> DEFINE n == log[i].reports + 1
    <2>2. n \in Nat
      BY <2>1 DEF Cell
    <2>3. [log[i] EXCEPT !.reports = n] \in Cell
      <3> HIDE DEF n
      <3> QED BY <2>1, <2>2 DEF Cell
    <2> QED BY <1>1, <2>1, <2>3
  <1>3. marked \in [1..Len(log) -> Cell]
    BY <1>1, <1>2
  <1> QED BY <1>1, <1>3, SeqDef

\* A new entry of the log.
LEMMA LogCell ==
    ASSUME NEW log \in Seq(Cell), NEW kind \in CellKind, NEW version \in Nat, NEW n \in Nat, hand \in Nat
    PROVE  /\ Append(log, NewCell(kind, version, n)) \in Seq(Cell)
           /\ Len(Append(log, NewCell(kind, version, n))) = Len(log) + 1
  <1>1. NewCell(kind, version, n) \in Cell
    BY DEF NewCell, Cell
  <1> HIDE DEF NewCell
  <1> QED BY <1>1

\* Appending an entry keeps the part of the log already reported within the log.
LEMMA LogGrows ==
    ASSUME TableTypeOK, NEW kind \in CellKind, NEW version \in Nat, NEW n \in Nat,
           cells' = Append(cells, NewCell(kind, version, n)), handCellStartIdx' = handCellStartIdx
    PROVE  cells' \in Seq(Cell) /\ handCellStartIdx' \in 0..Len(cells')
  <1>1. cells \in Seq(Cell) /\ hand \in Nat /\ handCellStartIdx \in 0..Len(cells)
    BY DEF TableTypeOK
  <1>2. cells' \in Seq(Cell) /\ Len(cells') = Len(cells) + 1
    BY <1>1, LogCell
  <1> QED BY <1>1, <1>2

-------------------------------------------------------------------------------
(* A turn. *)

\* Every answer the kernel lets pass names a known action and a natural amount, folds only with
\* something to call, and goes all in only with less than the bet to call.
LEMMA DecisionFacts ==
    ASSUME NEW seat \in Seat, pot \in Nat, currentBet \in Nat, seat.currentBet <= currentBet,
           NEW answer \in selectHeuristicAction(seat), NEW d, d = Decision(seat, answer)
    PROVE  /\ d.action \in {"fold", "check", "call", "bet", "raise", "all-in"}
           /\ d.amount \in Nat
           /\ d.action = "fold" => seat.currentBet < currentBet
  <1> DEFINE toCall == currentBet - seat.currentBet
  <1>1. seat.chips \in Nat /\ seat.currentBet \in Nat /\ toCall \in Nat
    BY DEF Seat
  <1>2. BigBlind \in Nat
    BY TableAssumption DEF TableAssumption
  <1>3. \A size \in BetSizes : size \in Nat
    <2> SUFFICES ASSUME NEW a \in Aggression
                 PROVE  larger(BigBlind, (pot * (100 + a)) \div 200) \in Nat
      BY DEF BetSizes
    <2> DEFINE m == pot * (100 + a)
    <2>1. m \in Int
      BY TableAssumption DEF TableAssumption
    <2>2. m \div 200 \in Int
      <3> HIDE DEF m
      <3> QED BY <2>1
    <2> DEFINE q == m \div 200
    <2> HIDE DEF q
    <2>3. larger(BigBlind, q) \in Nat
      BY <1>2, <2>2 DEF larger, q
    <2> QED BY <2>3 DEF q
  <1>4. \A size \in RaiseSizes(toCall) : size \in Nat
    <2> SUFFICES ASSUME NEW a \in Aggression
                 PROVE  larger(BigBlind, (toCall * (150 + a)) \div 100) \in Nat
      BY DEF RaiseSizes
    <2> DEFINE m == toCall * (150 + a)
    <2>1. m \in Int
      <3>1. a \in Int
        BY TableAssumption DEF TableAssumption
      <3> HIDE DEF toCall
      <3> QED BY <1>1, <3>1
    <2>2. m \div 100 \in Int
      <3> HIDE DEF m
      <3> QED BY <2>1
    <2> DEFINE q == m \div 100
    <2> HIDE DEF q
    <2>3. larger(BigBlind, q) \in Nat
      BY <1>2, <2>2 DEF larger, q
    <2> QED BY <2>3 DEF q
  <1>5. /\ answer.action \in {"fold", "check", "call", "bet", "raise", "all-in"}
        /\ answer.amount \in Nat
        /\ answer.action = "fold" => toCall # 0
    <2> DEFINE bets   == {Answer("bet", smaller(size, seat.chips)) : size \in BetSizes}
               raises == {Answer("raise", smaller(size, seat.chips)) : size \in RaiseSizes(toCall)}
    <2>1. \A b \in bets : b.action = "bet" /\ b.amount \in Nat
      BY <1>1, <1>3 DEF Answer, smaller
    <2>2. \A r \in raises : r.action = "raise" /\ r.amount \in Nat
      BY <1>1, <1>4 DEF Answer, smaller
    <2>3. CASE toCall = 0
      <3>1. answer \in bets \cup {Answer("check", 0)}
        BY <2>3 DEF selectHeuristicAction
      <3> QED BY <2>1, <2>3, <3>1 DEF Answer
    <2>4. CASE toCall # 0
      <3>1. \/ answer = Answer("fold", 0)
            \/ answer \in raises
            \/ answer = Answer("call", toCall)
            \/ answer = Answer("all-in", seat.chips)
        <4> HIDE DEF bets
        <4> QED BY <2>4 DEF selectHeuristicAction
      <3> QED BY <1>1, <2>2, <2>4, <3>1 DEF Answer
    <2> QED BY <2>3, <2>4
  <1>6. CASE d = answer
    BY <1>1, <1>5, <1>6 DEF Seat
  <1>7. CASE d = Fallback(seat)
    BY <1>1, <1>7 DEF Fallback, Answer
  <1> QED BY <1>6, <1>7 DEF Decision

\* What a turn does to the seat, the pot and the bet to call.
LEMMA TurnStep ==
    ASSUME TableTypeOK, pc = "betting", \A i \in Seats : seats[i].currentBet <= currentBet,
           NEW d \in Decisions, Act(d)
    PROVE  LET seat  == seats[startIdx]
               moved == Moved(seat, d)
           IN  /\ moved \in 0..seat.chips
               /\ seats' \in [Seats -> Seat]
               /\ \A i \in Seats : i # startIdx => seats'[i] = seats[i]
               /\ seats'[startIdx].chips = seat.chips - moved
               /\ seats'[startIdx].currentBet = seat.currentBet + moved
               /\ seats'[startIdx].folded = (d.action = "fold")
               /\ seats'[startIdx].player = seat.player
               /\ pot' = pot + moved
               /\ currentBet' \in Nat
               /\ seat.currentBet + moved <= currentBet'
               /\ currentBet <= currentBet'
               /\ currentBet' # currentBet => currentBet' = seat.currentBet + moved /\ d.action # "fold"
               /\ d.action = "fold" => moved = 0 /\ seat.currentBet < currentBet
               /\ actedCount' \in Nat /\ playersToAct' \in Nat /\ startIdx' \in Seats
  <1> DEFINE seat  == seats[startIdx]
             moved == Moved(seat, d)
  <1>1. seat \in Seat /\ startIdx \in Seats
    BY DEF TableTypeOK
  <1>2. /\ seat.chips \in Nat /\ seat.currentBet \in Nat /\ seat.currentBet <= currentBet
        /\ currentBet \in Nat /\ pot \in Nat
    BY <1>1 DEF Seat, TableTypeOK
  <1>3. PICK answer \in selectHeuristicAction(seat) : d = Decision(seat, answer)
    BY DEF Decisions
  <1>4. /\ d.action \in {"fold", "check", "call", "bet", "raise", "all-in"}
        /\ d.amount \in Nat
        /\ d.action = "fold" => seat.currentBet < currentBet
    BY <1>1, <1>2, <1>3, DecisionFacts
  <1>5. /\ moved \in 0..seat.chips
        /\ d.action \in {"fold", "check"} => moved = 0
        /\ d.action = "call" => moved <= currentBet - seat.currentBet
    BY <1>2, <1>4 DEF Moved, smaller
  <1>6. Raises(seat, d) <=> d.action \in {"bet", "raise", "all-in"} /\ seat.currentBet + moved > currentBet
    BY DEF Raises
  <1>7. /\ Apply(d) /\ Turn
        /\ currentBet' = IF Raises(seat, d) THEN seat.currentBet + moved ELSE currentBet
        /\ pot' = pot + moved
        /\ actedCount' = Acted(seat, d)
        /\ playersToAct' = playersToAct - (IF d.action \in {"fold", "all-in"} THEN 1 ELSE 0)
    BY DEF Act, Apply
  <1> HIDE DEF moved
  <1>8. /\ currentBet' \in Nat
        /\ seat.currentBet + moved <= currentBet'
        /\ currentBet <= currentBet'
        /\ currentBet' # currentBet => currentBet' = seat.currentBet + moved /\ d.action # "fold"
    <2>1. CASE Raises(seat, d)
      BY <1>2, <1>5, <1>6, <1>7, <2>1
    <2>2. CASE ~Raises(seat, d)
      BY <1>2, <1>4, <1>5, <1>6, <1>7, <2>2
    <2> QED BY <2>1, <2>2
  <1>9. actedCount' \in Nat
    BY <1>7 DEF Acted, TableTypeOK
  <1>10. playersToAct' \in Nat
    BY <1>7 DEF Turn, RoundOver, TableTypeOK
  <1>11. startIdx' \in Seats
    <2>1. startIdx + 1 \in Nat
      BY <1>1, TableAssumption DEF Seats, TableAssumption
    <2> QED BY <1>7, <2>1, SeatedRange DEF Turn
  <1>12. /\ seats' \in [Seats -> Seat]
         /\ \A i \in Seats : i # startIdx => seats'[i] = seats[i]
         /\ seats'[startIdx].chips = seat.chips - moved
         /\ seats'[startIdx].currentBet = seat.currentBet + moved
         /\ seats'[startIdx].folded = (d.action = "fold")
         /\ seats'[startIdx].player = seat.player
    <2> DEFINE left   == seat.chips - moved
               bet    == seat.currentBet + moved
               folded == (d.action = "fold")
               allIn  == (d.action = "all-in")
               after  == [seat EXCEPT !.chips = left, !.currentBet = bet, !.folded = folded, !.allIn = allIn]
    <2>1. left \in Nat /\ bet \in Nat /\ folded \in BOOLEAN /\ allIn \in BOOLEAN
      BY <1>2, <1>5
    <2>2. seats' = [seats EXCEPT ![startIdx] = after]
      BY <1>7 DEF Apply, moved
    <2> HIDE DEF left, bet, folded, allIn
    <2>3. /\ after \in Seat
          /\ after.chips = left /\ after.currentBet = bet /\ after.folded = folded
          /\ after.player = seat.player
      BY <1>1, <2>1 DEF Seat
    <2> HIDE DEF after
    <2>4. seats \in [Seats -> Seat]
      BY DEF TableTypeOK
    <2> QED BY <1>1, <2>2, <2>3, <2>4 DEF left, bet, folded
  <1>13. d.action = "fold" => moved = 0 /\ seat.currentBet < currentBet
    BY <1>4, <1>5
  <1> QED BY <1>5, <1>7, <1>8, <1>9, <1>10, <1>11, <1>12, <1>13 DEF moved

-------------------------------------------------------------------------------
(* The invariant.  A turn keeps the pot and the stacks natural only if the    *)
(* amount to call is never negative, so the types and BetIsHeld are proved    *)
(* together: each needs the other.                                            *)

TableInv == TableTypeOK /\ BetIsHeld

LEMMA TableInitInv == TableInit => TableInv
  <1> SUFFICES ASSUME TableInit PROVE TableInv
    OBVIOUS
  <1>1. NumSeats \in Nat /\ NumSeats >= 2 /\ StartingChips \in Nat
    BY TableAssumption DEF TableAssumption
  <1>2. 0 \in Seats /\ \A i \in Seats : i \in Nat
    BY <1>1 DEF Seats
  <1>3. \A i \in Seats : Fresh(i) \in Seat
    BY <1>1, <1>2 DEF Fresh, Seat
  <1>4. seats \in [Seats -> Seat]
    BY <1>3 DEF TableInit
  <1>5. cells \in Seq(Cell) /\ handCellStartIdx \in 0..Len(cells)
    BY DEF TableInit
  <1>6. TableTypeOK
    BY <1>2, <1>4, <1>5 DEF TableInit, TableTypeOK, Phases
  <1>7. BetIsHeld
    BY DEF TableInit, BetIsHeld
  <1> QED BY <1>6, <1>7 DEF TableInv

LEMMA TopUpInv ==
    ASSUME TableInv, NEW i \in Seats, pc = "topup", seats[i].chips < BigBlind,
           NEW player \in Nat, NEW kind \in CellKind,
           TopUp(i, player, kind), eliminations' \in Nat
    PROVE  TableInv'
  <1> USE DEF TableInv
  <1>1. StartingChips \in Nat /\ BigBlind \in Nat /\ BigBlind <= StartingChips
    BY TableAssumption DEF TableAssumption
  <1>2. seats[i] \in Seat /\ seats[i].chips \in Nat
    BY DEF TableTypeOK, Seat
  <1>3. seats' \in [Seats -> Seat]
    <2>1. [seats[i] EXCEPT !.player = player, !.chips = StartingChips] \in Seat
      BY <1>1, <1>2 DEF Seat
    <2>2. seats' = [seats EXCEPT ![i] = [seats[i] EXCEPT !.player = player, !.chips = StartingChips]]
      BY DEF TopUp, TableTypeOK
    <2> QED BY <2>1, <2>2 DEF TableTypeOK
  <1>4. cells' \in Seq(Cell) /\ handCellStartIdx' \in 0..Len(cells')
    <2>1. cellVersion \in Nat /\ 1 \in Nat
      BY DEF TableTypeOK
    <2>2. cells' = Append(cells, NewCell(kind, cellVersion, 1)) /\ handCellStartIdx' = handCellStartIdx
      BY DEF TopUp, LogTopUp
    <2> QED BY <2>1, <2>2, LogGrows
  <1>5. TableTypeOK'
    <2>1. cellVersion' \in Nat
      BY DEF TableTypeOK, TopUp
    <2>2. UNCHANGED <<pc, hand, phase, pot, currentBet, dealerIdx, startIdx, actedCount, playersToAct,
                      entered, winner>>
      BY DEF TopUp
    <2> QED BY <1>3, <1>4, <2>1, <2>2 DEF TableTypeOK
  <1>6. BetIsHeld'
    BY DEF BetIsHeld, TopUp
  <1> QED BY <1>5, <1>6

LEMMA StartHandInv == ASSUME TableInv, StartHand PROVE TableInv'
  <1> USE DEF TableInv
  <1>1. /\ NumSeats \in Nat /\ NumSeats >= 2
        /\ SmallBlind \in Nat /\ BigBlind \in Nat /\ 0 < SmallBlind /\ SmallBlind <= BigBlind
    BY TableAssumption DEF TableAssumption
  <1>2. dealerIdx \in Seats /\ dealerIdx + 1 \in Nat /\ dealerIdx + 2 \in Nat
    BY <1>1 DEF TableTypeOK, Seats
  <1>3. sbIdx \in Seats /\ bbIdx \in Seats /\ sbIdx # bbIdx
    BY <1>2, SeatedRange, BlindsDiffer DEF sbIdx, bbIdx
  <1>4. \A i \in Seats : seats[i] \in Seat /\ seats[i].chips \in Nat /\ BigBlind <= seats[i].chips
    <2> SUFFICES ASSUME NEW i \in Seats
                 PROVE  seats[i] \in Seat /\ seats[i].chips \in Nat /\ BigBlind <= seats[i].chips
      OBVIOUS
    <2>1. seats[i] \in Seat /\ seats[i].chips \in Nat
      BY DEF TableTypeOK, Seat
    <2>2. ~(seats[i].chips < BigBlind)
      BY DEF StartHand, Short
    <2> QED BY <1>1, <2>1, <2>2
  <1>5. /\ Posted(sbIdx) = SmallBlind
        /\ Posted(bbIdx) = BigBlind
        /\ \A i \in Seats : Posted(i) \in 0..BigBlind /\ Posted(i) <= seats[i].chips
    BY <1>1, <1>3, <1>4 DEF Posted, smaller
  <1> DEFINE dealt(i) == [player |-> seats[i].player, chips |-> seats[i].chips - Posted(i),
                          currentBet |-> Posted(i), folded |-> seats[i].chips <= 0, allIn |-> FALSE]
  <1>6. seats' = [i \in Seats |-> dealt(i)]
    BY DEF StartHand
  <1>7. ASSUME NEW i \in Seats
        PROVE  dealt(i) \in Seat /\ dealt(i).currentBet = Posted(i) /\ dealt(i).folded = FALSE
    <2>1. seats[i].chips - Posted(i) \in Nat /\ Posted(i) \in Nat /\ seats[i].player \in Nat
      BY <1>1, <1>4, <1>5 DEF Seat
    <2>2. (seats[i].chips <= 0) = FALSE
      BY <1>1, <1>4
    <2> DEFINE c == seats[i].chips - Posted(i)
    <2> HIDE DEF c
    <2> QED BY <2>1, <2>2 DEF Seat, c
  <1> HIDE DEF dealt
  <1>8. seats' \in [Seats -> Seat]
    BY <1>6, <1>7
  <1>9. pot' \in Nat /\ currentBet' = BigBlind /\ pc' = "betting" /\ cellVersion' = cellVersion + 1
    BY <1>1, <1>5 DEF StartHand, Blinds, OpeningBet
  <1>10. /\ phase' = 1 /\ startIdx' \in Seats
         /\ actedCount' \in Nat /\ playersToAct' \in Nat /\ entered' \in Nat
    <2>1. bbIdx + 1 \in Nat
      BY <1>1, <1>3 DEF Seats
    <2>2. Seated(bbIdx + 1) \in Seats
      BY <2>1, SeatedRange
    <2> QED BY <2>2, ToActType DEF StartHand, BeginPhase
  <1>11. cells' \in Seq(Cell) /\ handCellStartIdx' \in 0..Len(cells')
    <2>1. cellVersion' \in Nat
      BY <1>9 DEF TableTypeOK
    <2>2. cells' = Append(cells, NewCell("preflop", cellVersion', 0)) /\ handCellStartIdx' = handCellStartIdx
      BY DEF StartHand
    <2> HIDE DEF NewCell
    <2> QED BY <2>1, <2>2, LogGrows DEF CellKind
  <1>12. TableTypeOK'
    <2>1. cellVersion' \in Nat /\ currentBet' \in Nat
      BY <1>1, <1>9 DEF TableTypeOK
    <2>2. UNCHANGED <<hand, dealerIdx, winner, eliminations>>
      BY DEF StartHand
    <2>3. phase' \in 1..Len(Phases)
      BY <1>10 DEF Phases
    <2> QED BY <1>8, <1>9, <1>10, <1>11, <2>1, <2>2, <2>3 DEF TableTypeOK
  <1>13. BetIsHeld'
    <2>1. \A i \in Seats : seats'[i].currentBet = Posted(i) /\ ~seats'[i].folded
      BY <1>6, <1>7
    <2> HIDE DEF Posted
    <2>2. \A i \in Seats : seats'[i].currentBet <= currentBet'
      BY <1>1, <1>5, <1>9, <2>1
    <2>3. bbIdx \in {i \in Seats : ~seats'[i].folded} /\ seats'[bbIdx].currentBet = currentBet'
      BY <1>3, <1>5, <1>9, <2>1
    <2> QED BY <1>9, <2>2, <2>3 DEF BetIsHeld, Contenders
  <1> QED BY <1>12, <1>13

LEMMA ActInv == ASSUME TableInv, NEW d \in Decisions, Act(d) PROVE TableInv'
  <1> USE DEF TableInv
  <1>1. pc = "betting" /\ pc' = "betting"
    BY DEF Act, Turn
  <1>2. PICK h \in Contenders : seats[h].currentBet = currentBet
    BY <1>1 DEF BetIsHeld
  <1>3. \A i \in Seats : seats[i].currentBet <= currentBet
    BY <1>1 DEF BetIsHeld
  <1> DEFINE seat  == seats[startIdx]
             moved == Moved(seat, d)
  <1> HIDE DEF moved
  <1>4. /\ moved \in 0..seat.chips
        /\ seats' \in [Seats -> Seat]
        /\ \A i \in Seats : i # startIdx => seats'[i] = seats[i]
        /\ seats'[startIdx].currentBet = seat.currentBet + moved
        /\ seats'[startIdx].folded = (d.action = "fold")
        /\ pot' = pot + moved
        /\ currentBet' \in Nat
        /\ seat.currentBet + moved <= currentBet'
        /\ currentBet <= currentBet'
        /\ currentBet' # currentBet => currentBet' = seat.currentBet + moved /\ d.action # "fold"
        /\ d.action = "fold" => moved = 0 /\ seat.currentBet < currentBet
        /\ actedCount' \in Nat /\ playersToAct' \in Nat /\ startIdx' \in Seats
    BY <1>1, <1>3, TurnStep DEF moved
  <1>5. startIdx \in Seats /\ seat \in Seat /\ currentBet \in Nat /\ pot \in Nat
    BY DEF TableTypeOK
  <1>6. seat.chips \in Nat /\ seat.currentBet \in Nat /\ \A i \in Seats : seats[i].currentBet \in Nat
    BY <1>5 DEF Seat, TableTypeOK
  <1>7. TableTypeOK'
    BY <1>4, <1>5, <1>6 DEF TableTypeOK, Act
  <1>8. \A i \in Seats : seats'[i].currentBet <= currentBet'
    BY <1>3, <1>4, <1>5, <1>6
  <1>9. \E i \in Seats : ~seats'[i].folded /\ seats'[i].currentBet = currentBet'
    <2>1. h \in Seats /\ ~seats[h].folded
      BY DEF Contenders
    <2>2. CASE currentBet' # currentBet
      <3>1. ~seats'[startIdx].folded /\ seats'[startIdx].currentBet = currentBet'
        BY <1>4, <2>2
      <3> QED BY <1>5, <3>1
    <2>3. CASE currentBet' = currentBet /\ h # startIdx
      BY <1>2, <1>4, <2>1, <2>3
    <2>4. CASE currentBet' = currentBet /\ h = startIdx
      <3>1. d.action # "fold"
        BY <1>2, <1>4, <1>5, <1>6, <2>4
      <3>2. seats'[startIdx].currentBet = currentBet'
        BY <1>2, <1>4, <1>5, <1>6, <2>4
      <3> QED BY <1>4, <1>5, <3>1, <3>2
    <2> QED BY <2>2, <2>3, <2>4
  <1>10. BetIsHeld'
    BY <1>1, <1>8, <1>9 DEF BetIsHeld, Contenders
  <1> QED BY <1>7, <1>10

LEMMA EndPhaseInv == ASSUME TableInv, EndPhase PROVE TableInv'
  <1> USE DEF TableInv
  <1>1. pc = "betting" /\ pc' \in {"betting", "showdown"}
    BY DEF EndPhase
  <1>2. PICK h \in Seats : ~seats[h].folded
    BY <1>1 DEF BetIsHeld, Contenders
  <1>3. /\ seats' \in [Seats -> Seat]
        /\ \A i \in Seats : seats'[i].currentBet = 0 /\ seats'[i].folded = seats[i].folded
    <2>1. \A i \in Seats : seats[i] \in Seat
      BY DEF TableTypeOK
    <2>2. seats' = [i \in Seats |-> [seats[i] EXCEPT !.currentBet = 0]]
      BY DEF EndPhase
    <2> QED BY <2>1, <2>2 DEF Seat
  <1>4. currentBet' = 0 /\ cellVersion' = cellVersion + 1
    BY DEF EndPhase
  <1>5. /\ phase' \in 1..Len(Phases) /\ startIdx' \in Seats
        /\ actedCount' \in Nat /\ playersToAct' \in Nat /\ entered' \in Nat
    <2>1. CASE UNCHANGED <<phase, startIdx, actedCount, playersToAct, entered>>
      BY <2>1 DEF TableTypeOK
    <2>2. CASE phase # Len(Phases) /\ BeginPhase(phase + 1, Seated(dealerIdx + 1), seats')
      <3>1. dealerIdx + 1 \in Nat
        BY TableAssumption DEF TableTypeOK, Seats, TableAssumption
      <3>2. Seated(dealerIdx + 1) \in Seats
        BY <3>1, SeatedRange
      <3>3. Len(Phases) = 4
        BY DEF Phases
      <3>4. phase + 1 \in 1..Len(Phases)
        BY <2>2, <3>3 DEF TableTypeOK
      <3> QED BY <2>2, <3>2, <3>4, ToActType DEF BeginPhase
    <2> QED BY <2>1, <2>2 DEF EndPhase
  <1>6. cells' \in Seq(Cell) /\ handCellStartIdx' \in 0..Len(cells')
    <2>1. cellVersion + 1 \in Nat
      BY DEF TableTypeOK
    <2>2. Phases[phase] \in CellKind
      BY DEF TableTypeOK, Phases, CellKind
    <2>3. /\ cells' = Append(cells, NewCell(Phases[phase], cellVersion + 1, 0))
          /\ handCellStartIdx' = handCellStartIdx
      BY DEF EndPhase, PhaseCell
    <2> QED BY <2>1, <2>2, <2>3, LogGrows
  <1>7. TableTypeOK'
    <2>1. cellVersion' \in Nat
      BY <1>4 DEF TableTypeOK
    <2>2. UNCHANGED <<hand, pot, dealerIdx, winner, eliminations>>
      BY DEF EndPhase
    <2> QED BY <1>1, <1>3, <1>4, <1>5, <1>6, <2>1, <2>2 DEF TableTypeOK
  <1>8. BetIsHeld'
    BY <1>1, <1>2, <1>3, <1>4 DEF BetIsHeld, Contenders
  <1> QED BY <1>7, <1>8

LEMMA ShowdownInv == ASSUME TableInv, Showdown PROVE TableInv'
  <1> USE DEF TableInv
  <1>1. winner' \in Seats /\ pc' = "complete" /\ cellVersion' = cellVersion + 1
    BY DEF Showdown, Eligible, Contenders
  <1>2. seats' \in [Seats -> Seat]
    <2> DEFINE stack == seats[winner'].chips + pot
    <2>1. seats[winner'] \in Seat /\ pot \in Nat
      BY <1>1 DEF TableTypeOK
    <2>2. stack \in Nat
      BY <2>1 DEF Seat
    <2>3. seats' = [seats EXCEPT ![winner'] = [seats[winner'] EXCEPT !.chips = stack]]
      BY <1>1 DEF Showdown, TableTypeOK
    <2> HIDE DEF stack
    <2>4. [seats[winner'] EXCEPT !.chips = stack] \in Seat
      BY <2>1, <2>2 DEF Seat
    <2> QED BY <1>1, <2>3, <2>4 DEF TableTypeOK
  <1>3. cells' \in Seq(Cell) /\ handCellStartIdx' \in 0..Len(cells')
    <2>1. cellVersion' \in Nat
      BY <1>1 DEF TableTypeOK
    <2>2. cells' = Append(cells, NewCell("complete", cellVersion', 0)) /\ handCellStartIdx' = handCellStartIdx
      BY DEF Showdown
    <2> QED BY <2>1, <2>2, LogGrows DEF CellKind
  <1>4. TableTypeOK'
    BY <1>1, <1>2, <1>3 DEF TableTypeOK, Showdown
  <1>5. BetIsHeld'
    BY <1>1 DEF BetIsHeld
  <1> QED BY <1>4, <1>5

LEMMA CompleteHandInv == ASSUME TableInv, CompleteHand PROVE TableInv'
  <1> USE DEF TableInv
  <1>1. cells' \in Seq(Cell) /\ Len(cells') = Len(cells)
    BY MarkedCells DEF CompleteHand, TableTypeOK
  <1>2. handCellStartIdx' \in 0..Len(cells')
    BY <1>1 DEF CompleteHand, TableTypeOK
  <1>3. dealerIdx' \in Seats
    <2>1. dealerIdx + 1 \in Nat
      BY TableAssumption DEF TableTypeOK, Seats, TableAssumption
    <2> QED BY <2>1, SeatedRange DEF CompleteHand
  <1>4. pc' \in {"topup", "done"} /\ hand' \in Nat
    BY DEF CompleteHand, TableTypeOK
  <1>5. TableTypeOK'
    BY <1>1, <1>2, <1>3, <1>4 DEF TableTypeOK, CompleteHand
  <1>6. BetIsHeld'
    BY <1>4 DEF BetIsHeld
  <1> QED BY <1>5, <1>6

LEMMA TableNextInv == TableInv /\ [TableNext]_tableVars => TableInv'
  <1> SUFFICES ASSUME TableInv, [TableNext]_tableVars PROVE TableInv'
    OBVIOUS
  <1>1. ASSUME NEW i \in Seats, FirstShort(i), Eliminate(i) PROVE TableInv'
    <2>1. pc = "topup" /\ seats[i].chips < BigBlind
      BY <1>1 DEF Eliminate, FirstShort, Short
    <2>2. NumSeats + eliminations \in Nat /\ eliminations' \in Nat
      BY <1>1, TableAssumption DEF TableInv, TableTypeOK, Eliminate, TableAssumption
    <2>3. TopUp(i, NumSeats + eliminations, "elimination")
      BY <1>1 DEF Eliminate
    <2> QED BY <2>1, <2>2, <2>3, TopUpInv DEF CellKind
  <1>2. ASSUME NEW i \in Seats, FirstShort(i), Rebuy(i) PROVE TableInv'
    <2>1. pc = "topup" /\ seats[i].chips < BigBlind
      BY <1>2 DEF Rebuy, FirstShort, Short
    <2>2. seats[i].player \in Nat /\ eliminations' \in Nat
      BY <1>2 DEF TableInv, TableTypeOK, Rebuy, Seat
    <2>3. TopUp(i, seats[i].player, "rebuy")
      BY <1>2 DEF Rebuy
    <2> QED BY <2>1, <2>2, <2>3, TopUpInv DEF CellKind
  <1>3. CASE StartHand
    BY <1>3, StartHandInv
  <1>4. CASE \E d \in Decisions : Act(d)
    BY <1>4, ActInv
  <1>5. CASE Skip
    <2>1. startIdx' \in Seats
      <3>1. startIdx + 1 \in Nat
        BY TableAssumption DEF TableInv, TableTypeOK, Seats, TableAssumption
      <3> QED BY <1>5, <3>1, SeatedRange DEF Skip, Turn
    <2>2. TableTypeOK'
      BY <1>5, <2>1 DEF Skip, TableInv, TableTypeOK
    <2>3. BetIsHeld'
      BY <1>5 DEF Skip, TableInv, BetIsHeld, Contenders
    <2> QED BY <2>2, <2>3 DEF TableInv
  <1>6. CASE EndPhase
    BY <1>6, EndPhaseInv
  <1>7. CASE Showdown
    BY <1>7, ShowdownInv
  <1>8. CASE CompleteHand
    BY <1>8, CompleteHandInv
  <1>9. CASE UNCHANGED tableVars
    BY <1>9 DEF tableVars, gameVars, TableInv, TableTypeOK, BetIsHeld, Contenders
  <1> QED BY <1>1, <1>2, <1>3, <1>4, <1>5, <1>6, <1>7, <1>8, <1>9 DEF TableNext, RefillSeat

\* Every reachable state of a table is well typed: stacks, pot and bets stay natural numbers whatever
\* the players answer, the turn stays on a seat, and the log is a sequence of cells.
THEOREM TableTypeCorrect == TableSpec => []TableTypeOK
  <1>1. TableInv => TableTypeOK
    BY DEF TableInv
  <1> QED BY <1>1, TableInitInv, TableNextInv, PTL DEF TableSpec

\* The amount to call is never negative and the player who holds the bet is never made to fold, so a
\* hand always has somebody to pay its pot to.
THEOREM BetAlwaysHeld == TableSpec => []BetIsHeld
  <1>1. TableInv => BetIsHeld
    BY DEF TableInv
  <1> QED BY <1>1, TableInitInv, TableNextInv, PTL DEF TableSpec

-------------------------------------------------------------------------------
(* The table implements PotGame. *)

\* What PotGame sees of a table.
Stack   == [i \in Seats |-> seats[i].chips]
LivePot == IF pc \in {"betting", "showdown"} THEN pot ELSE 0
InHand  == IF pc \in {"betting", "showdown"} THEN Contenders ELSE {}

\* A step that leaves the stacks, the live pot and the contenders alone is invisible.
LEMMA Invisible ==
    ASSUME Stack' = Stack, LivePot' = LivePot, InHand' = InHand
    PROVE  [Pot!Next]_(Pot!potVars)
  BY DEF Stack, LivePot, InHand, Pot!potVars

LEMMA InitRefines == TableInit => Pot!Init
  BY DEF TableInit, Pot!Init, Fresh

LEMMA TopUpRefines ==
    ASSUME TableInv, NEW i \in Seats, pc = "topup", seats[i].chips < BigBlind,
           NEW player, NEW kind, TopUp(i, player, kind)
    PROVE  Pot!TopUp(i)
  <1>1. seats \in [Seats -> Seat] /\ pc' = "topup"
    BY DEF TableInv, TableTypeOK, TopUp
  <1>2. seats' = [seats EXCEPT ![i] = [seats[i] EXCEPT !.player = player, !.chips = StartingChips]]
    BY <1>1 DEF TopUp
  <1>3. [seats[i] EXCEPT !.player = player, !.chips = StartingChips].chips = StartingChips
    BY <1>1 DEF Seat
  <1>4. Stack' = [Stack EXCEPT ![i] = StartingChips]
    BY <1>1, <1>2, <1>3 DEF Stack
  <1> QED BY <1>1, <1>4 DEF Pot!TopUp, Stack

LEMMA DealRefines ==
    ASSUME TableInv, StartHand
    PROVE  \E i \in Seats : \E j \in Seats \ {i} : \E small \in 0..Stack[i], big \in 0..Stack[j] :
              Pot!Deal(i, j, small, big)
  <1>1. sbIdx \in Seats /\ bbIdx \in Seats /\ sbIdx # bbIdx
    <2>1. dealerIdx \in Seats /\ dealerIdx + 1 \in Nat /\ dealerIdx + 2 \in Nat
      BY TableAssumption DEF TableInv, TableTypeOK, Seats, TableAssumption
    <2> QED BY <2>1, SeatedRange, BlindsDiffer DEF sbIdx, bbIdx
  <1>2. \A i \in Seats : seats[i].chips \in Nat /\ ~(seats[i].chips < BigBlind)
    BY DEF TableInv, TableTypeOK, Seat, StartHand, Short
  <1>3. SmallBlind \in Nat /\ BigBlind \in Nat /\ 0 < SmallBlind /\ SmallBlind <= BigBlind
    BY TableAssumption DEF TableAssumption
  <1> DEFINE small == Posted(sbIdx)
             big   == Posted(bbIdx)
  <1>4. /\ small \in 0..seats[sbIdx].chips
        /\ big \in 0..seats[bbIdx].chips
        /\ \A i \in Seats : i # sbIdx /\ i # bbIdx => Posted(i) = 0
    BY <1>1, <1>2, <1>3 DEF Posted, smaller
  <1>5. \A i \in Seats : /\ seats'[i].chips = seats[i].chips - Posted(i)
                         /\ seats'[i].folded = (seats[i].chips <= 0)
    BY DEF StartHand
  <1>6. pc = "topup" /\ pc' = "betting" /\ pot' = small + big
    BY DEF StartHand, Blinds
  <1> HIDE DEF small, big
  <1>7. Stack' = [Stack EXCEPT ![sbIdx] = Stack[sbIdx] - small, ![bbIdx] = Stack[bbIdx] - big]
    <2>1. \A i \in Seats : Stack'[i] =
              IF i = sbIdx THEN Stack[i] - small ELSE IF i = bbIdx THEN Stack[i] - big ELSE Stack[i]
      BY <1>1, <1>2, <1>4, <1>5 DEF Stack, small, big
    <2>2. DOMAIN Stack = Seats /\ DOMAIN Stack' = Seats /\ Stack' = [i \in Seats |-> Stack'[i]]
          /\ Stack = [i \in Seats |-> Stack[i]]
      BY DEF Stack
    <2> HIDE DEF Stack
    <2> QED BY <1>1, <2>1, <2>2
  <1>8. Contenders' = Seats
    <2>1. \A i \in Seats : ~(seats[i].chips <= 0)
      BY <1>2, <1>3
    <2>2. \A i \in Seats : ~seats'[i].folded
      BY <1>5, <2>1
    <2> QED BY <2>2 DEF Contenders
  <1>9. PICK i \in Seats, j \in Seats : i = sbIdx /\ j = bbIdx
    BY <1>1
  <1>10. PICK m \in Nat, n \in Nat : m = small /\ n = big
    BY <1>1, <1>2, <1>4
  <1>11. i # j /\ m \in 0..Stack[i] /\ n \in 0..Stack[j]
    BY <1>1, <1>4, <1>9, <1>10 DEF Stack
  <1>12. Pot!Deal(i, j, m, n)
    <2>1. InHand = {} /\ LivePot' = m + n /\ InHand' = Seats
      BY <1>6, <1>8, <1>10 DEF InHand, LivePot
    <2>2. Stack' = [Stack EXCEPT ![i] = @ - m, ![j] = @ - n]
      <3> HIDE DEF Stack
      <3> QED BY <1>1, <1>7, <1>9, <1>10
    <2> QED BY <1>11, <2>1, <2>2 DEF Pot!Deal, Stack, LivePot, InHand
  <1> QED BY <1>11, <1>12

LEMMA ActRefines ==
    ASSUME TableInv, NEW d \in Decisions, Act(d)
    PROVE  [Pot!Next]_(Pot!potVars)
  <1> DEFINE i     == startIdx
             moved == Moved(seats[startIdx], d)
  <1>1. pc = "betting" /\ pc' = "betting" /\ CanAct(seats[i])
    BY DEF Act, Turn
  <1>2. PICK h \in Contenders : seats[h].currentBet = currentBet
    BY <1>1 DEF TableInv, BetIsHeld
  <1> HIDE DEF moved
  <1>3. /\ moved \in 0..seats[i].chips
        /\ \A k \in Seats : k # i => seats'[k] = seats[k]
        /\ seats'[i].chips = seats[i].chips - moved
        /\ seats'[i].folded = (d.action = "fold")
        /\ pot' = pot + moved
        /\ d.action = "fold" => moved = 0 /\ seats[i].currentBet < currentBet
    BY <1>1, TurnStep DEF moved, TableInv, BetIsHeld
  <1>4. i \in Seats /\ seats[i] \in Seat /\ seats[i].chips \in Nat /\ pot \in Nat
        /\ seats[i].currentBet \in Nat /\ currentBet \in Nat
    BY DEF TableInv, TableTypeOK, Seat
  <1>5. i \in Contenders
    BY <1>1, <1>4 DEF CanAct, Contenders
  <1>6. Stack' = [Stack EXCEPT ![i] = Stack[i] - moved]
    BY <1>3, <1>4 DEF Stack
  <1>7. CASE d.action = "fold"
    <2>1. Stack' = Stack /\ pot' = pot
      BY <1>3, <1>4, <1>6, <1>7 DEF Stack
    <2>2. Contenders' = Contenders \ {i}
      BY <1>3, <1>4, <1>7 DEF Contenders
    <2>3. h # i
      BY <1>2, <1>3, <1>4, <1>7
    <2>4. Pot!Fold(i)
      BY <1>1, <1>2, <1>5, <2>1, <2>2, <2>3 DEF Pot!Fold, Stack
    <2> QED BY <1>4, <2>4 DEF Pot!Next
  <1>8. CASE d.action # "fold"
    <2>1. Contenders' = Contenders
      BY <1>3, <1>4, <1>5, <1>8 DEF Contenders
    <2>2. CASE moved = 0
      <3>1. Stack' = Stack /\ pot' = pot
        BY <1>3, <1>4, <1>6, <2>2 DEF Stack
      <3> QED BY <1>1, <2>1, <3>1, Invisible DEF LivePot, InHand
    <2>3. CASE moved # 0
      <3> PICK k \in Seats, m \in Nat : k = i /\ m = moved
        BY <1>3, <1>4
      <3>1. k = i /\ m = moved /\ m \in 1..Stack[k]
        BY <1>3, <1>4, <2>3 DEF Stack
      <3>2. Pot!Wager(k, m)
        <4>1. k \in InHand /\ LivePot' = LivePot + m /\ InHand' = InHand
          BY <1>1, <1>3, <1>5, <2>1, <3>1 DEF InHand, LivePot
        <4>2. Stack' = [Stack EXCEPT ![k] = @ - m]
          BY <1>4, <1>6, <3>1 DEF Stack
        <4>3. m \in 0..Stack[k]
          BY <3>1
        <4> QED BY <4>1, <4>2, <4>3 DEF Pot!Wager, Stack, LivePot, InHand
      <3>3. Pot!Next
        BY <3>1, <3>2 DEF Pot!Next, Stack
      <3> QED BY <3>3
    <2> QED BY <2>2, <2>3
  <1> QED BY <1>7, <1>8

LEMMA ShowdownRefines ==
    ASSUME TableInv, Showdown
    PROVE  \E i \in Seats : Pot!Award(i)
  <1>1. PICK w \in Contenders : w = winner'
    BY DEF Showdown, Eligible
  <1>2. w \in Seats /\ pc = "showdown" /\ pc' = "complete" /\ seats \in [Seats -> Seat] /\ pot \in Nat
    BY DEF Showdown, Contenders, TableInv, TableTypeOK
  <1> DEFINE stack == seats[w].chips + pot
  <1>3. seats' = [seats EXCEPT ![w] = [seats[w] EXCEPT !.chips = stack]]
    BY <1>1, <1>2 DEF Showdown
  <1>4. Stack' = [Stack EXCEPT ![w] = Stack[w] + pot]
    <2> HIDE DEF stack
    <2>1. [seats[w] EXCEPT !.chips = stack].chips = stack
      BY <1>2 DEF Seat
    <2>2. Stack' = [Stack EXCEPT ![w] = stack]
      BY <1>2, <1>3, <2>1 DEF Stack
    <2> QED BY <1>2, <2>2 DEF Stack, stack
  <1>5. w \in InHand /\ LivePot' = 0 /\ InHand' = {} /\ LivePot = pot
    BY <1>2 DEF InHand, LivePot
  <1>6. Stack' = [Stack EXCEPT ![w] = @ + LivePot]
    BY <1>2, <1>4, <1>5 DEF Stack
  <1>7. Pot!Award(w)
    BY <1>5, <1>6 DEF Pot!Award, Stack, LivePot, InHand
  <1> QED BY <1>2, <1>7

LEMMA NextRefines == TableInv /\ [TableNext]_tableVars => [Pot!Next]_(Pot!potVars)
  <1> SUFFICES ASSUME TableInv, [TableNext]_tableVars PROVE [Pot!Next]_(Pot!potVars)
    OBVIOUS
  <1>1. ASSUME NEW i \in Seats, FirstShort(i), Eliminate(i) PROVE Pot!Next
    <2>1. /\ pc = "topup" /\ seats[i].chips < BigBlind
          /\ TopUp(i, NumSeats + eliminations, "elimination")
      BY <1>1 DEF Eliminate, FirstShort, Short
    <2> QED BY <2>1, TopUpRefines DEF Pot!Next
  <1>2. ASSUME NEW i \in Seats, FirstShort(i), Rebuy(i) PROVE Pot!Next
    <2>1. pc = "topup" /\ seats[i].chips < BigBlind /\ TopUp(i, seats[i].player, "rebuy")
      BY <1>2 DEF Rebuy, FirstShort, Short
    <2> QED BY <2>1, TopUpRefines DEF Pot!Next
  <1>3. CASE StartHand
    BY <1>3, DealRefines DEF Pot!Next, Stack
  <1>4. CASE \E d \in Decisions : Act(d)
    BY <1>4, ActRefines
  <1>5. CASE Skip
    BY <1>5, Invisible DEF Skip, Stack, LivePot, InHand, Contenders
  <1>6. CASE EndPhase
    <2>1. \A i \in Seats : seats'[i].chips = seats[i].chips /\ seats'[i].folded = seats[i].folded
      <3>1. \A i \in Seats : seats[i] \in Seat
        BY DEF TableInv, TableTypeOK
      <3>2. seats' = [i \in Seats |-> [seats[i] EXCEPT !.currentBet = 0]]
        BY <1>6 DEF EndPhase
      <3> QED BY <3>1, <3>2 DEF Seat
    <2>2. pc = "betting" /\ pc' \in {"betting", "showdown"} /\ pot' = pot
      BY <1>6 DEF EndPhase
    <2>3. Stack' = Stack /\ Contenders' = Contenders
      BY <2>1 DEF Stack, Contenders
    <2> QED BY <2>2, <2>3, Invisible DEF LivePot, InHand
  <1>7. CASE Showdown
    BY <1>7, ShowdownRefines DEF Pot!Next
  <1>8. CASE CompleteHand
    <2>1. pc = "complete" /\ pc' \in {"topup", "done"} /\ seats' = seats
      BY <1>8 DEF CompleteHand
    <2> QED BY <2>1, Invisible DEF Stack, LivePot, InHand
  <1>9. CASE UNCHANGED tableVars
    BY <1>9, Invisible DEF tableVars, gameVars, Stack, LivePot, InHand, Contenders
  <1> QED BY <1>1, <1>2, <1>3, <1>4, <1>5, <1>6, <1>7, <1>8, <1>9 DEF TableNext, RefillSeat

\* The table implements the pot game: chips move only from a player in the hand into the pot, the last
\* contender never leaves, and the whole pot goes to one contender.
THEOREM TableImplementsPotGame == TableSpec => ImplementsPotGame
  <1>1. TableInit => Pot!Init
    BY InitRefines
  <1>2. TableInv /\ [TableNext]_tableVars => [Pot!Next]_(Pot!potVars)
    BY NextRefines
  <1> QED BY <1>1, <1>2, TableInitInv, TableNextInv, PTL DEF TableSpec, ImplementsPotGame, Pot!Spec

-------------------------------------------------------------------------------
(* The log.  What is claimed of played hands is carried through the current   *)
(* one: its chain ends the log.                                               *)

ChainLength == phase + (IF pc = "betting" THEN 0 ELSE IF pc = "showdown" THEN 1 ELSE 2)

CurrentChain ==
    \E first \in 1..Len(cells) :
        /\ Len(cells) - first + 1 = ChainLength
        /\ HandCells(hand) = first..Len(cells)
        /\ \A i \in first..Len(cells) :
              cells[i].kind = IF i = first THEN "preflop"
                              ELSE IF pc = "complete" /\ i = Len(cells) THEN "complete" ELSE Phases[i - first]

LogInv ==
    /\ \A i \in DOMAIN cells : cells[i].hand <= hand
    /\ HandChains
    /\ IF pc \in {"topup", "done"} THEN HandCells(hand) = {} ELSE CurrentChain

\* The chain of a played hand, as HandChains describes it.
Chained(h, first, n) ==
    /\ HandCells(h) = first..(first + n - 1)
    /\ \A k \in 1..n : cells[first + k - 1].kind = IF k = 1 THEN "preflop"
                                                   ELSE IF k = n THEN "complete" ELSE Phases[k - 1]

LEMMA PlayedHands == HandChains <=> \A h \in 0..(hand - 1) : \E first \in DOMAIN cells, n \in 3..6 : Chained(h, first, n)
  BY DEF HandChains, Chained

\* An entry of the current hand leaves the chains of played hands alone.
LEMMA LogPreserved ==
    ASSUME TableTypeOK, LogInv, NEW kind \in CellKind, NEW version \in Nat, NEW n \in Nat,
           cells' = Append(cells, NewCell(kind, version, n)), hand' = hand
    PROVE  /\ Len(cells') = Len(cells) + 1 /\ DOMAIN cells' = 1..(Len(cells) + 1)
           /\ \A i \in 1..Len(cells) : cells'[i] = cells[i]
           /\ LET c == cells'[Len(cells) + 1] IN c.kind = kind /\ c.hand = hand /\ c.version = version
           /\ \A i \in DOMAIN cells' : cells'[i].hand <= hand'
           /\ HandCells(hand)' = HandCells(hand) \cup
                  (IF kind \in {"elimination", "rebuy"} THEN {} ELSE {Len(cells) + 1})
           /\ HandChains'
  <1> DEFINE c == NewCell(kind, version, n)
  <1>1. cells \in Seq(Cell) /\ hand \in Nat /\ Len(cells) \in Nat /\ DOMAIN cells = 1..Len(cells)
    BY DEF TableTypeOK
  <1>2. c.kind = kind /\ c.hand = hand /\ c.version = version /\ c \in Cell
    BY <1>1 DEF NewCell, Cell
  <1> HIDE DEF c
  <1>3. /\ Len(cells') = Len(cells) + 1 /\ DOMAIN cells' = 1..(Len(cells) + 1)
        /\ \A i \in 1..Len(cells) : cells'[i] = cells[i]
        /\ cells'[Len(cells) + 1] = c
    BY <1>1, <1>2 DEF c
  <1>4. \A i \in DOMAIN cells' : cells'[i].hand <= hand'
    BY <1>1, <1>2, <1>3 DEF LogInv
  <1>5. HandCells(hand)' = HandCells(hand) \cup (IF kind \in {"elimination", "rebuy"} THEN {} ELSE {Len(cells) + 1})
    BY <1>1, <1>2, <1>3 DEF HandCells, TopUpCell
  <1>6. HandChains'
    <2> SUFFICES ASSUME NEW h \in 0..(hand - 1)
                 PROVE  \E first \in DOMAIN cells', k \in 3..6 : Chained(h, first, k)'
      BY <1>1 DEF HandChains, Chained
    <2>1. PICK first \in DOMAIN cells, k \in 3..6 : Chained(h, first, k)
      BY PlayedHands DEF LogInv
    <2>2. HandCells(h)' = HandCells(h)
      BY <1>1, <1>2, <1>3 DEF HandCells
    <2>3. \A i \in HandCells(h) : cells'[i] = cells[i]
      BY <1>1, <1>3 DEF HandCells
    <2>4. \A j \in 1..k : first + j - 1 \in HandCells(h)
      BY <1>1, <2>1 DEF Chained
    <2>5. first \in HandCells(h)
      BY <1>1, <2>1, <2>4
    <2>6. Chained(h, first, k)'
      BY <2>1, <2>2, <2>3, <2>4, <2>5 DEF Chained
    <2> QED BY <1>1, <1>3, <2>1, <2>6
  <1> QED BY <1>2, <1>3, <1>4, <1>5, <1>6

\* The next cell of the current hand prolongs its chain.
LEMMA ChainGrows ==
    ASSUME TableTypeOK, LogInv, pc \in {"betting", "showdown"}, NEW kind \in CellKind \ {"elimination", "rebuy"},
           cells' = Append(cells, NewCell(kind, cellVersion + 1, 0)), hand' = hand, cellVersion' = cellVersion + 1,
           pc' \in {"betting", "showdown", "complete"}, ChainLength' = ChainLength + 1,
           kind = IF pc' = "complete" THEN "complete" ELSE Phases[ChainLength]
    PROVE  LogInv'
  <1>1. cells \in Seq(Cell) /\ hand \in Nat /\ cellVersion \in Nat /\ Len(cells) \in Nat /\ DOMAIN cells = 1..Len(cells)
    BY DEF TableTypeOK
  <1>2. PICK first \in 1..Len(cells) :
          /\ Len(cells) - first + 1 = ChainLength
          /\ HandCells(hand) = first..Len(cells)
          /\ \A i \in first..Len(cells) :
                cells[i].kind = IF i = first THEN "preflop" ELSE Phases[i - first]
    BY DEF LogInv, CurrentChain
  <1>3. /\ Len(cells') = Len(cells) + 1 /\ DOMAIN cells' = 1..(Len(cells) + 1)
        /\ \A i \in 1..Len(cells) : cells'[i] = cells[i]
        /\ cells'[Len(cells) + 1].kind = kind /\ cells'[Len(cells) + 1].version = cellVersion + 1
        /\ \A i \in DOMAIN cells' : cells'[i].hand <= hand'
        /\ HandCells(hand)' = HandCells(hand) \cup {Len(cells) + 1}
        /\ HandChains'
    BY <1>1, LogPreserved
  <1>4. CurrentChain'
    <2>1. first \in 1..Len(cells') /\ Len(cells') - first + 1 = ChainLength'
      BY <1>1, <1>2, <1>3
    <2>2. HandCells(hand)' = first..Len(cells')
      <3>1. (first..Len(cells)) \cup {Len(cells) + 1} = first..(Len(cells) + 1)
        BY <1>1
      <3> QED BY <1>2, <1>3, <3>1
    <2>3. ASSUME NEW i \in first..Len(cells')
          PROVE  cells'[i].kind = IF i = first THEN "preflop"
                                  ELSE IF pc' = "complete" /\ i = Len(cells') THEN "complete" ELSE Phases[i - first]
      <3>1. CASE i = Len(cells) + 1
        <4>1. i - first = ChainLength /\ i # first
          BY <1>1, <1>2, <3>1
        <4> QED BY <1>1, <1>3, <3>1, <4>1
      <3>2. CASE i # Len(cells) + 1
        <4>1. i \in first..Len(cells) /\ i \in 1..Len(cells) /\ i # Len(cells')
          BY <1>1, <1>3, <3>2
        <4> QED BY <1>1, <1>2, <1>3, <4>1
      <3> QED BY <3>1, <3>2
    <2> QED BY <2>1, <2>2, <2>3 DEF CurrentChain
  <1> QED BY <1>3, <1>4 DEF LogInv

LEMMA LogInitInv == TableInit => LogInv
  <1> SUFFICES ASSUME TableInit PROVE LogInv
    OBVIOUS
  <1>1. cells = <<>> /\ hand = 0 /\ pc \in {"topup", "done"}
    BY DEF TableInit
  <1>2. DOMAIN cells = {}
    BY <1>1
  <1> QED BY <1>1, <1>2 DEF LogInv, HandChains, HandCells

LEMMA TopUpLog ==
    ASSUME TableTypeOK, LogInv, pc = "topup", NEW i, NEW player, NEW kind \in {"elimination", "rebuy"},
           TopUp(i, player, kind)
    PROVE  LogInv'
  <1>1. cells' = Append(cells, NewCell(kind, cellVersion, 1)) /\ hand' = hand /\ pc' = pc /\ cellVersion \in Nat
    BY DEF TopUp, LogTopUp, TableTypeOK
  <1>2. kind \in CellKind /\ 1 \in Nat
    BY DEF CellKind
  <1>3. HandCells(hand)' = HandCells(hand) /\ HandChains' /\ \A k \in DOMAIN cells' : cells'[k].hand <= hand'
    BY <1>1, <1>2, LogPreserved
  <1> QED BY <1>1, <1>3 DEF LogInv

LEMMA StartHandLog == ASSUME TableTypeOK, LogInv, StartHand PROVE LogInv'
  <1> DEFINE n == Len(cells) + 1
  <1>1. /\ cells' = Append(cells, NewCell("preflop", cellVersion + 1, 0)) /\ hand' = hand
        /\ cellVersion' = cellVersion + 1 /\ pc = "topup" /\ pc' = "betting" /\ phase' = 1
    BY DEF StartHand, BeginPhase
  <1>2. cellVersion + 1 \in Nat /\ "preflop" \in CellKind /\ 0 \in Nat /\ Len(cells) \in Nat
    BY DEF TableTypeOK, CellKind
  <1>3. /\ Len(cells') = n /\ cells'[n].kind = "preflop" /\ cells'[n].version = cellVersion + 1
        /\ \A k \in DOMAIN cells' : cells'[k].hand <= hand'
        /\ HandCells(hand)' = HandCells(hand) \cup {n}
        /\ HandChains'
    BY <1>1, <1>2, LogPreserved
  <1>4. CurrentChain'
    <2>1. n \in 1..Len(cells') /\ Len(cells') - n + 1 = ChainLength'
      BY <1>1, <1>2, <1>3 DEF ChainLength
    <2>2. n..Len(cells') = {n}
      BY <1>2, <1>3
    <2>3. HandCells(hand)' = n..Len(cells')
      BY <1>1, <1>3, <2>2 DEF LogInv
    <2>4. \A i \in n..Len(cells') :
              cells'[i].kind = IF i = n THEN "preflop"
                               ELSE IF pc' = "complete" /\ i = Len(cells') THEN "complete" ELSE Phases[i - n]
      BY <1>1, <1>2, <1>3, <2>2
    <2> HIDE DEF n
    <2> QED BY <2>1, <2>3, <2>4 DEF CurrentChain
  <1> QED BY <1>1, <1>3, <1>4 DEF LogInv

LEMMA EndPhaseLog == ASSUME TableTypeOK, LogInv, EndPhase PROVE LogInv'
  <1>1. /\ cells' = Append(cells, NewCell(Phases[phase], cellVersion + 1, 0)) /\ hand' = hand
        /\ cellVersion' = cellVersion + 1 /\ pc = "betting"
    BY DEF EndPhase, PhaseCell
  <1>2. phase \in 1..4 /\ Phases[phase] \in CellKind \ {"elimination", "rebuy"}
    BY DEF TableTypeOK, Phases, CellKind
  <1>3. ChainLength = phase
    BY <1>1, <1>2 DEF ChainLength
  <1>4. pc' \in {"betting", "showdown"} /\ ChainLength' = phase + 1
    <2>1. CASE pc' = "showdown" /\ phase' = phase
      BY <1>2, <2>1 DEF ChainLength
    <2>2. CASE pc' = "betting" /\ phase' = phase + 1
      BY <1>2, <2>2 DEF ChainLength
    <2> QED BY <1>1, <2>1, <2>2 DEF EndPhase, BeginPhase
  <1> QED BY <1>1, <1>2, <1>3, <1>4, ChainGrows

LEMMA ShowdownLog == ASSUME TableTypeOK, LogInv, Showdown PROVE LogInv'
  <1>1. /\ cells' = Append(cells, NewCell("complete", cellVersion + 1, 0)) /\ hand' = hand
        /\ cellVersion' = cellVersion + 1 /\ pc = "showdown" /\ pc' = "complete" /\ phase' = phase
    BY DEF Showdown
  <1>2. phase \in Nat /\ "complete" \in CellKind \ {"elimination", "rebuy"}
    BY DEF TableTypeOK, Phases, CellKind
  <1>3. ChainLength = phase + 1 /\ ChainLength' = phase + 2
    BY <1>1, <1>2 DEF ChainLength
  <1> QED BY <1>1, <1>2, <1>3, ChainGrows

\* Reporting the hand's cells changes none of them, and the next hand has none yet.
LEMMA CompleteHandLog == ASSUME TableTypeOK, LogInv, CompleteHand PROVE LogInv'
  <1>1. cells \in Seq(Cell) /\ hand \in Nat /\ Len(cells) \in Nat /\ DOMAIN cells = 1..Len(cells) /\ phase \in 1..4
    BY DEF TableTypeOK, Phases
  <1>2. /\ pc = "complete" /\ pc' \in {"topup", "done"} /\ hand' = hand + 1
        /\ cells' = [i \in DOMAIN cells |-> IF ReportedNow(i) THEN [cells[i] EXCEPT !.reports = @ + 1] ELSE cells[i]]
    BY DEF CompleteHand
  <1>3. DOMAIN cells' = DOMAIN cells
    BY <1>2
  <1>4. \A i \in DOMAIN cells : /\ cells'[i].hand = cells[i].hand /\ cells'[i].kind = cells[i].kind
                                /\ cells'[i].version = cells[i].version
    <2> SUFFICES ASSUME NEW i \in DOMAIN cells
                 PROVE  /\ cells'[i].hand = cells[i].hand /\ cells'[i].kind = cells[i].kind
                        /\ cells'[i].version = cells[i].version
      OBVIOUS
    <2>1. cells[i] \in Cell
      BY <1>1
    <2>2. cells'[i] = IF ReportedNow(i) THEN [cells[i] EXCEPT !.reports = @ + 1] ELSE cells[i]
      BY <1>2
    <2> QED BY <2>1, <2>2 DEF Cell
  <1>5. \A h : HandCells(h)' = HandCells(h)
    BY <1>3, <1>4 DEF HandCells, TopUpCell
  <1>6. \A i \in DOMAIN cells' : cells'[i].hand <= hand /\ cells'[i].hand \in Nat
    <2> SUFFICES ASSUME NEW i \in DOMAIN cells PROVE cells[i].hand <= hand /\ cells[i].hand \in Nat
      BY <1>3, <1>4
    <2>1. cells[i] \in Cell
      BY <1>1
    <2> QED BY <2>1 DEF LogInv, Cell
  <1>7. ASSUME NEW h, NEW first \in DOMAIN cells, NEW n \in 3..6, Chained(h, first, n)
        PROVE  Chained(h, first, n)'
    <2>1. \A j \in 1..n : first + j - 1 \in HandCells(h)
      BY <1>1, <1>7 DEF Chained
    <2>2. first \in HandCells(h) /\ \A j \in 1..n : first + j - 1 \in DOMAIN cells
      BY <1>1, <2>1 DEF HandCells
    <2> QED BY <1>4, <1>5, <1>7, <2>2 DEF Chained
  <1>8. \E first \in DOMAIN cells, n \in 3..6 : Chained(hand, first, n)
    <2>1. PICK first \in 1..Len(cells) :
            /\ Len(cells) - first + 1 = phase + 2
            /\ HandCells(hand) = first..Len(cells)
            /\ \A i \in first..Len(cells) :
                  cells[i].kind = IF i = first THEN "preflop"
                                  ELSE IF i = Len(cells) THEN "complete" ELSE Phases[i - first]
      BY <1>2 DEF LogInv, CurrentChain, ChainLength
    <2> DEFINE n == phase + 2
    <2>2. /\ n \in 3..6 /\ first + n - 1 = Len(cells) /\ first \in Nat /\ first >= 1
          /\ Len(cells) \in Nat /\ phase \in 1..4 /\ cellVersion \in Nat
      <3>1. first \in 1..Len(cells) /\ Len(cells) - first + 1 = phase + 2
        BY <2>1
      <3>2. Len(cells) \in Nat /\ phase \in 1..4
        BY <1>1
      <3>3. cellVersion \in Nat
        BY DEF TableTypeOK
      <3> QED BY <3>1, <3>2, <3>3
    <2>3. ASSUME NEW k \in 1..n
          PROVE  cells[first + k - 1].kind = IF k = 1 THEN "preflop"
                                             ELSE IF k = n THEN "complete" ELSE Phases[k - 1]
      <3> HIDE DEF n
      <3> DEFINE i == first + k - 1
      <3>1. i \in first..Len(cells) /\ first \in first..Len(cells) /\ k \in Nat
        BY <2>2
      <3>2. (i = first <=> k = 1) /\ (i = Len(cells) <=> k = n) /\ i - first = k - 1
        BY <2>2
      <3>3. cells[i].kind = IF i = first THEN "preflop"
                            ELSE IF i = Len(cells) THEN "complete" ELSE Phases[i - first]
        BY <2>1, <3>1
      <3> QED BY <3>2, <3>3
    <2>4. HandCells(hand) = first..(first + n - 1) /\ first \in DOMAIN cells
      BY <1>1, <2>1, <2>2
    <2> HIDE DEF n
    <2> QED BY <2>2, <2>3, <2>4 DEF Chained
  <1>9. HandChains'
    <2> SUFFICES ASSUME NEW h \in 0..(hand' - 1)
                 PROVE  \E first \in DOMAIN cells', n \in 3..6 : Chained(h, first, n)'
      BY DEF HandChains, Chained
    <2>1. CASE h = hand
      BY <1>3, <1>7, <1>8, <2>1
    <2>2. CASE h # hand
      <3>1. h \in 0..(hand - 1)
        BY <1>1, <1>2, <2>2
      <3> QED BY <1>3, <1>7, <3>1, PlayedHands DEF LogInv
    <2> QED BY <2>1, <2>2
  <1>10. HandCells(hand)' = {}
    <2>1. \A i \in DOMAIN cells' : cells'[i].hand # hand'
      BY <1>1, <1>2, <1>6
    <2> QED BY <2>1 DEF HandCells
  <1>11. \A i \in DOMAIN cells' : cells'[i].hand <= hand'
    BY <1>1, <1>2, <1>6
  <1> QED BY <1>2, <1>9, <1>10, <1>11 DEF LogInv

LEMMA LogNextInv == TableTypeOK /\ LogInv /\ [TableNext]_tableVars => LogInv'
  <1> SUFFICES ASSUME TableTypeOK, LogInv, [TableNext]_tableVars PROVE LogInv'
    OBVIOUS
  <1>1. ASSUME NEW i \in Seats, RefillSeat(i) PROVE LogInv'
    <2>1. pc = "topup"
      BY <1>1 DEF RefillSeat, FirstShort
    <2>2. CASE Eliminate(i)
      BY <2>1, <2>2, TopUpLog DEF Eliminate
    <2>3. CASE Rebuy(i)
      BY <2>1, <2>3, TopUpLog DEF Rebuy
    <2> QED BY <1>1, <2>2, <2>3 DEF RefillSeat
  <1>2. CASE StartHand
    BY <1>2, StartHandLog
  <1>3. ASSUME UNCHANGED <<cells, hand, pc, phase, cellVersion>> PROVE LogInv'
    <2>1. HandChains' = HandChains /\ HandCells(hand)' = HandCells(hand)
      BY <1>3 DEF HandChains, HandCells, TopUpCell
    <2>2. CurrentChain' = CurrentChain
      BY <1>3 DEF CurrentChain, ChainLength, HandCells, TopUpCell
    <2> QED BY <1>3, <2>1, <2>2 DEF LogInv
  <1>4. CASE \E d \in Decisions : Act(d)
    BY <1>3, <1>4 DEF Act
  <1>5. CASE Skip
    BY <1>3, <1>5 DEF Skip
  <1>6. CASE EndPhase
    BY <1>6, EndPhaseLog
  <1>7. CASE Showdown
    BY <1>7, ShowdownLog
  <1>8. CASE CompleteHand
    BY <1>8, CompleteHandLog
  <1>9. CASE UNCHANGED tableVars
    BY <1>3, <1>9 DEF tableVars, gameVars
  <1> QED BY <1>1, <1>2, <1>4, <1>5, <1>6, <1>7, <1>8, <1>9 DEF TableNext

\* The versions and the reports of the log, with the part of it that waits for the end of the hand.
NumberInv ==
    /\ cellVersion = Len(cells)
    /\ CellsNumbered
    /\ CellsReported
    /\ \A i \in DOMAIN cells : cells[i].hand <= hand /\ (ReportedNow(i) <=> cells[i].hand = hand)

\* A new entry: a top-up's carries the version before, all others the next.
LEMMA NumberGrows ==
    ASSUME TableTypeOK, NumberInv, NEW kind \in CellKind, NEW version \in Nat, NEW n \in Nat,
           cells' = Append(cells, NewCell(kind, version, n)), hand' = hand, cellVersion' = cellVersion + 1,
           handCellStartIdx' = handCellStartIdx,
           IF kind \in {"elimination", "rebuy"} THEN version = cellVersion /\ n = 1
                                                ELSE version = cellVersion + 1 /\ n = 0
    PROVE  NumberInv'
  <1> DEFINE c == NewCell(kind, version, n)
  <1>1. cells \in Seq(Cell) /\ hand \in Nat /\ Len(cells) \in Nat /\ DOMAIN cells = 1..Len(cells)
        /\ handCellStartIdx \in 0..Len(cells)
    BY DEF TableTypeOK
  <1>2. c.kind = kind /\ c.hand = hand /\ c.version = version /\ c.reports = n /\ c \in Cell
    BY <1>1 DEF NewCell, Cell
  <1> HIDE DEF c
  <1>3. /\ Len(cells') = Len(cells) + 1 /\ DOMAIN cells' = 1..(Len(cells) + 1)
        /\ \A i \in 1..Len(cells) : cells'[i] = cells[i]
        /\ cells'[Len(cells) + 1] = c
    BY <1>1, <1>2 DEF c
  <1>4. cellVersion = Len(cells) /\ cellVersion' = Len(cells')
    BY <1>1, <1>3 DEF NumberInv
  <1>5. ASSUME NEW i \in DOMAIN cells'
        PROVE  /\ cells'[i].version = IF TopUpCell(cells'[i]) THEN i - 1 ELSE i
               /\ cells'[i].reports = (IF TopUpCell(cells'[i]) THEN 1 ELSE 0)
                                      + (IF cells'[i].hand < hand' THEN 1 ELSE 0)
               /\ cells'[i].hand <= hand' /\ (i > handCellStartIdx' <=> cells'[i].hand = hand')
    <2>1. CASE i = Len(cells) + 1
      <3>1. TopUpCell(c) <=> kind \in {"elimination", "rebuy"}
        BY <1>2 DEF TopUpCell
      <3>2. cells'[i] = c /\ c.hand = hand' /\ hand' \in Nat /\ i > handCellStartIdx'
        BY <1>1, <1>2, <1>3, <2>1
      <3>3. /\ c.version = IF TopUpCell(c) THEN i - 1 ELSE i
            /\ c.reports = (IF TopUpCell(c) THEN 1 ELSE 0)
        <4>1. CASE kind \in {"elimination", "rebuy"}
          <5>1. TopUpCell(c) /\ c.version = cellVersion /\ c.reports = 1
            BY <1>2, <3>1, <4>1
          <5>2. i - 1 = Len(cells)
            BY <1>1, <2>1
          <5> QED BY <1>4, <5>1, <5>2
        <4>2. CASE kind \notin {"elimination", "rebuy"}
          <5>1. ~TopUpCell(c) /\ c.version = cellVersion + 1 /\ c.reports = 0
            BY <1>2, <3>1, <4>2
          <5> QED BY <1>1, <1>4, <2>1, <5>1
        <4> QED BY <4>1, <4>2
      <3> QED BY <3>2, <3>3
    <2>2. CASE i # Len(cells) + 1
      <3>1. i \in DOMAIN cells /\ cells'[i] = cells[i]
        BY <1>1, <1>3, <2>2
      <3> QED BY <3>1 DEF NumberInv, CellsNumbered, CellsReported, ReportedNow
    <2> QED BY <2>1, <2>2
  <1> QED BY <1>4, <1>5 DEF NumberInv, CellsNumbered, CellsReported, ReportedNow

\* Reporting the hand makes the next hand the current one, which has no cell yet.
LEMMA NumberReported == ASSUME TableTypeOK, NumberInv, CompleteHand PROVE NumberInv'
  <1>1. cells \in Seq(Cell) /\ hand \in Nat /\ Len(cells) \in Nat /\ DOMAIN cells = 1..Len(cells)
    BY DEF TableTypeOK
  <1>2. /\ hand' = hand + 1 /\ handCellStartIdx' = Len(cells) /\ cellVersion' = cellVersion
        /\ cells' = [i \in DOMAIN cells |-> IF ReportedNow(i) THEN [cells[i] EXCEPT !.reports = @ + 1] ELSE cells[i]]
    BY DEF CompleteHand
  <1>3. cells' \in Seq(Cell) /\ Len(cells') = Len(cells) /\ DOMAIN cells' = DOMAIN cells
    BY <1>1, <1>2, MarkedCells
  <1>4. ASSUME NEW i \in DOMAIN cells
        PROVE  /\ cells'[i].hand = cells[i].hand /\ cells'[i].kind = cells[i].kind
               /\ cells'[i].version = cells[i].version
               /\ cells'[i].reports = cells[i].reports + (IF ReportedNow(i) THEN 1 ELSE 0)
    <2>1. cells[i] \in Cell
      BY <1>1
    <2>2. cells'[i] = IF ReportedNow(i) THEN [cells[i] EXCEPT !.reports = @ + 1] ELSE cells[i]
      BY <1>2
    <2> QED BY <2>1, <2>2 DEF Cell
  <1>5. ASSUME NEW i \in DOMAIN cells'
        PROVE  /\ cells'[i].version = IF TopUpCell(cells'[i]) THEN i - 1 ELSE i
               /\ cells'[i].reports = (IF TopUpCell(cells'[i]) THEN 1 ELSE 0)
                                      + (IF cells'[i].hand < hand' THEN 1 ELSE 0)
               /\ cells'[i].hand <= hand' /\ (i > handCellStartIdx' <=> cells'[i].hand = hand')
    <2>1. i \in 1..Len(cells) /\ cells[i] \in Cell
      BY <1>1, <1>3
    <2>2. /\ cells[i].version = IF TopUpCell(cells[i]) THEN i - 1 ELSE i
          /\ cells[i].reports = (IF TopUpCell(cells[i]) THEN 1 ELSE 0) + (IF cells[i].hand < hand THEN 1 ELSE 0)
          /\ cells[i].hand <= hand /\ (ReportedNow(i) <=> cells[i].hand = hand)
      BY <2>1, <1>1 DEF NumberInv, CellsNumbered, CellsReported
    <2>3. TopUpCell(cells'[i]) <=> TopUpCell(cells[i])
      BY <1>1, <1>4, <2>1 DEF TopUpCell
    <2>4. cells[i].hand \in Nat /\ cells'[i].hand = cells[i].hand /\ cells'[i].version = cells[i].version
          /\ cells'[i].reports = cells[i].reports + (IF ReportedNow(i) THEN 1 ELSE 0)
      BY <1>1, <1>4, <2>1 DEF Cell
    <2> QED BY <1>1, <1>2, <2>1, <2>2, <2>3, <2>4
  <1> QED BY <1>2, <1>3, <1>5 DEF NumberInv, CellsNumbered, CellsReported, ReportedNow

LEMMA NumberInitInv == TableInit => NumberInv
  BY DEF TableInit, NumberInv, CellsNumbered, CellsReported

LEMMA NumberNextInv == TableTypeOK /\ NumberInv /\ [TableNext]_tableVars => NumberInv'
  <1> SUFFICES ASSUME TableTypeOK, NumberInv, [TableNext]_tableVars PROVE NumberInv'
    OBVIOUS
  <1>1. cellVersion \in Nat /\ phase \in 1..4 /\ \A k \in 1..4 : Phases[k] \in CellKind \ {"elimination", "rebuy"}
    BY DEF TableTypeOK, Phases, CellKind
  <1>2. ASSUME NEW i \in Seats, RefillSeat(i) PROVE NumberInv'
    <2>1. ASSUME NEW player, NEW kind \in {"elimination", "rebuy"}, TopUp(i, player, kind) PROVE NumberInv'
      <3>1. kind \in CellKind
        BY DEF CellKind
      <3> QED BY <1>1, <2>1, <3>1, NumberGrows DEF TopUp, LogTopUp
    <2> QED BY <1>2, <2>1 DEF RefillSeat, Eliminate, Rebuy
  <1>3. ASSUME NEW kind \in CellKind \ {"elimination", "rebuy"}, hand' = hand, handCellStartIdx' = handCellStartIdx,
               cellVersion' = cellVersion + 1, cells' = Append(cells, NewCell(kind, cellVersion + 1, 0))
        PROVE  NumberInv'
    BY <1>1, <1>3, NumberGrows
  <1>4. CASE StartHand
    BY <1>3, <1>4 DEF StartHand, CellKind
  <1>5. CASE EndPhase
    BY <1>1, <1>3, <1>5 DEF EndPhase, PhaseCell
  <1>6. CASE Showdown
    BY <1>3, <1>6 DEF Showdown, CellKind
  <1>7. CASE CompleteHand
    BY <1>7, NumberReported
  <1>8. ASSUME UNCHANGED <<cells, hand, cellVersion, handCellStartIdx>> PROVE NumberInv'
    BY <1>8 DEF NumberInv, CellsNumbered, CellsReported, TopUpCell, ReportedNow
  <1>9. CASE (\E d \in Decisions : Act(d)) \/ Skip \/ UNCHANGED tableVars
    BY <1>8, <1>9 DEF Act, Skip, tableVars, gameVars
  <1> QED BY <1>2, <1>4, <1>5, <1>6, <1>7, <1>9 DEF TableNext

\* Every played hand has left, in one piece of the log, its deal, its rounds in order and its result; versions
\* run through the whole table without a gap, repeated by top-up cells alone, and each cell of a played hand was
\* reported once, a top-up's twice: however many hands were played and whoever was topped up in between.
THEOREM HandsAlwaysInOrder == TableSpec => []HandCellsInOrder
  <1>1. LogInv /\ NumberInv => HandCellsInOrder
    BY DEF LogInv, NumberInv, HandCellsInOrder
  <1>2. TableInv => TableTypeOK
    BY DEF TableInv
  <1> QED BY <1>1, <1>2, TableInitInv, TableNextInv, LogInitInv, LogNextInv, NumberInitInv, NumberNextInv, PTL DEF TableSpec
-------------------------------------------------------------------------------
(* A betting round.  While nobody folds or goes all in, the seats that have   *)
(* still to answer the bet are the able ones among the next m seats: the      *)
(* answers counted and those still due are never more than there were players *)
(* when the round began.                                                      *)

Able == {i \in Seats : CanAct(seats[i])}

\* How many turns away a seat is.
Turns(from, i) == IF i >= from THEN i - from ELSE i - from + NumSeats

Ahead(i) == Turns(startIdx, i)

Due(m) == {i \in Able : Ahead(i) < m}

RoundInv ==
    pc = "betting" =>
        /\ playersToAct <= entered
        /\ playersToAct = entered =>
              /\ Cardinality(Able) <= entered
              /\ \E m \in 0..NumSeats :
                    /\ \A i \in Able \ Due(m) : seats[i].currentBet = currentBet
                    /\ actedCount + Cardinality(Due(m)) <= entered

LEMMA SeatsFinite ==
    /\ IsFiniteSet(Able) /\ Cardinality(Able) \in Nat
    /\ \A m : IsFiniteSet(Due(m)) /\ Cardinality(Due(m)) \in Nat
  <1>1. IsFiniteSet(Seats)
    BY TableAssumption, FS_Interval DEF Seats, TableAssumption
  <1>2. Able \subseteq Seats /\ \A m : Due(m) \subseteq Seats
    BY DEF Able, Due
  <1>3. IsFiniteSet(Able) /\ \A m : IsFiniteSet(Due(m))
    BY <1>1, <1>2, FS_Subset
  <1> QED BY <1>3, FS_CardinalityType

LEMMA TurnsRange == \A from, i \in Seats : Turns(from, i) \in 0..(NumSeats - 1) /\ Turns(from, i) < NumSeats
  BY TableAssumption DEF Turns, Seats, TableAssumption

\* When the turn passes on, every other seat is one turn nearer.
LEMMA Nearer ==
    ASSUME startIdx \in Seats, startIdx' = Seated(startIdx + 1)
    PROVE  /\ \A i \in Seats : Ahead(i) \in 0..(NumSeats - 1)
           /\ \A i \in Seats : Ahead(i)' = IF i = startIdx THEN NumSeats - 1 ELSE Ahead(i) - 1
           /\ \A i \in Seats : Ahead(i) = 0 <=> i = startIdx
  <1>1. NumSeats \in Nat /\ NumSeats >= 2 /\ startIdx \in 0..(NumSeats - 1)
    BY TableAssumption DEF Seats, TableAssumption
  <1>2. startIdx' = IF startIdx + 1 = NumSeats THEN 0 ELSE startIdx + 1
    BY <1>1 DEF Seated
  <1>3. ASSUME NEW i \in 0..(NumSeats - 1)
        PROVE  /\ Ahead(i) \in 0..(NumSeats - 1)
               /\ Ahead(i)' = IF i = startIdx THEN NumSeats - 1 ELSE Ahead(i) - 1
               /\ Ahead(i) = 0 <=> i = startIdx
    BY <1>1, <1>2 DEF Ahead, Turns
  <1> QED BY <1>3 DEF Seats

\* At the start of a round every able seat is due.
LEMMA RoundBegins ==
    ASSUME TableTypeOK', actedCount' = 0, playersToAct' = ToAct(seats'), entered' = ToAct(seats')
    PROVE  RoundInv'
  <1>1. startIdx' \in Seats /\ NumSeats \in Nat
    BY TableAssumption DEF TableTypeOK, TableAssumption
  <1>2. \A i \in Seats : Ahead(i)' < NumSeats
    BY <1>1, TurnsRange DEF Ahead
  <1>3. Due(NumSeats)' = Able'
    BY <1>2 DEF Due, Able
  <1>4. ToAct(seats') = Cardinality(Able') /\ ToAct(seats') \in Nat
    BY ToActType DEF ToAct, Able
  <1>5. NumSeats \in 0..NumSeats
    BY <1>1
  <1>6. Cardinality(Due(NumSeats)') = entered' /\ Cardinality(Able') = entered' /\ entered' \in Nat
    BY <1>3, <1>4
  <1>7. actedCount' + Cardinality(Due(NumSeats)') <= entered'
    BY <1>6
  <1>8. \A i \in Able' \ Due(NumSeats)' : seats'[i].currentBet = currentBet'
    BY <1>3
  <1> QED BY <1>4, <1>5, <1>6, <1>7, <1>8 DEF RoundInv

\* An answer other than a fold or an all-in leaves a seat that can still act with the bet matched.
LEMMA Answered ==
    ASSUME TableTypeOK, pc = "betting", \A i \in Seats : seats[i].currentBet <= currentBet,
           NEW d \in Decisions, Act(d), d.action \notin {"fold", "all-in"}
    PROVE  /\ seats'[startIdx].chips > 0 => seats'[startIdx].currentBet = currentBet'
           /\ ~seats'[startIdx].folded /\ ~seats'[startIdx].allIn
           /\ \/ currentBet' = currentBet /\ actedCount' = actedCount + 1
              \/ actedCount' = 1 /\ seats'[startIdx].currentBet = currentBet'
           /\ playersToAct' = playersToAct
  <1> DEFINE seat  == seats[startIdx]
             moved == Moved(seat, d)
             toCall == currentBet - seat.currentBet
  <1>1. /\ seat \in Seat /\ seat.chips \in Nat /\ seat.currentBet \in Nat /\ currentBet \in Nat /\ pot \in Nat
        /\ toCall \in Nat /\ startIdx \in Seats /\ actedCount \in Nat /\ playersToAct \in Nat
    BY DEF TableTypeOK, Seat
  <1>2. PICK answer \in selectHeuristicAction(seat) : d = Decision(seat, answer)
    BY DEF Decisions
  <1>3. d.action \in {"check", "call", "bet", "raise"} /\ d.amount \in Nat
    BY <1>1, <1>2, DecisionFacts
  <1>4. BigBlind \in Nat /\ 0 < BigBlind
    BY TableAssumption DEF TableAssumption
  <1>5. /\ currentBet' = IF Raises(seat, d) THEN seat.currentBet + moved ELSE currentBet
        /\ seats'[startIdx].chips = seat.chips - moved
        /\ seats'[startIdx].currentBet = seat.currentBet + moved
        /\ moved \in 0..seat.chips
    BY TurnStep DEF Act, Apply
  <1>6. ~seats'[startIdx].folded /\ ~seats'[startIdx].allIn
    BY <1>1, <1>3 DEF Act, Apply, Seat, TableTypeOK
  <1>7. actedCount' = (IF Raises(seat, d) THEN 1 ELSE actedCount + 1) /\ playersToAct' = playersToAct
    BY <1>1, <1>3 DEF Act, Apply, Acted
  <1>8. CASE d.action = "check"
    <2>1. toCall = 0 /\ moved = 0 /\ ~Raises(seat, d)
      <3>1. CASE Valid(answer, toCall, seat.chips)
        <4>1. d = answer /\ answer.action = "check"
          BY <1>2, <1>8, <3>1 DEF Decision
        <4> QED BY <1>8, <3>1, <4>1 DEF Valid, Moved, Raises
      <3>2. CASE ~Valid(answer, toCall, seat.chips)
        <4>1. d = Fallback(seat)
          BY <1>2, <3>2 DEF Decision
        <4> QED BY <1>1, <1>8, <4>1 DEF Fallback, Answer, Moved, Raises
      <3> QED BY <3>1, <3>2
    <2> QED BY <1>1, <1>5, <1>6, <1>7, <2>1
  <1>9. CASE d.action = "call"
    <2>1. moved = smaller(toCall, seat.chips) /\ ~Raises(seat, d)
      BY <1>9 DEF Moved, Raises
    <2> HIDE DEF moved
    <2> QED BY <1>1, <1>5, <1>6, <1>7, <2>1 DEF smaller
  <1>10. CASE d.action \in {"bet", "raise"}
    <2>1. moved = smaller(d.amount, seat.chips)
      BY <1>10 DEF Moved
    <2>2. d = answer /\ Valid(answer, toCall, seat.chips)
      BY <1>2, <1>10 DEF Decision, Fallback, Answer
    <2>3. d.amount - toCall >= BigBlind
      <3>1. CASE answer.action = "bet"
        BY <1>1, <1>3, <2>2, <3>1 DEF Valid
      <3>2. CASE answer.action = "raise"
        BY <2>2, <3>2 DEF Valid
      <3> QED BY <1>10, <2>2, <3>1, <3>2
    <2>4. d.amount <= seat.chips
      <3> DEFINE bets   == {Answer("bet", smaller(size, seat.chips)) : size \in BetSizes}
                 raises == {Answer("raise", smaller(size, seat.chips)) : size \in RaiseSizes(toCall)}
      <3>1. \A b \in bets : \E size : b = Answer("bet", smaller(size, seat.chips))
        OBVIOUS
      <3>2. \A r \in raises : \E size : r = Answer("raise", smaller(size, seat.chips))
        OBVIOUS
      <3>3. answer \in bets \cup raises
        BY <1>10, <2>2 DEF selectHeuristicAction, Answer
      <3>4. \E size : answer.amount = smaller(size, seat.chips)
        BY <3>1, <3>2, <3>3 DEF Answer
      <3> HIDE DEF bets, raises
      <3> QED BY <1>1, <1>3, <2>2, <3>4 DEF smaller
    <2>5. moved = d.amount
      BY <1>1, <1>3, <2>1, <2>4 DEF smaller
    <2> HIDE DEF moved
    <2>6. Raises(seat, d)
      BY <1>1, <1>3, <1>4, <1>10, <2>3, <2>5 DEF Raises, moved
    <2> QED BY <1>1, <1>5, <1>6, <1>7, <2>6
  <1> QED BY <1>3, <1>8, <1>9, <1>10

\* A smaller set has no more members, also when it is a set of the next state.
LEMMA FewerSeats ==
    ASSUME NEW S, NEW T, IsFiniteSet(T), S \subseteq T
    PROVE  Cardinality(S) \in Nat /\ Cardinality(T) \in Nat /\ Cardinality(S) <= Cardinality(T)
  BY FS_Subset, FS_CardinalityType

LEMMA ActRound == ASSUME TableInv, RoundInv, NEW d \in Decisions, Act(d) PROVE RoundInv'
  <1>1. /\ pc = "betting" /\ pc' = "betting" /\ entered' = entered /\ CanAct(seats[startIdx])
        /\ startIdx' = Seated(startIdx + 1) /\ ~RoundOver
    BY DEF Act, Turn
  <1>2. /\ TableTypeOK /\ \A i \in Seats : seats[i].currentBet <= currentBet
        /\ startIdx \in Seats /\ actedCount \in Nat /\ playersToAct \in Nat /\ entered \in Nat
        /\ NumSeats \in Nat /\ NumSeats >= 2
    BY <1>1, TableAssumption DEF TableInv, BetIsHeld, TableTypeOK, TableAssumption
  <1>3. /\ playersToAct > 1 /\ actedCount < playersToAct /\ playersToAct <= entered
    BY <1>1, <1>2 DEF RoundOver, RoundInv
  <1>4. CASE d.action \in {"fold", "all-in"}
    <2>1. playersToAct' = playersToAct - 1
      BY <1>4 DEF Act, Apply
    <2>2. playersToAct' <= entered' /\ playersToAct' # entered'
      BY <1>1, <1>2, <1>3, <2>1
    <2> QED BY <2>2 DEF RoundInv
  <1>5. CASE d.action \notin {"fold", "all-in"}
    <2>1. /\ seats'[startIdx].chips > 0 => seats'[startIdx].currentBet = currentBet'
          /\ ~seats'[startIdx].folded /\ ~seats'[startIdx].allIn
          /\ \/ currentBet' = currentBet /\ actedCount' = actedCount + 1
             \/ actedCount' = 1 /\ seats'[startIdx].currentBet = currentBet'
          /\ playersToAct' = playersToAct
      BY <1>1, <1>2, <1>5, Answered
    <2>2. CASE playersToAct # entered
      BY <1>1, <1>2, <1>3, <2>1, <2>2 DEF RoundInv
    <2>3. CASE playersToAct = entered
      <3>1. Cardinality(Able) <= entered
        BY <1>1, <2>3 DEF RoundInv
      <3>2. PICK m \in 0..NumSeats :
               /\ \A i \in Able \ Due(m) : seats[i].currentBet = currentBet
               /\ actedCount + Cardinality(Due(m)) <= entered
        BY <1>1, <2>3 DEF RoundInv
      <3>3. \A i \in Seats : i # startIdx => seats'[i] = seats[i]
        BY <1>1, <1>2, TurnStep
      <3>4. Able' \subseteq Able /\ startIdx \in Able
        BY <1>1, <1>2, <3>3 DEF Able
      <3>5. /\ \A i \in Seats : Ahead(i) \in 0..(NumSeats - 1)
            /\ \A i \in Seats : Ahead(i)' = IF i = startIdx THEN NumSeats - 1 ELSE Ahead(i) - 1
            /\ \A i \in Seats : Ahead(i) = 0 <=> i = startIdx
        BY <1>1, <1>2, Nearer
      <3>6. \A i \in Able' : i \in Seats /\ (i = startIdx => seats'[i].currentBet = currentBet')
        BY <2>1 DEF Able, CanAct
      <3>7. Cardinality(Able') <= entered
        <4>1. Cardinality(Able') \in Nat /\ Cardinality(Able) \in Nat /\ Cardinality(Able') <= Cardinality(Able)
          BY <3>4, SeatsFinite, FewerSeats
        <4> QED BY <1>2, <3>1, <4>1
      <3>8. SUFFICES \E n \in 0..NumSeats :
                        /\ \A i \in Able' \ Due(n)' : seats'[i].currentBet = currentBet'
                        /\ actedCount' + Cardinality(Due(n)') <= entered
        BY <1>1, <2>1, <2>3, <3>7 DEF RoundInv
      <3>9. CASE currentBet' = currentBet /\ actedCount' = actedCount + 1
        <4>1. CASE m > 0
          <5>1. m - 1 \in 0..NumSeats
            BY <1>2, <4>1
          <5>2. startIdx \in Due(m)
            BY <1>2, <3>4, <3>5, <4>1 DEF Due
          <5>3. Due(m - 1)' \subseteq Due(m) \ {startIdx}
            <6>1. ASSUME NEW i \in Due(m - 1)' PROVE i \in Due(m) \ {startIdx}
              <7>1. i \in Able' /\ i \in Able /\ i \in Seats /\ Ahead(i)' < m - 1
                BY <3>4, <6>1 DEF Due, Able
              <7>2. Ahead(i) \in Nat /\ Ahead(i)' = IF i = startIdx THEN NumSeats - 1 ELSE Ahead(i) - 1
                BY <3>5, <7>1
              <7>3. i # startIdx /\ Ahead(i) < m
                BY <1>2, <7>1, <7>2
              <7> QED BY <7>1, <7>3 DEF Due
            <6> QED BY <6>1
          <5>4. Cardinality(Due(m) \ {startIdx}) = Cardinality(Due(m)) - 1 /\ Cardinality(Due(m)) \in Nat
            BY <5>2, SeatsFinite, FS_RemoveElement
          <5>5. Cardinality(Due(m - 1)') \in Nat /\ Cardinality(Due(m - 1)') <= Cardinality(Due(m)) - 1
            <6>1. IsFiniteSet(Due(m) \ {startIdx})
              BY SeatsFinite, FS_Subset
            <6> QED BY <5>3, <5>4, <6>1, FewerSeats
          <5>6. actedCount' + Cardinality(Due(m - 1)') <= entered
            BY <1>2, <3>2, <3>9, <5>4, <5>5
          <5>7. ASSUME NEW i \in Able' \ Due(m - 1)' PROVE seats'[i].currentBet = currentBet'
            <6>1. CASE i = startIdx
              BY <3>6, <6>1
            <6>2. CASE i # startIdx
              <7>1. i \in Able /\ i \in Seats /\ ~(Ahead(i)' < m - 1)
                BY <3>4, <3>6 DEF Due
              <7>2. Ahead(i) \in Nat /\ Ahead(i)' = Ahead(i) - 1
                BY <3>5, <6>2, <7>1
              <7>3. ~(Ahead(i) < m)
                BY <7>1, <7>2
              <7>4. i \in Able \ Due(m)
                BY <7>1, <7>3 DEF Due
              <7> QED BY <3>2, <3>3, <3>9, <6>2, <7>1, <7>4
            <6> QED BY <6>1, <6>2
          <5> QED BY <5>1, <5>6, <5>7
        <4>2. CASE m = 0
          <5>1. Due(0) = {} /\ Due(0)' = {}
            <6>1. \A i \in Seats : ~(Ahead(i) < 0)
              BY <3>5
            <6>2. \A i \in Seats : ~(Ahead(i)' < 0)
              BY <1>2, <3>5
            <6> QED BY <6>1, <6>2 DEF Due, Able
          <5>2. Cardinality(Due(0)') = 0
            BY <5>1, FS_EmptySet
          <5>3. actedCount' + Cardinality(Due(0)') <= entered
            BY <1>2, <1>3, <2>3, <3>9, <5>2
          <5>4. \A i \in Able' \ Due(0)' : seats'[i].currentBet = currentBet'
            BY <3>2, <3>3, <3>4, <3>6, <3>9, <4>2, <5>1
          <5>5. 0 \in 0..NumSeats
            BY <1>2
          <5> QED BY <5>3, <5>4, <5>5
        <4> QED BY <4>1, <4>2
      <3>10. CASE actedCount' = 1 /\ seats'[startIdx].currentBet = currentBet'
        <4>1. NumSeats - 1 \in 0..NumSeats
          BY <1>2
        <4>2. Due(NumSeats - 1)' \subseteq Able \ {startIdx}
          <5>1. ASSUME NEW i \in Due(NumSeats - 1)' PROVE i \in Able \ {startIdx}
            <6>1. i \in Able /\ i \in Seats /\ Ahead(i)' < NumSeats - 1
              BY <3>4 DEF Due, Able
            <6> QED BY <1>2, <3>5, <6>1
          <5> QED BY <5>1
        <4>3. Cardinality(Able \ {startIdx}) = Cardinality(Able) - 1 /\ Cardinality(Able) \in Nat
          BY <3>4, SeatsFinite, FS_RemoveElement
        <4>4. /\ Cardinality(Due(NumSeats - 1)') \in Nat
              /\ Cardinality(Due(NumSeats - 1)') <= Cardinality(Able) - 1
          <5>1. IsFiniteSet(Able \ {startIdx})
            BY SeatsFinite, FS_Subset
          <5> QED BY <4>2, <4>3, <5>1, FewerSeats
        <4>5. actedCount' + Cardinality(Due(NumSeats - 1)') <= entered
          BY <1>2, <3>1, <3>10, <4>3, <4>4
        <4>6. ASSUME NEW i \in Able' \ Due(NumSeats - 1)' PROVE seats'[i].currentBet = currentBet'
          <5>1. i \in Seats /\ ~(Ahead(i)' < NumSeats - 1)
            BY <3>6 DEF Due
          <5>2. i = startIdx
            BY <1>2, <3>5, <5>1
          <5> QED BY <3>10, <5>2
        <4> QED BY <4>1, <4>5, <4>6
      <3> QED BY <2>1, <3>9, <3>10
    <2> QED BY <2>2, <2>3
  <1> QED BY <1>4, <1>5

\* A seat passed over was not due, and the others are one turn nearer.
LEMMA SkipRound == ASSUME TableInv, RoundInv, Skip PROVE RoundInv'
  <1>1. /\ pc = "betting" /\ pc' = "betting" /\ UNCHANGED <<seats, currentBet, actedCount, playersToAct, entered>>
        /\ ~CanAct(seats[startIdx]) /\ startIdx' = Seated(startIdx + 1) /\ startIdx \in Seats
        /\ NumSeats \in Nat /\ NumSeats >= 2 /\ actedCount \in Nat /\ entered \in Nat
    BY TableAssumption DEF Skip, Turn, TableInv, TableTypeOK, TableAssumption
  <1>2. playersToAct' <= entered'
    BY <1>1 DEF RoundInv
  <1>3. CASE playersToAct # entered
    BY <1>1, <1>2, <1>3 DEF RoundInv
  <1>4. CASE playersToAct = entered
    <2>1. PICK m \in 0..NumSeats :
             /\ \A i \in Able \ Due(m) : seats[i].currentBet = currentBet
             /\ actedCount + Cardinality(Due(m)) <= entered
      BY <1>1, <1>4 DEF RoundInv
    <2>2. Able' = Able /\ startIdx \notin Able
      BY <1>1 DEF Able
    <2>3. /\ \A i \in Seats : Ahead(i) \in 0..(NumSeats - 1)
          /\ \A i \in Seats : Ahead(i)' = IF i = startIdx THEN NumSeats - 1 ELSE Ahead(i) - 1
          /\ \A i \in Seats : Ahead(i) = 0 <=> i = startIdx
      BY <1>1, Nearer
    <2>4. Cardinality(Able)' <= entered'
      BY <1>1, <1>4, <2>2 DEF RoundInv
    <2> DEFINE n == IF m = 0 THEN 0 ELSE m - 1
    <2>5. n \in 0..NumSeats
      BY <1>1
    <2>6. Due(n)' = Due(m)
      <3>1. ASSUME NEW i \in Able PROVE Ahead(i)' < n <=> Ahead(i) < m
        <4>1. i \in Seats /\ i # startIdx
          BY <2>2 DEF Able
        <4>2. Ahead(i) \in Nat /\ Ahead(i) # 0 /\ Ahead(i)' = Ahead(i) - 1
          BY <2>3, <4>1
        <4> QED BY <4>2
      <3> QED BY <2>2, <3>1 DEF Due
    <2> HIDE DEF n
    <2>7. \A i \in Able' \ Due(n)' : seats'[i].currentBet = currentBet'
      BY <1>1, <2>1, <2>2, <2>6
    <2>8. actedCount' + Cardinality(Due(n)') <= entered'
      BY <1>1, <2>1, <2>6
    <2> QED BY <1>2, <2>4, <2>5, <2>7, <2>8 DEF RoundInv
  <1> QED BY <1>3, <1>4

LEMMA RoundInitInv == TableInit => RoundInv
  BY DEF TableInit, RoundInv

LEMMA RoundNextInv == TableInv /\ RoundInv /\ [TableNext]_tableVars => RoundInv'
  <1> SUFFICES ASSUME TableInv, RoundInv, [TableNext]_tableVars PROVE RoundInv'
    OBVIOUS
  <1>1. TableTypeOK'
    BY TableNextInv DEF TableInv
  <1>2. ASSUME pc' # "betting" PROVE RoundInv'
    BY <1>2 DEF RoundInv
  <1>3. ASSUME NEW i \in Seats, RefillSeat(i) PROVE RoundInv'
    BY <1>2, <1>3 DEF RefillSeat, FirstShort, Eliminate, Rebuy, TopUp
  <1>4. CASE StartHand
    BY <1>1, <1>4, RoundBegins DEF StartHand, BeginPhase
  <1>5. CASE \E d \in Decisions : Act(d)
    BY <1>5, ActRound
  <1>6. CASE Skip
    BY <1>6, SkipRound
  <1>7. CASE EndPhase
    <2>1. CASE pc' = "showdown"
      BY <1>2, <2>1
    <2>2. CASE pc' # "showdown"
      BY <1>1, <1>7, <2>2, RoundBegins DEF EndPhase, BeginPhase
    <2> QED BY <2>1, <2>2
  <1>8. CASE Showdown
    BY <1>2, <1>8 DEF Showdown
  <1>9. CASE CompleteHand
    BY <1>2, <1>9 DEF CompleteHand
  <1>10. CASE UNCHANGED tableVars
    BY <1>10 DEF RoundInv, Due, Able, Ahead, tableVars, gameVars
  <1> QED BY <1>3, <1>4, <1>5, <1>6, <1>7, <1>8, <1>9, <1>10 DEF TableNext

LEMMA RoundCloses == TableInv /\ RoundInv => RoundClosesMatched
  <1> SUFFICES ASSUME TableInv, RoundInv, pc = "betting", RoundOver, playersToAct = entered, entered > 1,
                      NEW i \in Contenders, CanAct(seats[i])
               PROVE  seats[i].currentBet = currentBet
    BY DEF RoundClosesMatched
  <1>1. PICK m \in 0..NumSeats :
           /\ \A j \in Able \ Due(m) : seats[j].currentBet = currentBet
           /\ actedCount + Cardinality(Due(m)) <= entered
    BY DEF RoundInv
  <1>2. actedCount \in Nat /\ entered \in Nat /\ actedCount >= entered
    BY DEF TableInv, TableTypeOK, RoundOver
  <1>3. Cardinality(Due(m)) = 0
    BY <1>1, <1>2, SeatsFinite
  <1>4. Due(m) = {}
    BY <1>3, SeatsFinite, FS_EmptySet
  <1>5. i \in Able
    BY DEF Able, Contenders
  <1> QED BY <1>1, <1>4, <1>5

\* A round that began with two able players or more and in which nobody folded or went all in closes
\* only when every player who can still act has matched the bet, whatever the number of seats and however often the betting was reopened.
THEOREM RoundsCloseMatched == TableSpec => []RoundClosesMatched
  BY TableInitInv, TableNextInv, RoundInitInv, RoundNextInv, RoundCloses, PTL DEF TableSpec

================================================================================
