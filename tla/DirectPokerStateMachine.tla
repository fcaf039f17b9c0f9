------------------------ MODULE DirectPokerStateMachine ------------------------
(***************************************************************************)
(* src/src/agent/direct-poker-state-machine.ts: the chain of linear cells  *)
(* of one hand.  Each transition spends the live cell and makes the next.  *)
(* The operators take the engine's answer to the broadcast; one that fails *)
(* throws to the caller.  Events of the hand go out as OP_RETURNs beside   *)
(* the chain; a failed one is logged and changes nothing here.             *)
(***************************************************************************)
EXTENDS Cells, Sequences

VARIABLES
    liveCell,       \* liveUtxo and prevCellBytes: <<>> or <<cell>>
    handVersion,    \* cellVersion
    handCells,      \* history: the cells of this hand that were broadcast
    smThrew         \* the last call threw

smVars == <<liveCell, handVersion, handCells, smThrew>>

SMInit == liveCell = <<>> /\ handVersion = 0 /\ handCells = <<>> /\ smThrew = FALSE

\* Mutant: the version is not carried into the cell's header.
VersionOne(version, body) == NewCell("LINEAR", "poker-hand", "game", Zero, body)

\* buildPokerCell: owned by the game, without a link to the cell before.
HandCell(version, body) == WithVersion(NewCell("LINEAR", "poker-hand", "game", Zero, body), version)

Sent(c, verdict) == [version |-> c.version, body |-> c.body, verdict |-> verdict]

\* Everything but the version and the history is reset before the broadcast.
createHandToken(body, ok) ==
    LET c == HandCell(1, body)
    IN  /\ handVersion' = 1
        /\ liveCell' = IF ok THEN <<c>> ELSE <<>>
        /\ handCells' = IF ok THEN <<Sent(c, IF validateCell(c) THEN "valid" ELSE "invalid")>> ELSE <<>>
        /\ smThrew' = ~ok

\* transition, and endHand (done), which forgets the live cell.  The version moves before the
\* broadcast; the verdict of the kernel (init always loads the bundled one) is logged and not
\* obeyed, but an exception of the kernel is the caller's.
transition(body, ok, done) ==
    IF liveCell = <<>>
    THEN smThrew' = FALSE /\ UNCHANGED <<liveCell, handVersion, handCells>>
    ELSE LET c == HandCell(handVersion + 1, body)
             verdict == validate("stub", liveCell[1], c)
             sent == ok /\ verdict # "throws"
         IN  /\ handVersion' = handVersion + 1
             /\ liveCell' = IF ~sent THEN liveCell ELSE IF done THEN <<>> ELSE <<c>>
             /\ handCells' = IF sent THEN Append(handCells, Sent(c, verdict)) ELSE handCells
             /\ smThrew' = ~sent
===============================================================================
