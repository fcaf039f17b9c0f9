------------------------------ MODULE ChannelFSM ------------------------------
(***************************************************************************)
(* The metering channel of src/src/stubs/channel-fsm.ts: a record of the   *)
(* channel's state and meters, the transition table, and the pure          *)
(* functions that return the next channel or an error.                     *)
(* A result is [ok, value]; on error the caller keeps its own channel, so  *)
(* value is then the channel it passed in.                                 *)
(***************************************************************************)
EXTENDS Integers

ChannelState == {"NEGOTIATING", "FUNDED", "ACTIVE", "PAUSED",
                 "CLOSING_REQUESTED", "CLOSING_CONFIRMED", "SETTLED", "DISPUTED"}

\* The table as the set of its edges <<from, action, to>>.
transitionTable ==
    { <<"NEGOTIATING", "fund", "FUNDED">>,
      <<"FUNDED", "activate", "ACTIVE">>,
      <<"ACTIVE", "pause", "PAUSED">>,
      <<"ACTIVE", "requestClose", "CLOSING_REQUESTED">>,
      <<"PAUSED", "resume", "ACTIVE">>,
      <<"PAUSED", "requestClose", "CLOSING_REQUESTED">>,
      <<"CLOSING_REQUESTED", "confirmClose", "CLOSING_CONFIRMED">>,
      <<"CLOSING_REQUESTED", "dispute", "DISPUTED">>,
      <<"CLOSING_CONFIRMED", "settle", "SETTLED">>,
      <<"CLOSING_CONFIRMED", "dispute", "DISPUTED">>,
      <<"DISPUTED", "resolve", "SETTLED">> }

canTransition(state, action) == \E edge \in transitionTable : edge[1] = state /\ edge[2] = action

Ok(ch)   == [ok |-> TRUE,  value |-> ch]
Fail(ch) == [ok |-> FALSE, value |-> ch]

\* nSequence always moves with currentTick and the timestamps decide nothing: both are left out.
createChannel == [state |-> "NEGOTIATING", currentTick |-> 0, cumulativeSatoshis |-> 0]

\* Every named transition checks the table for its own action and moves to its own target.
Move(ch, action, to) == IF canTransition(ch.state, action) THEN Ok([ch EXCEPT !.state = to]) ELSE Fail(ch)

fund(ch)         == Move(ch, "fund", "FUNDED")
activate(ch)     == Move(ch, "activate", "ACTIVE")
pause(ch)        == Move(ch, "pause", "PAUSED")
resume(ch)       == Move(ch, "resume", "ACTIVE")
requestClose(ch) == Move(ch, "requestClose", "CLOSING_REQUESTED")
confirmClose(ch) == Move(ch, "confirmClose", "CLOSING_CONFIRMED")
settle(ch)       == Move(ch, "settle", "SETTLED")
dispute(ch)      == Move(ch, "dispute", "DISPUTED")

\* Mutant: the amount is not checked.
TickUnguarded(ch, satoshisThisTick) ==
    IF ch.state = "ACTIVE"
    THEN Ok([ch EXCEPT !.currentTick = @ + 1, !.cumulativeSatoshis = @ + satoshisThisTick])
    ELSE Fail(ch)

tick(ch, satoshisThisTick) ==
    IF ch.state = "ACTIVE" /\ satoshisThisTick >= 0
    THEN Ok([ch EXCEPT !.currentTick = @ + 1, !.cumulativeSatoshis = @ + satoshisThisTick])
    ELSE Fail(ch)
===============================================================================
