-------------------------------- MODULE PotGame --------------------------------
(***************************************************************************)
(* What a poker table promises about money: two antes open a hand, chips   *)
(* then move only from a player still contending into the pot, players     *)
(* only ever leave the contest, the last one cannot leave, and the whole   *)
(* pot goes to one contender.  Stacks are filled up only between hands.    *)
(***************************************************************************)
EXTENDS Integers

CONSTANTS Seats, StartingChips, BigBlind

VARIABLES stack, pot, contenders

potVars == <<stack, pot, contenders>>

Init == stack = [i \in Seats |-> StartingChips] /\ pot = 0 /\ contenders = {}

TopUp(i) ==
    /\ contenders = {}
    /\ stack[i] < BigBlind
    /\ stack' = [stack EXCEPT ![i] = StartingChips]
    /\ UNCHANGED <<pot, contenders>>

Deal(i, j, small, big) ==
    /\ contenders = {}
    /\ small \in 0..stack[i] /\ big \in 0..stack[j]
    /\ stack' = [stack EXCEPT ![i] = @ - small, ![j] = @ - big]
    /\ pot' = small + big
    /\ contenders' = Seats

Wager(i, amount) ==
    /\ i \in contenders
    /\ amount \in 0..stack[i]
    /\ stack' = [stack EXCEPT ![i] = @ - amount]
    /\ pot' = pot + amount
    /\ UNCHANGED contenders

Fold(i) ==
    /\ i \in contenders /\ contenders # {i}
    /\ contenders' = contenders \ {i}
    /\ UNCHANGED <<stack, pot>>

Award(i) ==
    /\ i \in contenders
    /\ stack' = [stack EXCEPT ![i] = @ + pot]
    /\ pot' = 0
    /\ contenders' = {}

Next ==
    \E i \in Seats :
        \/ TopUp(i) \/ Fold(i) \/ Award(i)
        \/ \E amount \in 1..stack[i] : Wager(i, amount)
        \/ \E j \in Seats \ {i} : \E small \in 0..stack[i], big \in 0..stack[j] : Deal(i, j, small, big)

Spec == Init /\ [][Next]_potVars
===============================================================================
