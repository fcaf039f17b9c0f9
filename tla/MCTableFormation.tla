--------------------------- MODULE MCTableFormation ---------------------------
(* Three bots that sit down in twos and threes, one between two that only fit it: the lowest, which proposes *)
(* to both, or the next, which proposes to the third if it has not heard of the lowest.                      *)
EXTENDS TableFormation

Stake(a, b) == [min |-> a, max |-> b]
MCProfiles == {<<Stake(1, 9), Stake(1, 3), Stake(7, 9)>>, <<Stake(1, 3), Stake(2, 8), Stake(7, 9)>>}
===============================================================================
