------------------------------ MODULE MCApexHunt ------------------------------
(* One or two agents, and one table of the floor. *)
EXTENDS ApexHunt

CONSTANTS a1, a2

Run(apexes, rogues) ==
    [apexes |-> apexes, rogues |-> rogues, hands |-> 1, cells |-> {0}, cycles |-> 0, losses |-> 0]

\* One apex that roams twice, one that thinks, one whose hands log cells, two that meet, a rogue, and an apex beside
\* a rogue; some of them over a network that loses.
MCSettings == {[Run({a1}, {}) EXCEPT !.hands = 3, !.losses = 1],
               [Run({a1}, {}) EXCEPT !.cycles = 4, !.losses = 1],
               [Run({a1}, {}) EXCEPT !.hands = 2, !.cells = {0, 1}],
               [Run({a1, a2}, {}) EXCEPT !.losses = 1],
               [Run({}, {a1}) EXCEPT !.hands = 2],
               Run({a1}, {a2})}
===============================================================================
