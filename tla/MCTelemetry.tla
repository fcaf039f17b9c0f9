------------------------------ MODULE MCTelemetry ------------------------------
(* A process of two tables, of which some runs use one. *)
EXTENDS Telemetry

CONSTANTS t1, t2

Run(hands) == [hands |-> hands, winners |-> {1}, turns |-> {1..2}, cells |-> {0},
               extras |-> {}, meshReports |-> 0, losses |-> 0]

\* Two tables that share the batch and may lose something; hands, an elimination and the statistics of one
\* table; the rarer reports; and cells, with a report of the adapter.
MCSettings == {[Run(t1 :> 1 @@ t2 :> 1) EXCEPT !.losses = 1],
               [Run(t1 :> 2) EXCEPT !.turns = {{2}, 1..2}],
               [Run(t1 :> 1) EXCEPT !.extras = {"swarm", "premium"}],
               [Run(t1 :> 1) EXCEPT !.cells = {1, 2}, !.meshReports = 1]}
===============================================================================
