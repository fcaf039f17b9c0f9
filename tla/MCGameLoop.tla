------------------------------- MODULE MCGameLoop -------------------------------
(* Two matches that share an agent; the second is a guest of the manager. *)
EXTENDS GameLoop

CONSTANTS m1, m2, ann, bob, cai

MCAgentOf == [m \in Matches |-> [s \in Sides |-> IF s = "A" THEN ann ELSE IF m = m1 THEN bob ELSE cai]]

\* Two hands on its own, and a hand with a guest.
MCSettings == {[chips |-> 4, hands |-> 2, guestBets |-> 0], [chips |-> 2, hands |-> 1, guestBets |-> 1]}

\* A tampered bet in each match and a failed broadcast, or one more tampered bet of the guest.
MCBounds == {[tampers |-> [m \in Matches |-> 1], faults |-> 1],
             [tampers |-> [m \in Matches |-> IF m = match THEN 1 ELSE 2], faults |-> 0]}
===============================================================================
