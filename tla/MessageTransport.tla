---------------------------- MODULE MessageTransport ----------------------------
(***************************************************************************)
(* PokerMessageTransport of src/src/agent/poker-message-transport.ts, one  *)
(* per seat, over the MessageBox server: a message stays in its box until  *)
(* it is acknowledged, is pushed over the socket to a seat that listens,   *)
(* and is listed to a seat that drains.  A message may so arrive twice.    *)
(*                                                                         *)
(* One drain at a time runs per seat.  Pushes of one box arrive in order;  *)
(* a push, or an acknowledgement, may get lost.                            *)
(***************************************************************************)
EXTENDS Integers, Sequences

CONSTANTS
    MaxMissed,      \* bound: pushes and acknowledgements that get lost
    Lossy           \* bound: the seats that lose them

Ends == {0, 1}
Boxes == {"moves", "control"}

VARIABLES
    box,        \* messages on the server, per seat; ids tell their order
    pushed,     \* per seat and box: pushes on their way
    drain,      \* per seat: <<>> or <<[box, left]>>, the listing being worked off
    inbox,      \* per seat: lastReceivedMove, the queue of moves, the two handlers, the control message
                \* awaited and whether it has come; history: whether a move found no handler
    sent,       \* per seat: messages sent so far; the moves among them carry moveCounter
    missed      \* bound: how many got lost; history: the seats that a move's push did not reach

transportVars == <<box, pushed, drain, inbox, sent, missed>>

TransportInit ==
    /\ box = [s \in Ends |-> {}]
    /\ pushed = [s \in Ends |-> [b \in Boxes |-> <<>>]]
    /\ drain = [s \in Ends |-> <<>>]
    /\ inbox = [s \in Ends |-> [last |-> -1, queue |-> <<>>, onMove |-> FALSE, onControl |-> "none",
                                awaits |-> "", got |-> FALSE, dropped |-> FALSE]]
    /\ sent = [s \in Ends |-> [all |-> 0, moves |-> 0]]
    /\ missed = [count |-> 0, moves |-> {}]

\* sendMessage: kept on the server, and pushed if the other seat listens.
Send(s, b, body) ==
    LET to == 1 - s
        m == [id |-> sent[s].all + 1, box |-> b, body |-> body]
    IN  /\ sent' = [sent EXCEPT ![s].all = @ + 1, ![s].moves = @ + (IF b = "moves" THEN 1 ELSE 0)]
        /\ box' = [box EXCEPT ![to] = @ \union {m}]
        /\ \/ /\ pushed' = IF inbox[to].onMove THEN [pushed EXCEPT ![to][b] = Append(@, m)] ELSE pushed
              /\ UNCHANGED missed
           \/ /\ inbox[to].onMove /\ to \in Lossy /\ missed.count < MaxMissed
              /\ missed' = [count |-> missed.count + 1,
                             moves |-> missed.moves \union (IF b = "moves" THEN {to} ELSE {})]
              /\ UNCHANGED pushed

sendControl(s, type) == Send(s, "control", [type |-> type])
sendMove(s, move) == Send(s, "moves", [num |-> sent[s].moves + 1, move |-> move])

\* Mutants: a move with the number of the last one is let through; the next number counts as known.
AcceptRepeated(in, num) == num >= in.last
RefuseNext(in, num) == num > in.last + 1

\* Replay protection: strictly increasing numbers.
Fresh(in, num) == num > in.last

\* What a message does to the seat's handlers (handleIncoming; the control handlers of
\* startListening and drainPending call onControl whatever the message's type).
Received(in, m) ==
    IF m.box = "moves"
    THEN IF ~Fresh(in, m.body.num) THEN in
         ELSE [in EXCEPT !.last = m.body.num,
                         !.queue = IF in.onMove THEN Append(@, m.body) ELSE @,
                         !.dropped = @ \/ ~in.onMove]
    ELSE IF in.onControl = "await" /\ m.body.type = in.awaits
         THEN [in EXCEPT !.got = TRUE, !.onControl = IF in.onMove THEN "log" ELSE "none"]
         ELSE in

\* A message is handled and then acknowledged, which takes it from the server; heard tells whether
\* the server hears of it.
Take(s, m, heard) ==
    /\ inbox' = [inbox EXCEPT ![s] = Received(@, m)]
    /\ IF heard THEN /\ box' = [box EXCEPT ![s] = {x \in @ : x.id # m.id}]
                     /\ UNCHANGED missed
       ELSE /\ s \in Lossy /\ missed.count < MaxMissed /\ missed' = [missed EXCEPT !.count = @ + 1]
            /\ UNCHANGED box

Push(s, b) ==
    /\ pushed[s][b] # <<>>
    /\ \E heard \in BOOLEAN : Take(s, Head(pushed[s][b]), heard)
    /\ pushed' = [pushed EXCEPT ![s][b] = Tail(@)]
    /\ UNCHANGED <<drain, sent>>

Listing(messages, b) == {m \in messages : m.box = b}

\* drainPending lists the moves, works them off, then lists and works off the control messages.
Drain(messages, left, b) ==
    IF left # {} THEN <<[box |-> b, left |-> left]>>
    ELSE IF b = "moves" /\ Listing(messages, "control") # {}
         THEN <<[box |-> "control", left |-> Listing(messages, "control")]>>
         ELSE <<>>
StartDrain(s) == drain' = [drain EXCEPT ![s] = Drain(box[s], Listing(box[s], "moves"), "moves")]

\* The oldest of the listing is handled; a failed acknowledgement ends the work on its box.
DrainStep(s) ==
    /\ drain[s] # <<>>
    /\ LET d == drain[s][1]
       IN  \E m \in d.left, heard \in BOOLEAN :
             /\ \A x \in d.left : m.id <= x.id
             /\ Take(s, m, heard)
             /\ drain' = [drain EXCEPT ![s] = Drain(box'[s], IF heard THEN d.left \ {m} ELSE {}, d.box)]
    /\ UNCHANGED <<pushed, sent>>

\* waitForControl puts its handler over the transport's and polls every two seconds.
Awaiting(s, type) == [inbox[s] EXCEPT !.onControl = "await", !.awaits = type, !.got = FALSE]
Poll(s) ==
    /\ inbox[s].onControl = "await" /\ drain[s] = <<>> /\ box[s] # {}
    /\ StartDrain(s)
    /\ UNCHANGED <<box, pushed, inbox, sent, missed>>

startListening(s) ==
    /\ inbox' = [inbox EXCEPT ![s].onMove = TRUE, ![s].onControl = "log", ![s].got = FALSE]
    /\ StartDrain(s)
===============================================================================
