----------------------------- MODULE TableFormation -----------------------------
(***************************************************************************)
(* TableFormationService of src/src/agent/table-formation.ts, one per bot: *)
(* bots announce themselves, the one with the lowest BCA proposes a table, *)
(* the others accept, and the proposer locks it.  Control messages are     *)
(* multicast by the docker adapter and never sent again; each copy may be  *)
(* late or get lost.  Only announcements, which are repeated for ever, are *)
(* heard at once by those who hear them at all.                            *)
(***************************************************************************)
EXTENDS Integers, Sequences, SequencesExt, FiniteSetsExt

CONSTANTS
    NumBots,                \* bots are numbered in the order of their BCAs
    Profiles,               \* sets of stake profiles to start with, each a sequence of [min, max]
    minPlayers, maxPlayers,
    MaxProposals,           \* bound: proposals of all bots
    MaxLost,                \* bound: copies of control messages that get lost
    MaxSilent               \* bound: peers dropped for silence although they are there

Bots == 1..NumBots
NoTable == <<>>

ASSUME FormationAssumption ==
    /\ {NumBots, minPlayers, maxPlayers, MaxProposals, MaxLost, MaxSilent} \subseteq Nat
    /\ minPlayers >= 2 /\ maxPlayers >= minPlayers
    /\ \A p \in Profiles : Len(p) = NumBots

VARIABLES
    profile,            \* minStake and maxStake of each bot
    availablePeers,     \* per bot: peers in the order they were first heard
    pendingProposals,   \* per bot: its proposals, [players, stake, accepts]; a table is <<bot, number>>
    currentTableId,     \* per bot
    lockedTables,       \* per bot
    net,                \* copies of control messages on their way, [to, msg]
    lost,               \* history: copies that never came
    accepted,           \* history: <<bot, table>> for every accept sent
    formed,             \* history: what onTableFormed was told, <<bot, table, players, stake>>
    silent              \* bound: peers dropped so far

vars == <<profile, availablePeers, pendingProposals, currentTableId, lockedTables, net, lost, accepted, formed, silent>>

Init ==
    /\ profile \in Profiles
    /\ availablePeers = [b \in Bots |-> <<>>]
    /\ pendingProposals = [b \in Bots |-> <<>>]
    /\ currentTableId = [b \in Bots |-> NoTable]
    /\ lockedTables = [b \in Bots |-> {}]
    /\ net = {} /\ lost = {} /\ accepted = {} /\ formed = {} /\ silent = 0

\* sendControl: a copy for every bot but the sender, whose own the adapter ignores.  Those whom the
\* message is not for drop it: handleProposal and handleLocked unless invited, handleAccept unless
\* the table is pending here.
Multicast(b, m, for) == {[to |-> c, msg |-> m] : c \in for \ {b}}
-------------------------------------------------------------------------------
(* Discovery and proposal. *)

Overlap(b, c) == /\ profile[b].min <= profile[c].max
                 /\ profile[c].min <= profile[b].max

\* The middle between the highest minimum and the lowest maximum.
computeStake(players) ==
    (Max({profile[p].min : p \in players}) + Min({profile[p].max : p \in players})) \div 2

\* Those that fit the proposer, as many as there is room for, if they are enough and it has the lowest BCA.
Proposed(b, peers) ==
    LET compatible == SelectSeq(peers, LAMBDA c : Overlap(b, c))
        players == Bots \intersect
                       ({b} \union Range(SubSeq(compatible, 1, Min({Len(compatible), maxPlayers - 1}))))
    IN  IF Len(compatible) + 1 < minPlayers \/ Min(players) # b THEN {} ELSE players

\* handleDiscovery, at a bot that hears c's announcement.
handleDiscovery(peers, c) == IF c \in Range(peers) THEN peers ELSE Append(peers, c)

\* emitDiscovery, every three seconds: announce, drop the peers not heard for ten seconds, try to
\* propose.  Seated peers fall silent; of others an announcement may have been missed.
emitDiscovery(b, heard, dropped) ==
    LET peers == SelectSeq(availablePeers[b], LAMBDA c : c \notin dropped)
        players == Proposed(b, peers)
        stake == computeStake(players)
        table == <<b, Len(pendingProposals[b]) + 1>>
        missing == {c \in dropped : currentTableId[c] = NoTable}
    IN  /\ currentTableId[b] = NoTable
        /\ silent + Cardinality(missing) <= MaxSilent
        /\ silent' = silent + Cardinality(missing)
        /\ availablePeers' = [c \in Bots |-> IF c = b THEN peers
                                 ELSE IF c \in heard THEN handleDiscovery(availablePeers[c], b)
                                 ELSE availablePeers[c]]
        /\ IF players = {}
           THEN UNCHANGED <<net, pendingProposals>>
           ELSE /\ MapThenSumSet(LAMBDA c : Len(pendingProposals[c]), Bots) < MaxProposals
                /\ net' = net \union Multicast(b,
                       [type |-> "table.proposal", from |-> b, table |-> table, players |-> players, stake |-> stake], players)
                /\ pendingProposals' = [pendingProposals EXCEPT ![b] =
                       Append(@, [players |-> players, stake |-> stake, accepts |-> {b}])]
        /\ UNCHANGED <<profile, currentTableId, lockedTables, lost, accepted, formed>>

Announce(b, heard) == \E dropped \in SUBSET Range(availablePeers[b]) : emitDiscovery(b, heard, dropped)
-------------------------------------------------------------------------------
(* Handlers: each takes its copy from the net. *)

handleProposal(b, m) ==
    /\ m.type = "table.proposal"
    /\ LET left == net \ {[to |-> b, msg |-> m]}
       IN  IF currentTableId[b] = NoTable
           THEN /\ net' = left \union
                        Multicast(b, [type |-> "table.accept", table |-> m.table, from |-> b], {m.table[1]})
                /\ accepted' = accepted \union {<<b, m.table>>}
           ELSE net' = left /\ UNCHANGED accepted
    /\ UNCHANGED <<availablePeers, pendingProposals, currentTableId, lockedTables, formed>>

Seat(b, table, players, stake) ==
    /\ currentTableId' = [currentTableId EXCEPT ![b] = table]
    /\ lockedTables' = [lockedTables EXCEPT ![b] = @ \union {table}]
    /\ formed' = formed \union {<<b, table, players, stake>>}

\* Mutants: one answer is not waited for; one too many is.
OneTooMany(proposal) == Cardinality(proposal.accepts) > Cardinality(proposal.players)
AllButOne(proposal) == Cardinality(proposal.accepts) >= Cardinality(proposal.players) - 1

Complete(proposal) == Cardinality(proposal.accepts) >= Cardinality(proposal.players)

\* Nothing stops the proposer from completing a second proposal when it is seated.
handleAccept(b, m) ==
    /\ m.type = "table.accept"
    /\ LET left == net \ {[to |-> b, msg |-> m]}
           n == m.table[2]
           p == [pendingProposals[b][n] EXCEPT !.accepts = @ \union {m.from}]
       IN  /\ pendingProposals' = [pendingProposals EXCEPT ![b][n] = p]
           /\ IF Complete(p)
              THEN /\ Seat(b, m.table, p.players, p.stake)
                   /\ net' = left \union Multicast(b, [type |-> "table.locked", from |-> b, table |-> m.table,
                                                      players |-> p.players, stake |-> p.stake], p.players)
              ELSE net' = left /\ UNCHANGED <<currentTableId, lockedTables, formed>>
    /\ UNCHANGED <<availablePeers, accepted>>

handleLocked(b, m) ==
    /\ m.type = "table.locked"
    /\ net' = net \ {[to |-> b, msg |-> m]}
    /\ Seat(b, m.table, m.players, m.stake)
    /\ UNCHANGED <<availablePeers, pendingProposals, accepted>>

handleControl(b) ==
    /\ \E copy \in net :
         /\ copy.to = b
         /\ \/ handleProposal(b, copy.msg) \/ handleAccept(b, copy.msg) \/ handleLocked(b, copy.msg)
    /\ UNCHANGED <<profile, silent, lost>>

\* The send fails, which sendControl's callers ignore, or the datagram is dropped.
Lose ==
    /\ Cardinality(lost) < MaxLost
    /\ \E copy \in net : net' = net \ {copy} /\ lost' = lost \union {copy}
    /\ UNCHANGED <<profile, availablePeers, pendingProposals, currentTableId, lockedTables, accepted, formed, silent>>

\* Those that b's announcement is new to; the others it only keeps from forgetting b.
Strangers(b) == {c \in Bots \ {b} : b \notin Range(availablePeers[c])}

Silent(b) == {c \in Range(availablePeers[b]) : currentTableId[c] # NoTable}

Next == \/ Lose
        \/ \E b \in Bots : handleControl(b) \/ \E heard \in SUBSET Strangers(b) : Announce(b, heard)

\* The timers fire; sooner or later an announcement is heard by all that do not know the bot, at a time when
\* only seated peers have been silent for ten seconds; and a message that is not lost comes.
Fairness == \A b \in Bots : WF_vars(emitDiscovery(b, Strangers(b), Silent(b))) /\ WF_vars(handleControl(b))
Spec == Init /\ [][Next]_vars /\ Fairness
-------------------------------------------------------------------------------
(* Properties *)

HasAccepted(p, table) == p = table[1] \/ <<p, table>> \in accepted
CalledTo(p, table) == \E copy \in net \union lost : /\ copy.to = p /\ copy.msg.type = "table.locked"
                                                  /\ copy.msg.table = table

\* A seat is given only to one that accepted that very table.  It stays empty only while the table.locked that
\* calls the player to it is on its way or if it got lost; a player leaves it again only for another table it
\* accepted (handleProposal, handleAccept, handleLocked).
SeatsAreAccepted ==
    \A f \in formed : \A p \in f[3] :
        /\ HasAccepted(p, f[2])
        /\ \/ f[2] \in lockedTables[p] /\ HasAccepted(p, currentTableId[p])
           \/ CalledTo(p, f[2])

\* If its lowest bot fits enough others, the mesh forms a table though messages get lost, since what is not
\* answered is proposed again; whom a table was formed for comes to sit there, unless its table.locked, which is
\* sent once, is among the lost (emitDiscovery, handleProposal, handleAccept, handleLocked).
TablesFill ==
    <>[](/\ Cardinality({b \in Bots : Overlap(1, b)}) >= minPlayers => formed # {}
         /\ \A f \in formed : \A p \in f[3] :
                f[2] \in lockedTables[p]
                \/ \E copy \in lost : copy.to = p /\ copy.msg.type = "table.locked" /\ copy.msg.table = f[2])
===============================================================================
