-------------------------- MODULE TableFormationProofs --------------------------
(***************************************************************************)
(* That a seat is given only to one that accepted the table and is empty   *)
(* only while its call is on its way or lost, for any number of bots, any  *)
(* stakes and table sizes, and however messages are delayed or lost.       *)
(***************************************************************************)
EXTENDS TableFormation, FiniteSetTheorems, SequenceTheorems, TLAPS

-------------------------------------------------------------------------------
(* The invariant. *)

StakeOf(p, P) == (Max({p[c].min : c \in P}) + Min({p[c].max : c \in P})) \div 2
Stakes == {StakeOf(p, P) : p \in Profiles, P \in SUBSET Bots}
Proposal == [players : SUBSET Bots, stake : Stakes, accepts : SUBSET Bots]

FormationTypeOK ==
    /\ profile \in Profiles
    /\ pendingProposals \in [Bots -> Seq(Proposal)]
    /\ DOMAIN lockedTables = Bots /\ DOMAIN currentTableId = Bots

\* A proposal counts the accepts of players it was made to, and only those sent.
AcceptsAreReal ==
    \A b \in Bots : \A n \in DOMAIN pendingProposals[b] :
        LET p == pendingProposals[b][n]
        IN  p.accepts \subseteq p.players /\ \A q \in p.accepts : HasAccepted(q, <<b, n>>)

\* What a control message on its way says of the proposal it is about.
Pending(table) == /\ table[1] \in Bots /\ table[2] \in DOMAIN pendingProposals[table[1]]
                  /\ table = <<table[1], table[2]>>
Invited(table) == pendingProposals[table[1]][table[2]].players

Sound(to, m) ==
    /\ m.type \in {"table.proposal", "table.accept"} => Pending(m.table)
    /\ m.type = "table.proposal" => to \in Invited(m.table)
    /\ m.type = "table.accept" => /\ to = m.table[1] /\ m.from \in Invited(m.table)
                                  /\ HasAccepted(m.from, m.table)
    /\ m.type = "table.locked" => to \in m.players /\ \E f \in formed : f[2] = m.table /\ f[3] = m.players

MessagesSound == \A copy \in net : Sound(copy.to, copy.msg)

\* A bot that ever sat down sits at a table it accepted; tables are formed with bots only.
SittersAccepted == \A b \in Bots : lockedTables[b] # {} => HasAccepted(b, currentTableId[b])
FormedWithBots == \A f \in formed : f[3] \subseteq Bots

FormationInv ==
    FormationTypeOK /\ AcceptsAreReal /\ MessagesSound /\ SittersAccepted /\ FormedWithBots /\ SeatsAreAccepted

LEMMA FormationInit == Init => FormationInv
  BY DEF Init, FormationInv, FormationTypeOK, AcceptsAreReal, MessagesSound, SittersAccepted, FormedWithBots,
         SeatsAreAccepted, Proposal

\* Proposals, accepts and tables are only ever added, so what was sound stays so.
LEMMA StaysSound ==
    ASSUME accepted \subseteq accepted', formed \subseteq formed',
           \A b \in Bots : \A n \in DOMAIN pendingProposals[b] :
               /\ n \in DOMAIN pendingProposals'[b]
               /\ pendingProposals'[b][n].players = pendingProposals[b][n].players,
           NEW to, NEW m, Sound(to, m)
    PROVE  Sound(to, m)'
  BY DEF Sound, HasAccepted, Pending, Invited

\* A copy of a multicast message that is sound for each of its receivers.
LEMMA MulticastSound ==
    ASSUME NEW b, NEW m, NEW for, \A c \in for : Sound(c, m)', NEW copy \in Multicast(b, m, for)
    PROVE  Sound(copy.to, copy.msg)'
  BY DEF Multicast

\* A proposal that has as many accepts as players has them all (the count in handleAccept).
LEMMA AllAccepted ==
    ASSUME NEW p, p.players \subseteq Bots, p.accepts \subseteq p.players, Complete(p)
    PROVE  p.accepts = p.players
  <1>1. IsFiniteSet(Bots)
    BY FormationAssumption, FS_Interval DEF FormationAssumption, Bots
  <1>2. IsFiniteSet(p.players)
    BY <1>1, FS_Subset
  <1>3. IsFiniteSet(p.accepts) /\ Cardinality(p.accepts) <= Cardinality(p.players)
    BY <1>2, FS_Subset
  <1>4. Cardinality(p.accepts) \in Nat /\ Cardinality(p.players) \in Nat
    BY <1>2, <1>3, FS_CardinalityType
  <1>5. Cardinality(p.accepts) = Cardinality(p.players)
    BY <1>3, <1>4 DEF Complete
  <1> QED BY <1>2, <1>5, FS_Subset
-------------------------------------------------------------------------------
(* The steps. *)

LEMMA ProposedPlayers ==
    ASSUME NEW b \in Bots, NEW peers
    PROVE  Proposed(b, peers) \subseteq Bots /\ (Proposed(b, peers) # {} => b \in Proposed(b, peers))
  BY DEF Proposed

LEMMA StakeKnown ==
    ASSUME NEW P \in SUBSET Bots, profile \in Profiles
    PROVE  computeStake(P) \in Stakes
  <1>1. computeStake(P) = StakeOf(profile, P)
    BY DEF computeStake, StakeOf
  <1> QED BY <1>1 DEF Stakes

\* What SeatsAreAccepted asks of one seat.
SeatGood(p, table) == /\ HasAccepted(p, table)
                      /\ \/ table \in lockedTables[p] /\ HasAccepted(p, currentTableId[p])
                         \/ CalledTo(p, table)

\* The seats of the tables formed so far stay good if nobody gives one up but for a table it accepted, and the calls
\* on their way are answered, lost or still on their way.
LEMMA SeatsStay ==
    ASSUME SeatsAreAccepted, FormedWithBots, SittersAccepted', accepted \subseteq accepted',
           \A p \in Bots : lockedTables[p] \subseteq lockedTables'[p],
           \A copy \in net \union lost : copy.msg.type = "table.locked" =>
               \/ copy \in net' \union lost'
               \/ copy.to \in Bots => copy.msg.table \in lockedTables'[copy.to],
           NEW f \in formed, NEW p \in f[3]
    PROVE  SeatGood(p, f[2])'
  <1>1. p \in Bots
    BY DEF FormedWithBots
  <1>2. HasAccepted(p, f[2])'
    BY DEF SeatsAreAccepted, HasAccepted
  <1>3. CASE f[2] \in lockedTables'[p]
    BY <1>1, <1>2, <1>3 DEF SittersAccepted, SeatGood
  <1>4. CASE f[2] \notin lockedTables'[p]
    <2>1. CalledTo(p, f[2])
      BY <1>1, <1>4 DEF SeatsAreAccepted
    <2>2. PICK copy \in net \union lost : copy.to = p /\ copy.msg.type = "table.locked" /\ copy.msg.table = f[2]
      BY <2>1 DEF CalledTo
    <2>3. copy \in net' \union lost'
      BY <1>1, <1>4, <2>2
    <2> QED BY <1>2, <2>2, <2>3 DEF SeatGood, CalledTo
  <1> QED BY <1>3, <1>4

\* A table is formed with good seats.
LEMMA SeatSound ==
    ASSUME \A f \in formed : \A p \in f[3] : SeatGood(p, f[2])',
           NEW b, NEW table, NEW players, NEW stake,
           formed' = formed \union {<<b, table, players, stake>>},
           \A q \in players : SeatGood(q, table)'
    PROVE  SeatsAreAccepted'
  <1>1. SUFFICES ASSUME NEW f \in formed', NEW p \in f[3]
                 PROVE  SeatGood(p, f[2])'
    BY DEF SeatsAreAccepted, SeatGood
  <1>2. CASE f \in formed
    BY <1>2
  <1>3. CASE f = <<b, table, players, stake>>
    <2>1. f[2] = table /\ f[3] = players
      BY <1>3
    <2> QED BY <2>1
  <1> QED BY <1>2, <1>3

\* A step that seats nobody and drops no call leaves the seats as they are.
LEMMA NobodySits ==
    ASSUME FormationInv, UNCHANGED <<lockedTables, currentTableId, formed>>, accepted \subseteq accepted',
           \A copy \in net \union lost : copy.msg.type = "table.locked" => copy \in net' \union lost'
    PROVE  SittersAccepted' /\ FormedWithBots' /\ SeatsAreAccepted'
  <1>1. SittersAccepted' /\ FormedWithBots'
    BY DEF FormationInv, SittersAccepted, FormedWithBots, HasAccepted
  <1>2. \A f \in formed : \A p \in f[3] : SeatGood(p, f[2])'
    BY <1>1, SeatsStay DEF FormationInv
  <1> QED BY <1>1, <1>2 DEF SeatsAreAccepted, SeatGood

LEMMA AnnounceKeeps ==
    ASSUME FormationInv, NEW b \in Bots, NEW heard, NEW dropped, emitDiscovery(b, heard, dropped)
    PROVE  FormationInv'
  <1> DEFINE players == Proposed(b, SelectSeq(availablePeers[b], LAMBDA c : c \notin dropped))
             table == <<b, Len(pendingProposals[b]) + 1>>
             proposal == [players |-> players, stake |-> computeStake(players), accepts |-> {b}]
  <1>1. players \subseteq Bots /\ (players # {} => b \in players)
    BY ProposedPlayers
  <1>2. UNCHANGED <<profile, currentTableId, lockedTables, lost, accepted, formed>> /\ net \subseteq net'
    BY DEF emitDiscovery
  <1>3. SittersAccepted' /\ FormedWithBots' /\ SeatsAreAccepted'
    BY <1>2, NobodySits
  <1>4. CASE players = {}
    <2>1. UNCHANGED <<net, pendingProposals>>
      BY <1>4 DEF emitDiscovery
    <2> QED BY <1>2, <1>3, <2>1 DEF FormationInv, FormationTypeOK, AcceptsAreReal, MessagesSound, Sound,
                                    HasAccepted, Pending, Invited
  <1>5. CASE players # {}
    <2>. DEFINE invitation == [type |-> "table.proposal", from |-> b, table |-> table, players |-> players,
                               stake |-> computeStake(players)]
    <2>0. computeStake(players) \in Stakes
      BY <1>1, StakeKnown DEF FormationInv, FormationTypeOK
    <2>1. PICK p \in Proposal : p = proposal
      BY <1>1, <2>0 DEF Proposal
    <2>2. /\ net' = net \union Multicast(b, invitation, p.players)
          /\ pendingProposals' = [pendingProposals EXCEPT ![b] = Append(@, p)]
      BY <1>5, <2>1 DEF emitDiscovery
    <2>3. PICK m : m = invitation
      OBVIOUS
    <2>4. p.players \subseteq Bots /\ p.accepts = {b} /\ b \in p.players
      BY <1>1, <1>5, <2>1
    <2>m. m.type = "table.proposal" /\ m.table = table /\ net' = net \union Multicast(b, m, p.players)
      BY <2>2, <2>3
    <2> HIDE DEF players, proposal, invitation
    <2>5. pendingProposals \in [Bots -> Seq(Proposal)]
      BY DEF FormationInv, FormationTypeOK
    <2>6. pendingProposals' \in [Bots -> Seq(Proposal)]
      BY <2>2, <2>5
    <2>7. /\ \A c \in Bots : \A n \in DOMAIN pendingProposals[c] :
               n \in DOMAIN pendingProposals'[c] /\ pendingProposals'[c][n] = pendingProposals[c][n]
          /\ \A c \in Bots : c # b => pendingProposals'[c] = pendingProposals[c]
          /\ DOMAIN pendingProposals'[b] = DOMAIN pendingProposals[b] \union {Len(pendingProposals[b]) + 1}
          /\ pendingProposals'[b][Len(pendingProposals[b]) + 1] = p
      BY <2>2, <2>5
    <2>8. AcceptsAreReal'
      <3>1. SUFFICES ASSUME NEW c \in Bots, NEW n \in DOMAIN pendingProposals'[c]
                     PROVE  LET q == pendingProposals'[c][n]
                            IN  /\ q.accepts \subseteq q.players
                                /\ \A r \in q.accepts : r = c \/ <<r, <<c, n>>>> \in accepted
        BY <1>2 DEF AcceptsAreReal, HasAccepted
      <3>2. CASE n \in DOMAIN pendingProposals[c]
        BY <2>7, <3>2 DEF FormationInv, AcceptsAreReal, HasAccepted
      <3>3. CASE n \notin DOMAIN pendingProposals[c]
        <4>1. c = b /\ n = Len(pendingProposals[b]) + 1
          BY <2>7, <3>3
        <4> QED BY <2>4, <2>7, <4>1
      <3> QED BY <3>2, <3>3
    <2>9. \A copy \in net : Sound(copy.to, copy.msg)'
      <3>1. accepted \subseteq accepted' /\ formed \subseteq formed'
        BY <1>2
      <3> QED BY <2>7, <3>1, StaysSound DEF FormationInv, MessagesSound
    <2>10. \A c \in p.players : Sound(c, m)'
      <3>1. m.table[1] = b /\ m.table[2] = Len(pendingProposals[b]) + 1
        BY <2>m
      <3> QED BY <2>m, <2>7, <3>1 DEF Sound, Pending, Invited
    <2>11. MessagesSound'
      BY <2>m, <2>9, <2>10, MulticastSound DEF MessagesSound
    <2>12. FormationTypeOK'
      BY <1>2, <2>6 DEF FormationInv, FormationTypeOK
    <2> QED BY <1>3, <2>8, <2>11, <2>12 DEF FormationInv
  <1> QED BY <1>4, <1>5

LEMMA ProposalKeeps ==
    ASSUME FormationInv, NEW b \in Bots, NEW m, Sound(b, m), handleProposal(b, m),
           UNCHANGED <<profile, lost>>
    PROVE  FormationInv'
  <1>1. Sound(b, m) /\ m.type = "table.proposal"
    BY DEF handleProposal
  <1>2. /\ UNCHANGED <<pendingProposals, currentTableId, lockedTables, formed>> /\ accepted \subseteq accepted'
        /\ net \ {[to |-> b, msg |-> m]} \subseteq net'
    BY DEF handleProposal
  <1>3. FormationTypeOK' /\ AcceptsAreReal' /\ SittersAccepted' /\ FormedWithBots' /\ SeatsAreAccepted'
    <2>1. \A copy \in net \union lost : copy.msg.type = "table.locked" => copy \in net' \union lost'
      BY <1>1, <1>2
    <2>2. SittersAccepted' /\ FormedWithBots' /\ SeatsAreAccepted'
      BY <1>2, <2>1, NobodySits
    <2> QED BY <1>2, <2>2 DEF FormationInv, FormationTypeOK, AcceptsAreReal, HasAccepted
  <1>4. \A copy \in net : Sound(copy.to, copy.msg)'
    BY <1>2, StaysSound DEF FormationInv, MessagesSound
  <1>5. CASE currentTableId[b] = NoTable
    <2> DEFINE reply == [type |-> "table.accept", table |-> m.table, from |-> b]
    <2>1. /\ net' \subseteq net \union Multicast(b, reply, {m.table[1]})
          /\ accepted' = accepted \union {<<b, m.table>>}
      BY <1>5 DEF handleProposal
    <2>2. Sound(m.table[1], reply)'
      BY <1>1, <1>2, <2>1 DEF Sound, HasAccepted, Pending, Invited
    <2>3. \A copy \in Multicast(b, reply, {m.table[1]}) : Sound(copy.to, copy.msg)'
      BY <2>2, MulticastSound
    <2> QED BY <1>3, <1>4, <2>1, <2>3 DEF FormationInv, MessagesSound
  <1>6. CASE currentTableId[b] # NoTable
    <2>1. net' \subseteq net
      BY <1>6 DEF handleProposal
    <2> QED BY <1>3, <1>4, <2>1 DEF FormationInv, MessagesSound
  <1> QED BY <1>5, <1>6

\* A bot that sits down at a table it accepted.
LEMMA SitsDown ==
    ASSUME FormationInv, UNCHANGED accepted, NEW b \in Bots, NEW table, NEW players \in SUBSET Bots, NEW stake,
           Seat(b, table, players, stake), HasAccepted(b, table)
    PROVE  /\ SittersAccepted' /\ FormedWithBots'
           /\ DOMAIN lockedTables' = Bots /\ DOMAIN currentTableId' = Bots
           /\ table \in lockedTables'[b] /\ currentTableId'[b] = table
           /\ \A p \in Bots : lockedTables[p] \subseteq lockedTables'[p]
  <1>1. DOMAIN lockedTables = Bots /\ DOMAIN currentTableId = Bots
    BY DEF FormationInv, FormationTypeOK
  <1>2. /\ currentTableId'[b] = table /\ lockedTables'[b] = lockedTables[b] \union {table}
        /\ \A p \in Bots \ {b} : currentTableId'[p] = currentTableId[p] /\ lockedTables'[p] = lockedTables[p]
        /\ DOMAIN lockedTables' = Bots /\ DOMAIN currentTableId' = Bots
    BY <1>1 DEF Seat
  <1>3. SittersAccepted'
    <2>1. SUFFICES ASSUME NEW p \in Bots, lockedTables'[p] # {} PROVE HasAccepted(p, currentTableId'[p])
      BY DEF SittersAccepted, HasAccepted
    <2>2. CASE p = b
      BY <1>2, <2>2
    <2>3. CASE p # b
      BY <1>2, <2>1, <2>3 DEF FormationInv, SittersAccepted
    <2> QED BY <2>2, <2>3
  <1>4. FormedWithBots'
    <2>1. SUFFICES ASSUME NEW f \in formed' PROVE f[3] \subseteq Bots
      BY DEF FormedWithBots
    <2>2. CASE f \in formed
      BY <2>2 DEF FormationInv, FormedWithBots
    <2>3. CASE f = <<b, table, players, stake>>
      <3>1. f[3] = players
        BY <2>3
      <3> QED BY <3>1
    <2> QED BY <2>2, <2>3 DEF Seat
  <1> QED BY <1>2, <1>3, <1>4

LEMMA LockedKeeps ==
    ASSUME FormationInv, NEW b \in Bots, NEW m, Sound(b, m), handleLocked(b, m),
           UNCHANGED <<profile, lost>>
    PROVE  FormationInv'
  <1>1. PICK g \in formed : g[2] = m.table /\ g[3] = m.players /\ b \in m.players
    BY DEF Sound, handleLocked
  <1>2. /\ UNCHANGED <<pendingProposals, accepted>> /\ net' = net \ {[to |-> b, msg |-> m]}
        /\ Seat(b, m.table, m.players, m.stake)
    BY DEF handleLocked
  <1>3. formed' = formed \union {<<b, m.table, m.players, m.stake>>}
    BY <1>2 DEF Seat
  <1>4. m.players \in SUBSET Bots /\ HasAccepted(b, m.table)
    BY <1>1 DEF FormationInv, FormedWithBots, SeatsAreAccepted
  <1>5. /\ SittersAccepted' /\ FormedWithBots'
        /\ DOMAIN lockedTables' = Bots /\ DOMAIN currentTableId' = Bots
        /\ m.table \in lockedTables'[b] /\ currentTableId'[b] = m.table
        /\ \A p \in Bots : lockedTables[p] \subseteq lockedTables'[p]
    BY <1>2, <1>4, SitsDown
  <1>6. \A f \in formed : \A p \in f[3] : SeatGood(p, f[2])'
    <2>1. \A copy \in net \union lost :
              copy \in net' \union lost' \/ copy.msg.table \in lockedTables'[copy.to]
      BY <1>2, <1>5
    <2> QED BY <1>2, <1>5, <2>1, SeatsStay DEF FormationInv
  <1>7. SeatsAreAccepted'
    BY <1>1, <1>3, <1>6, SeatSound
  <1>8. FormationTypeOK' /\ AcceptsAreReal'
    BY <1>2, <1>5 DEF FormationInv, FormationTypeOK, AcceptsAreReal, HasAccepted
  <1>9. \A copy \in net : Sound(copy.to, copy.msg)'
    BY <1>2, <1>3, StaysSound DEF FormationInv, MessagesSound
  <1> QED BY <1>2, <1>5, <1>7, <1>8, <1>9 DEF FormationInv, MessagesSound

LEMMA AcceptKeeps ==
    ASSUME FormationInv, NEW b \in Bots, NEW m, Sound(b, m), handleAccept(b, m),
           UNCHANGED <<profile, lost>>
    PROVE  FormationInv'
  <1> DEFINE n == m.table[2]
  <1>1. /\ b = m.table[1] /\ n \in DOMAIN pendingProposals[b] /\ m.table = <<b, n>>
        /\ m.from \in pendingProposals[b][n].players /\ HasAccepted(m.from, <<b, n>>)
    BY DEF Sound, Pending, Invited, handleAccept
  <1>2. PICK p : p = [pendingProposals[b][n] EXCEPT !.accepts = @ \union {m.from}]
    OBVIOUS
  <1>3. UNCHANGED accepted /\ formed \subseteq formed'
    BY DEF handleAccept, Seat
  <1>call. m.type = "table.accept" /\ net \ {[to |-> b, msg |-> m]} \subseteq net'
    BY DEF handleAccept
  <1>4. pendingProposals \in [Bots -> Seq(Proposal)] 
    BY DEF FormationInv, FormationTypeOK
  <1>5. pendingProposals[b][n] \in Proposal
    BY <1>1, <1>4
  <1>6. /\ p \in Proposal /\ p.players = pendingProposals[b][n].players
        /\ p.accepts = pendingProposals[b][n].accepts \union {m.from}
    BY <1>1, <1>2, <1>5 DEF Proposal
  <1>7. p.players \subseteq Bots /\ p.accepts \subseteq p.players /\ \A q \in p.accepts : HasAccepted(q, <<b, n>>)
    <2>1. p.players \subseteq Bots
      BY <1>6 DEF Proposal
    <2> QED BY <2>1, <1>1, <1>6 DEF FormationInv, AcceptsAreReal
  <1>8. pendingProposals' = [pendingProposals EXCEPT ![b] = [@ EXCEPT ![n] = p]]
    BY <1>2 DEF handleAccept
  <1>9. pendingProposals' \in [Bots -> Seq(Proposal)]
    <2>1. pendingProposals[b] \in Seq(Proposal)
      BY <1>4
    <2>2. [pendingProposals[b] EXCEPT ![n] = p] \in Seq(Proposal)
      BY <1>1, <1>6, <2>1
    <2> HIDE DEF n
    <2>3. pendingProposals' = [pendingProposals EXCEPT ![b] = [pendingProposals[b] EXCEPT ![n] = p]]
      BY <1>8
    <2> QED BY <1>4, <2>2, <2>3
  <1>10. /\ \A c \in Bots : DOMAIN pendingProposals'[c] = DOMAIN pendingProposals[c]
         /\ pendingProposals'[b][n] = p
         /\ \A c \in Bots : \A k \in DOMAIN pendingProposals[c] :
               <<c, k>> # <<b, n>> => pendingProposals'[c][k] = pendingProposals[c][k]
    BY <1>1, <1>4, <1>8
  <1>12. AcceptsAreReal'
    BY <1>3, <1>7, <1>10 DEF FormationInv, AcceptsAreReal, HasAccepted
  <1>13. \A copy \in net : Sound(copy.to, copy.msg)'
    BY <1>3, <1>6, <1>10, StaysSound DEF FormationInv, MessagesSound
  <1>14. CASE Complete(p)
    <2>1. PICK locked :
            /\ net' \subseteq net \union Multicast(b, locked, p.players)
            /\ Multicast(b, locked, p.players) \subseteq net'
            /\ locked.type = "table.locked" /\ locked.table = m.table /\ locked.players = p.players
      <3>1. net' = (net \ {[to |-> b, msg |-> m]})
                     \union Multicast(b, [type |-> "table.locked", from |-> b, table |-> m.table,
                                         players |-> p.players, stake |-> p.stake], p.players)
        BY <1>2, <1>14 DEF handleAccept
      <3>2. PICK locked : locked = [type |-> "table.locked", from |-> b, table |-> m.table,
                                    players |-> p.players, stake |-> p.stake]
        OBVIOUS
      <3>3. locked.type = "table.locked" /\ locked.table = m.table /\ locked.players = p.players
        BY <3>2
      <3>4. /\ net' \subseteq net \union Multicast(b, locked, p.players)
            /\ Multicast(b, locked, p.players) \subseteq net'
        BY <3>1, <3>2
      <3> QED BY <3>3, <3>4
    <2>2. Seat(b, m.table, p.players, p.stake)
      BY <1>2, <1>14 DEF handleAccept
    <2>3. \A q \in p.players : HasAccepted(q, m.table)
      BY <1>1, <1>7, <1>14, AllAccepted
    <2>4. HasAccepted(b, m.table)
      BY <1>1 DEF HasAccepted
    <2>5. /\ SittersAccepted' /\ FormedWithBots'
          /\ DOMAIN lockedTables' = Bots /\ DOMAIN currentTableId' = Bots
          /\ m.table \in lockedTables'[b] /\ currentTableId'[b] = m.table
          /\ \A c \in Bots : lockedTables[c] \subseteq lockedTables'[c]
      BY <1>3, <1>7, <2>2, <2>4, SitsDown
    <2>6. \A f \in formed : \A c \in f[3] : SeatGood(c, f[2])'
      <3>1. \A copy \in net \union lost : copy.msg.type = "table.locked" => copy \in net' \union lost'
        BY <1>call
      <3> QED BY <1>3, <2>5, <3>1, SeatsStay DEF FormationInv
    <2>7. \A q \in p.players : SeatGood(q, m.table)'
      <3>1. SUFFICES ASSUME NEW q \in p.players PROVE SeatGood(q, m.table)'
        OBVIOUS
      <3>2. HasAccepted(q, m.table)'
        BY <1>3, <2>3 DEF HasAccepted
      <3>3. CASE q = b
        BY <2>5, <3>2, <3>3 DEF SeatGood, HasAccepted
      <3>4. CASE q # b
        <4>1. PICK copy : copy = [to |-> q, msg |-> locked]
          OBVIOUS
        <4>2. copy \in net'
          BY <2>1, <3>4, <4>1 DEF Multicast
        <4>3. copy.to = q /\ copy.msg.type = "table.locked" /\ copy.msg.table = m.table
          BY <2>1, <4>1
        <4> QED BY <3>2, <4>2, <4>3 DEF SeatGood, CalledTo
      <3> QED BY <3>3, <3>4
    <2>8. formed' = formed \union {<<b, m.table, p.players, p.stake>>}
      BY <2>2 DEF Seat
    <2>9. SeatsAreAccepted'
      BY <2>6, <2>7, <2>8, SeatSound
    <2>10. \A c \in p.players : Sound(c, locked)'
      <3>1. PICK g \in formed' : g = <<b, m.table, p.players, p.stake>>
        BY <2>8
      <3>2. g[2] = locked.table /\ g[3] = locked.players
        BY <2>1, <3>1
      <3> QED BY <2>1, <3>2 DEF Sound
    <2>11. MessagesSound'
      BY <1>13, <2>1, <2>10, MulticastSound DEF MessagesSound
    <2>12. FormationTypeOK'
      BY <1>9, <2>5 DEF FormationInv, FormationTypeOK
    <2> QED BY <1>12, <2>5, <2>9, <2>11, <2>12 DEF FormationInv
  <1>15. CASE ~Complete(p)
    <2>1. net' \subseteq net /\ UNCHANGED <<currentTableId, lockedTables, formed>>
      BY <1>2, <1>15 DEF handleAccept
    <2>2. \A copy \in net \union lost : copy.msg.type = "table.locked" => copy \in net' \union lost'
      BY <1>call
    <2>3. SittersAccepted' /\ FormedWithBots' /\ SeatsAreAccepted'
      BY <1>3, <2>1, <2>2, NobodySits
    <2>4. FormationTypeOK'
      BY <1>9, <2>1 DEF FormationInv, FormationTypeOK
    <2> QED BY <1>12, <1>13, <2>1, <2>3, <2>4 DEF FormationInv, MessagesSound
  <1> QED BY <1>14, <1>15

\* A message that gets lost.
LEMMA LoseKeeps == ASSUME FormationInv, Lose PROVE FormationInv'
  <1>1. /\ UNCHANGED <<profile, pendingProposals, currentTableId, lockedTables, accepted, formed>>
        /\ net' \subseteq net /\ net \union lost \subseteq net' \union lost'
    BY DEF Lose
  <1>2. SittersAccepted' /\ FormedWithBots' /\ SeatsAreAccepted'
    BY <1>1, NobodySits
  <1>3. FormationTypeOK' /\ AcceptsAreReal' /\ MessagesSound'
    BY <1>1 DEF FormationInv, FormationTypeOK, AcceptsAreReal, MessagesSound, Sound, HasAccepted, Pending, Invited
  <1> QED BY <1>2, <1>3 DEF FormationInv

LEMMA FormationStep == FormationInv /\ [Next]_vars => FormationInv'
  <1> SUFFICES ASSUME FormationInv, [Next]_vars PROVE FormationInv'
    OBVIOUS
  <1>1. ASSUME NEW b \in Bots, NEW heard, Announce(b, heard) PROVE FormationInv'
    BY <1>1, AnnounceKeeps DEF Announce
  <1>2. ASSUME NEW b \in Bots, handleControl(b) PROVE FormationInv'
    <2>1. PICK copy \in net :
            /\ copy.to = b
            /\ \/ handleProposal(b, copy.msg) \/ handleAccept(b, copy.msg) \/ handleLocked(b, copy.msg)
      BY <1>2 DEF handleControl
    <2>2. UNCHANGED <<profile, lost>> /\ Sound(b, copy.msg)
      BY <1>2, <2>1 DEF handleControl, FormationInv, MessagesSound
    <2> QED BY <2>1, <2>2, ProposalKeeps, AcceptKeeps, LockedKeeps
  <1>3. CASE Lose
    BY <1>3, LoseKeeps
  <1>4. CASE UNCHANGED vars
    <2>1. SittersAccepted' /\ FormedWithBots' /\ SeatsAreAccepted'
      BY <1>4, NobodySits DEF vars
    <2> QED BY <1>4, <2>1 DEF vars, FormationInv, FormationTypeOK, AcceptsAreReal, MessagesSound, Sound, HasAccepted,
                              Pending, Invited
  <1> QED BY <1>1, <1>2, <1>3, <1>4 DEF Next

\* A seat of a formed table belongs to one that accepted or proposed it, who sits there unless its call to it is on
\* its way or lost, or who left it for another table it accepted; however messages are delayed, lost or sent for
\* several tables at once (handleProposal, handleAccept, handleLocked).
THEOREM SeatsAlwaysAccepted == Spec => []SeatsAreAccepted
  <1>1. FormationInv => SeatsAreAccepted
    BY DEF FormationInv
  <1> QED BY <1>1, FormationInit, FormationStep, PTL DEF Spec
===============================================================================
