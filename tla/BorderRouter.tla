------------------------------ MODULE BorderRouter ------------------------------
(***************************************************************************)
(* The in-memory stores of src/src/border-router.ts and what each of its   *)
(* endpoints and multicast handlers makes of them.  Every handler runs     *)
(* without an await after its body has been read, so each is one function  *)
(* of the stores; the processes that send are in modules of their own.     *)
(*                                                                         *)
(* Actions of a hand, personas and pot statistics that only feed scores    *)
(* are left out, and so are the SQLite overlay's columns.                  *)
(***************************************************************************)
EXTENDS Integers, Sequences, FiniteSets, FiniteSetsExt, TLC

CONSTANTS
    RingSize,           \* hands kept (500 in the code)
    AutoReportEvery,    \* AUTO_REPORT_EVERY; 0 turns the reports off
    TopUpChips          \* what a player is taken to start with (1000 in the code)

ASSUME RouterAssumption ==
    /\ RingSize \in Nat \ {0} /\ AutoReportEvery \in Nat /\ TopUpChips \in Nat

Empty == <<>>   \* the function without arguments: a Map with no entries

EmptyStores ==
    [hands |-> <<>>, totalHands |-> 0, totalTx |-> 0, botStats |-> Empty, playerStats |-> Empty,
     eliminations |-> 0, uniquePlayers |-> 0, premiumHands |-> 0, swarm |-> Empty, swarmUpdates |-> 0,
     cells |-> 0, overlay |-> {}, lastReportAt |-> 0, reporting |-> FALSE,
     paymentChannels |-> <<>>, meshNodes |-> Empty,
     settlements |-> <<>>, rebuys |-> Empty, knownApex |-> {}, matchups |-> <<>>,
     cheats |-> <<>>, policies |-> <<>>]

Entry(map, key, default) == IF key \in DOMAIN map THEN map[key] ELSE default
Put(map, key, value) == [k \in DOMAIN map \union {key} |-> IF k = key THEN value ELSE map[k]]
-------------------------------------------------------------------------------
(* Hands. *)

NewBot == [handsPlayed |-> 0, handsWon |-> 0, potWon |-> 0, potLost |-> 0,
           policyUpgrades |-> 0, lastPolicyVersion |-> 0]
NewPlayer(table) == [tableId |-> table, handsPlayed |-> 0, handsWon |-> 0, chips |-> TopUpChips, chipDelta |-> 0]

\* An existing entry keeps the table it was first seen at.
getOrCreatePlayerStats(stores, p, table) == Entry(stores.playerStats, p, NewPlayer(table))

BotAfter(bot, won, pot) ==
    [bot EXCEPT !.handsPlayed = @ + 1, !.handsWon = @ + (IF won THEN 1 ELSE 0),
                !.potWon = @ + (IF won THEN pot ELSE 0), !.potLost = @ + (IF won THEN 0 ELSE pot)]

PlayerAfter(player, won, pot, others) ==
    LET delta == player.chipDelta + (IF won THEN pot ELSE -(pot \div Max({1, others})))
    IN  [player EXCEPT !.handsPlayed = @ + 1, !.handsWon = @ + (IF won THEN 1 ELSE 0),
                       !.chipDelta = delta, !.chips = TopUpChips + delta]

\* updatePlayerStatsFromHand: whoever is at the showdown gets an entry, whoever acted has played.
PlayersAfter(stores, h) ==
    LET entry(p) == getOrCreatePlayerStats(stores, p, h.table)
    IN  [p \in h.acted |-> PlayerAfter(entry(p), p = h.winner, h.pot, Cardinality(h.acted) - 1)]
        @@ [p \in h.showdown |-> entry(p)] @@ stores.playerStats

\* A hand is counted for each of `bots`.
IngestHand(stores, h, bots) ==
    [stores EXCEPT
        !.hands = Append(IF Len(@) >= RingSize THEN Tail(@) ELSE @, h),
        !.totalHands = @ + 1,
        !.totalTx = @ + h.txCount,
        !.botStats = [b \in bots |-> BotAfter(Entry(@, b, NewBot), b = h.winner, h.pot)] @@ @,
        !.playerStats = PlayersAfter(stores, h)]

\* A posted hand is counted for the bot it names.
HandPosted(stores, h) == IngestHand(stores, h, {h.myBotId})
\* A hand heard over multicast is counted for all who acted.
HandHeard(stores, h) == IngestHand(stores, h, h.acted)
-------------------------------------------------------------------------------
(* What else floors report. *)

StatsHeard(stores, table, rows) ==
    [stores EXCEPT !.playerStats =
        [p \in DOMAIN rows |->
            [getOrCreatePlayerStats(stores, p, table) EXCEPT
                !.chips = rows[p].chips, !.chipDelta = rows[p].chips - TopUpChips,
                !.handsPlayed = Max({@, rows[p].handsPlayed})]] @@ @]

SwarmHeard(stores, snapshots) ==
    [stores EXCEPT !.swarm = snapshots @@ @, !.swarmUpdates = @ + 1]

\* maybeTriggerAutoReport: the checkpoint moves before the report is asked for.
AutoReport(stores) ==
    IF AutoReportEvery = 0 \/ stores.reporting \/ stores.cells - stores.lastReportAt < AutoReportEvery
    THEN stores
    ELSE [stores EXCEPT !.lastReportAt = stores.cells, !.reporting = TRUE]

\* Posted cells are only counted; those heard are also kept, by transaction.
CellsPosted(stores, batch) == AutoReport([stores EXCEPT !.cells = @ + Cardinality(batch)])
CellsHeard(stores, batch) == [CellsPosted(stores, batch) EXCEPT !.overlay = @ \union batch]

EliminationHeard(stores) == [stores EXCEPT !.eliminations = @ + 1]
PremiumHeard(stores) == [stores EXCEPT !.premiumHands = @ + 1]

TxCountHeard(stores, n, eliminated, unique) ==
    [stores EXCEPT !.totalTx = @ + n, !.eliminations = @ + eliminated, !.uniquePlayers = @ + unique]

ChannelsPosted(stores, report) == [stores EXCEPT !.paymentChannels = Append(@, report)]

\* Nodes post what is new since their last report.
MeshPosted(stores, node, messagesIn) ==
    [stores EXCEPT !.meshNodes = Put(@, node, Entry(@, node, 0) + messagesIn)]

\* Mutant: the report that came last is shown.
LaterReport(shown, report) == TRUE

\* GET /api/payment-channels/summary shows, of each table, the report dated last.
Newer(shown, report) == report.timestamp > shown.timestamp

LatestByTable(reports) ==
    LET latest[n \in 0..Len(reports)] ==
            IF n = 0 THEN Empty
            ELSE LET r == reports[n]
                     before == latest[n - 1]
                 IN  IF r.table \in DOMAIN before /\ ~Newer(before[r.table], r) THEN before
                     ELSE Put(before, r.table, r)
    IN  latest[Len(reports)]
-------------------------------------------------------------------------------
(* What apex and rogue agents report. *)

NoRebuys == [count |-> 0, costSats |-> 0]

ApexRegistered(stores, a) ==
    [stores EXCEPT !.knownApex = @ \union {a}, !.rebuys = Put(@, a, Entry(@, a, NoRebuys))]

RebuyPosted(stores, a, cost) ==
    LET entry == Entry(stores.rebuys, a, NoRebuys)
    IN  [stores EXCEPT !.rebuys = Put(@, a, [count |-> entry.count + 1, costSats |-> entry.costSats + cost])]

\* A settlement that names its model also makes an entry in the bot statistics.
SettlementPosted(stores, s) ==
    [stores EXCEPT !.settlements = Append(@, s), !.botStats = Put(@, s.apexId, Entry(@, s.apexId, NewBot))]

MatchupPosted(stores, m) == [stores EXCEPT !.matchups = Append(@, m)]
CheatPosted(stores, c) == [stores EXCEPT !.cheats = Append(@, c)]

PolicyPosted(stores, cell) ==
    LET bot == Entry(stores.botStats, cell.botId, NewBot)
    IN  [stores EXCEPT
            !.policies = Append(@, cell),
            !.botStats = Put(@, cell.botId, [bot EXCEPT !.policyUpgrades = @ + 1, !.lastPolicyVersion = cell.version])]

\* GET /api/tables: the tables players were seen at, and the most hands any of them has played there.
TableList(stores) ==
    LET at(t) == {p \in DOMAIN stores.playerStats : stores.playerStats[p].tableId = t}
    IN  [t \in {stores.playerStats[p].tableId : p \in DOMAIN stores.playerStats} |->
            [playerCount |-> Cardinality(at(t)),
             handsPlayed |-> Max({stores.playerStats[p].handsPlayed : p \in at(t)})]]
===============================================================================
