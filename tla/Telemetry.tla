------------------------------- MODULE Telemetry -------------------------------
(***************************************************************************)
(* What the floor process of src/src/entrypoint-floor.ts tells the border  *)
(* router, and how it gets there.  Hands, statistics, cells and the like   *)
(* are datagrams of the multicast mesh, which may be lost or overtake each *)
(* other; snapshots of the payment channels are pushed into one batch that *)
(* all tables share and a timer posts; a settled table posts its report by *)
(* itself; and main ends with a count, the rest of the batch and exit().   *)
(*                                                                         *)
(* `multicast` is set before start() is awaited and never reset, so the    *)
(* branches for a missing mesh are never taken: a mesh that failed to      *)
(* start is dead, and what is published on it goes nowhere.                *)
(*                                                                         *)
(* Of the game only what is reported is kept: two seats a table, a bet of  *)
(* Stake each, and a seat that cannot pay it is replaced before the hand.  *)
(***************************************************************************)
EXTENDS BorderRouter, SequencesExt

CONSTANTS
    Stake,                  \* what a hand moves from its loser to its winner
    StatsEvery,             \* hands between two reports of player statistics (20 in the code)
    SnapshotEvery,          \* hands between two snapshots of the channels (50 in the code)
    MaxCells,               \* how many cells a datagram holds
    Settings                \* the runs looked at, and their bounds

ASSUME TelemetryAssumption ==
    /\ Stake \in Nat \ {0} /\ Stake <= TopUpChips /\ MaxCells \in Nat
    /\ {StatsEvery, SnapshotEvery} \subseteq Nat \ {0}
    /\ \A s \in Settings :
           /\ \A t \in DOMAIN s.hands : s.hands[t] \in Nat /\ {s.winners} \union s.turns \subseteq SUBSET (1..2) /\ s.cells \subseteq Nat
           /\ s.extras \subseteq {"swarm", "premium"} /\ {s.meshReports, s.losses} \subseteq Nat

VARIABLES
    tables,             \* of each table: stage, seats, hands played, runningTxs, eliminations
    batch, inFlight,    \* telemetryBatch, and telemetryFlushInFlight
    mesh, objects,      \* the multicast adapter, and the paths it has published
    meshSeen, meshReports,  \* meshMsgIn, and a bound
    main, now,          \* where main is; Date.now(), as far as reports tell
    air, posts,         \* datagrams and requests under way
    stores,             \* the router's
    lost, setting       \* history: how much was lost; one of Settings

floorVars == <<tables, batch, inFlight, mesh, objects, meshSeen, meshReports, main, now, setting>>
netVars == <<air, posts, lost>>
telemetryVars == <<floorVars, netVars, stores>>

\* The tables of the process and HANDS_PER_TABLE, and the bounds of a run: who wins hands and who has a turn in them, how many
\* cells they log, which of the rarer reports are looked at, how many mesh reports are posted and how much is lost.
Tables == DOMAIN setting.hands
HandsPerTable == setting.hands
Winners == setting.winners
Turns == setting.turns
CellBatches == setting.cells
Extras == setting.extras
MaxMeshReports == setting.meshReports
MaxLost == setting.losses

Seat(t, k) == [player |-> <<t, k>>, chips |-> TopUpChips]

TelemetryInit ==
    /\ setting \in Settings
    /\ tables = [t \in Tables |-> [stage |-> "playing", seats |-> [i \in 1..2 |-> Seat(t, i)],
                                   played |-> 0, txs |-> 0, eliminated |-> 0]]
    /\ batch = <<>> /\ inFlight = FALSE
    /\ mesh = "starting" /\ objects = {} /\ meshSeen = 0 /\ meshReports = 0
    /\ main = "starting" /\ now = 0
    /\ air = {} /\ posts = {} /\ lost = 0 /\ stores = EmptyStores
-------------------------------------------------------------------------------
(* Publishing and posting. *)

\* initMulticast; a failure to bind is logged.
StartMesh ==
    /\ main = "starting"
    /\ mesh' \in {"up", "dead"} /\ main' = "playing"
    /\ UNCHANGED <<tables, batch, inFlight, objects, meshSeen, meshReports, now, setting, netVars, stores>>

\* Hands have paths of their own; of the rest a table has one path for each kind.
Path(d) == IF d.kind = "hand" THEN <<d.kind, d.table, d.n>> ELSE <<d.kind, d.table>>

\* publish: an object is stored under its path, and sent unless it is longer than a datagram.
Fits(d) == d.kind = "cells" => Cardinality(d.cells) <= MaxCells

Publish(datagrams) ==
    /\ objects' = objects \union {Path(d) : d \in datagrams}
    /\ air' = IF mesh = "up" THEN air \union {d \in datagrams : Fits(d)} ELSE air

Post(request) == posts' = posts \union {request}

\* getChannelSummary as the batch and the final report carry it.
Snapshot(t, settled) ==
    [table |-> t, hands |-> tables[t].played, settled |-> settled, timestamp |-> now]
-------------------------------------------------------------------------------
(* The callbacks of a table's engine. *)

Busted(t) == {i \in 1..2 : tables[t].seats[i].chips < Stake}

\* onElimination: the busted player is replaced by one nobody has met.
onElimination(t) ==
    /\ main = "playing" /\ tables[t].stage = "playing" /\ tables[t].played < HandsPerTable[t]
    /\ \E i \in Busted(t) :
          LET k == tables[t].eliminated + 1
          IN  /\ tables' = [tables EXCEPT ![t].seats[i] = Seat(t, 2 + k), ![t].eliminated = k]
              /\ Publish({[kind |-> "elimination", table |-> t, n |-> k]})
    /\ UNCHANGED <<batch, inFlight, mesh, meshSeen, meshReports, main, now, setting, posts, lost, stores>>

\* What reportPlayerStats tells of the players seated now.
Rows(seats, n) ==
    [p \in {seats[i].player : i \in 1..2} |->
        [chips |-> seats[CHOOSE i \in 1..2 : seats[i].player = p].chips, handsPlayed |-> n]]

\* The datagrams of a hand after which `seats` hold the chips and that logged `cells` cells.
HandMessages(hand, seats, cells) ==
    LET of(kind) == [kind |-> kind, table |-> hand.table, n |-> hand.n]
    IN  {of("hand") @@ [hand |-> hand]}
        \union (IF hand.n % StatsEvery = 0 THEN {of("stats") @@ [rows |-> Rows(seats, hand.n)]} ELSE {})
        \union (IF cells > 0 THEN {of("cells") @@ [cells |-> {<<hand.table, hand.n, c>> : c \in 1..cells}]} ELSE {})
        \union {of(extra) @@ [rows |-> Rows(seats, hand.n)] : extra \in Extras}

\* onHandComplete pushes a snapshot of the channels now and then.
PushedBatch(t, n, report) == IF n % SnapshotEvery = 0 THEN Append(batch, report) ELSE batch

\* A hand ends: who acted may be the loser alone, the winner having had no turn.
onHandComplete(t) ==
    /\ main = "playing" /\ tables[t].stage = "playing" /\ tables[t].played < HandsPerTable[t] /\ Busted(t) = {}
    /\ \E w \in Winners, acted \in Turns, cells \in CellBatches :
          LET T == tables[t]
              n == T.played + 1
              txs == T.txs + Cardinality(acted) + 3
              seats == [i \in 1..2 |-> [T.seats[i] EXCEPT !.chips = IF i = w THEN @ + Stake ELSE @ - Stake]]
              names(S) == {seats[i].player : i \in S}
              hand == [table |-> t, n |-> n, acted |-> names(acted), showdown |-> names(1..2),
                       winner |-> seats[w].player, pot |-> 2 * Stake, txCount |-> txs]
          IN  /\ acted # {w}
              /\ tables' = [tables EXCEPT ![t].seats = seats, ![t].played = n, ![t].txs = txs]
              /\ Publish(HandMessages(hand, seats, cells))
              /\ batch' = PushedBatch(t, n, [Snapshot(t, FALSE) EXCEPT !.hands = n])
    /\ now' = now + 1
    /\ UNCHANGED <<inFlight, mesh, meshSeen, meshReports, main, setting, posts, lost, stores>>

\* The engine has returned and the hub has settled: the report is posted and not waited for.  It may be
\* dated the same millisecond as the snapshot of the last hand.
SettleTable(t) ==
    /\ main = "playing" /\ tables[t].stage = "playing" /\ tables[t].played = HandsPerTable[t]
    /\ tables' = [tables EXCEPT ![t].stage = "settled"]
    /\ \E late \in 0..Min({1, now}) :
          Post([kind |-> "report", reports |-> <<[Snapshot(t, TRUE) EXCEPT !.timestamp = @ - late]>>, stage |-> "sent"])
    /\ UNCHANGED <<batch, inFlight, mesh, objects, meshSeen, meshReports, main, now, setting, air, lost, stores>>
-------------------------------------------------------------------------------
(* The timers of the process, and the end of main. *)

\* Mutant: the batch is posted and goes on filling.
KeptBatch == batch

EmptiedBatch == <<>>

\* telemetryFlushInterval: one request at a time; it has a batch of its own from then on.
FlushTimer ==
    /\ main \in {"playing", "counting"} /\ batch # <<>> /\ ~inFlight
    /\ Post([kind |-> "batch", reports |-> batch, stage |-> "sent"])
    /\ batch' = EmptiedBatch /\ inFlight' = TRUE
    /\ UNCHANGED <<tables, mesh, objects, meshSeen, meshReports, main, now, setting, air, lost, stores>>

\* meshInterval: what the adapter has stored since the last report, its own publications included.
MeshTimer ==
    /\ main \in {"playing", "counting", "flushing"} /\ meshReports < MaxMeshReports
    /\ Post([kind |-> "mesh", messagesIn |-> Cardinality(objects) - meshSeen, n |-> meshReports, stage |-> "sent"])
    /\ meshSeen' = Cardinality(objects) /\ meshReports' = meshReports + 1
    /\ UNCHANGED <<tables, batch, inFlight, mesh, objects, main, now, setting, air, lost, stores>>

\* Every table is done: the totals are published, the engine's own count of transactions taken to be the
\* one its hands were reported with; on a dead mesh this may never return.
PublishTotals ==
    /\ main = "playing" /\ \A t \in Tables : tables[t].stage = "settled"
    /\ main' = "counting"
    /\ Publish({[kind |-> "count", table |-> "all", n |-> 1,
                 txs |-> FoldSet(LAMBDA t, s : tables[t].txs + s, 0, Tables),
                 eliminations |-> FoldSet(LAMBDA t, s : tables[t].eliminated + s, 0, Tables),
                 unique |-> FoldSet(LAMBDA t, s : tables[t].eliminated + 2 + s, 0, Tables)]})
    /\ UNCHANGED <<tables, batch, inFlight, mesh, meshSeen, meshReports, now, setting, posts, lost, stores>>

\* The timer is stopped and the rest of the batch posted and waited for; another may still be under way.
FinalFlush ==
    /\ main = "counting"
    /\ main' = IF batch = <<>> THEN "leaving" ELSE "flushing"
    /\ IF batch = <<>> THEN UNCHANGED posts ELSE Post([kind |-> "final", reports |-> batch, stage |-> "sent"])
    /\ UNCHANGED <<tables, batch, inFlight, mesh, objects, meshSeen, meshReports, now, setting, air, lost, stores>>

\* process.exit: the socket is closed, and of the requests under way any may be cut off.
Exit ==
    /\ main = "leaving"
    /\ main' = "exited" /\ mesh' = "stopped"
    /\ posts' \in SUBSET posts
    /\ lost' = lost + Cardinality(posts \ posts')
    /\ UNCHANGED <<tables, batch, inFlight, objects, meshSeen, meshReports, now, setting, air, stores>>
-------------------------------------------------------------------------------
(* The network and the router's handlers. *)

Heard(d) ==
    CASE d.kind = "hand" -> HandHeard(stores, d.hand)
      [] d.kind = "stats" -> StatsHeard(stores, d.table, d.rows)
      [] d.kind = "cells" -> CellsHeard(stores, d.cells)
      [] d.kind = "elimination" -> EliminationHeard(stores)
      [] d.kind = "premium" -> PremiumHeard(stores)
      [] d.kind = "swarm" -> SwarmHeard(stores, d.rows)
      [] d.kind = "count" -> TxCountHeard(stores, d.txs, d.eliminations, d.unique)

Delivered(p) ==
    IF p.kind = "mesh" THEN MeshPosted(stores, "floor", p.messagesIn)
    ELSE FoldLeft(ChannelsPosted, stores, p.reports)

Hear(d) ==
    /\ air' = air \ {d} /\ stores' = Heard(d)
    /\ UNCHANGED <<floorVars, posts, lost>>

\* Also what becomes of a datagram the router's ingress is not there for.
Lose(d) ==
    /\ lost < MaxLost
    /\ air' = air \ {d} /\ lost' = lost + 1
    /\ UNCHANGED <<floorVars, posts, stores>>

\* What an answered or failed request lets its sender do.
Resume(p) ==
    /\ inFlight' = (inFlight /\ p.kind # "batch")
    /\ main' = IF p.kind = "final" /\ main = "flushing" THEN "leaving" ELSE main
    /\ UNCHANGED <<tables, batch, mesh, objects, meshSeen, meshReports, now, setting>>

\* Only the sender of a batch waits for the answer.
Handle(p) ==
    /\ p.stage = "sent"
    /\ stores' = Delivered(p)
    /\ posts' = (posts \ {p}) \union (IF p.kind \in {"batch", "final"} THEN {[p EXCEPT !.stage = "handled"]} ELSE {})
    /\ UNCHANGED <<floorVars, air, lost>>

Answer(p) ==
    /\ p.stage = "handled"
    /\ posts' = posts \ {p} /\ Resume(p)
    /\ UNCHANGED <<air, lost, stores>>

\* A request or its answer is lost; nobody sends it again.
Fail(p) ==
    /\ lost < MaxLost
    /\ posts' = posts \ {p} /\ lost' = lost + 1 /\ Resume(p)
    /\ UNCHANGED <<air, stores>>

\* The report the router had generated is there, or has failed.
ReportGenerated ==
    /\ stores.reporting
    /\ stores' = [stores EXCEPT !.reporting = FALSE]
    /\ UNCHANGED <<floorVars, netVars>>

TelemetryNext ==
    \/ StartMesh \/ FlushTimer \/ MeshTimer \/ PublishTotals \/ FinalFlush \/ Exit
    \/ \E t \in Tables : onElimination(t) \/ onHandComplete(t) \/ SettleTable(t)
    \/ \E d \in air : Hear(d) \/ Lose(d)
    \/ \E p \in posts : Handle(p) \/ Answer(p) \/ Fail(p)
    \/ ReportGenerated

\* Tables play on, timers fire, and what is neither lost nor cut off arrives.
TelemetrySpec ==
    /\ TelemetryInit /\ [][TelemetryNext]_telemetryVars
    /\ WF_telemetryVars(StartMesh) /\ WF_telemetryVars(FlushTimer)
    /\ WF_telemetryVars(\E t \in Tables : onElimination(t) \/ onHandComplete(t) \/ SettleTable(t))
    /\ WF_telemetryVars(\E p \in posts : Handle(p) \/ Answer(p))
    /\ WF_telemetryVars(\E d \in air : Hear(d))
-------------------------------------------------------------------------------
(* Properties. *)

Played == FoldSet(LAMBDA t, s : tables[t].played + s, 0, Tables)
Flying(kind) == Cardinality({d \in air : d.kind = kind})
Pending == {p \in posts : p.stage = "sent" /\ p.kind # "mesh"}

\* The router counts no hand twice and lists no report of the channels twice, although hands, batches, the
\* settlement's own report and the last batch travel separately ("skip the HTTP batch push to avoid
\* double-counting at the router", entrypoint-floor.ts:259); on a mesh that loses nothing it counts them all.
CountedOnce ==
    /\ stores.totalHands + Flying("hand") <= Played
    /\ mesh # "dead" /\ lost = 0 /\ main # "exited" => stores.totalHands + Flying("hand") = Played
    /\ LET listed == stores.paymentChannels
           waiting == UNION {Range(p.reports) : p \in Pending}
       IN  IsInjective(listed) /\ Range(listed) \intersect waiting = {}

\* When no request is lost, the summary of each table ends up showing the channels as they were settled, or as
\* they were in that same millisecond, in whatever order batches and the settlement's report arrive.
SettlementShown ==
    <>[](lost = 0 =>
            \A t \in Tables :
                LET shown == LatestByTable(stores.paymentChannels)
                    settled == {r \in Range(stores.paymentChannels) : r.table = t /\ r.settled}
                IN  \E r \in settled : shown[t].timestamp = r.timestamp)
===============================================================================
