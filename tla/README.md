# A verification project for the casino floor

The repository runs poker tables played by bots, keeps a metering payment channel between each table and each of
its players, writes every hand as a chain of state cells, broadcasts those cells as Bitcoin transactions,
reports all of it to a router, and lets agents play heads-up matches against each other in one process or in
two.  This directory holds TLA+ modules translated from that code, TLC runs on small instances, and proofs
checked by TLAPS.  Source paths are relative to the repository's `src/` unless they begin with `src/`;
`PROJECT.json` maps every definition to its lines.

## The system

| Part | State it keeps | Operations | What makes it correct |
| --- | --- | --- | --- |
| **Table engine** `engine/poker-table-engine.ts` | seats, pot, bet, dealer, turn, cell log and version | one long `runTableEngine` loop: top-ups, blinds, four rounds, showdown | chips move only by the rules; a round ends when everybody matched the bet; the bet's holder cannot be folded away; a hand leaves an ordered chain of cells |
| **Payment hub** `engine/table-payment-hub.ts` | channels, receipts, books, pots | `openChannels`, `recordBet`, `awardPot`, `settleAll`, two fire-and-forget handlers | receipts numbered without gap carry the meter's total; settlement is final |
| **Channel FSM** `stubs/channel-fsm.ts` | eight states and a meter | pure transition functions | ticks only while active |
| **Floor process** `entrypoint-floor.ts` | a hub and an engine per table, telemetry batch | `runTable`, `main`, `gracefulShutdown` | books explain stacks; the final report is complete and reaches the router |
| **Broadcast engine** `agent/direct-broadcast-engine.ts`, `agent/beef-store.ts` | UTXO pools, batch queue, two snapshot files | split, discover, create, transition, anchor, flush, sweep, restore | no output is spent twice; a restart resumes from live outputs |
| **Bilateral channels** `agent/payment-channel.ts`, `protocol/transition-validator.ts` | balances, live cell, violations, watchlists | open, bet, award, violation, settle | cells link; only a tampered bet is held against anybody |
| **Poker state machines** `agent/direct-poker-state-machine.ts`, `agent/poker-state-machine.ts` | live cell or token, version | begin, transition, accept, end | one chain per hand |
| **Game loop** `agent/game-loop.ts` | a heads-up match, its hands, its books | `run`, `playHand` | every match ends; the meter explains the pots |
| **P2P runner and transport** `agent/p2p-agent-runner.ts`, `agent/poker-message-transport.ts` | two copies of a match, message queues | handshake, hands, moves by push and by drain, control messages | both execute the same moves; neither waits for the other in vain |
| **Discovery** `agent/agent-discovery.ts` | registry, matches | register, match | one match each, at a stake both accept |
| **Table formation** `agent/table-formation.ts` | peers, proposals, seat | announce, propose, accept, lock | nobody is seated unasked; a seat stays empty only if its call is lost |
| **Multicast telemetry** `floor-multicast-publish.ts`, `protocol/adapters/docker-multicast-adapter.ts` | paths published, counters | publish, receive | what a floor says arrives once |
| **Border router** `border-router.ts`, `border-router-multicast.ts` | rings, totals, statistics, reports | HTTP and multicast handlers | totals agree with what happened |
| **Apex and rogue** `entrypoint-apex.ts`, `entrypoint-rogue.ts` | roam, stack, rebuys | scan, play, settle, compare | what is told piece by piece agrees with what is told at the end |
| **Shadow loop** `agent/shadow-loop.ts`, `agent/policy-evolution-chain.ts`, `agent/policy-hot-swap.ts` | policy versions, error count | ponder, swap, log, fall back | one line of versions |
| **Cells** `protocol/` | versioned, linked, owned cells | pack, validate | a successor names its predecessor |
| **Agent runtime, LLM prompts, database** `agent/` | transcripts, rows | decide, record | an answer never moves chips by itself |
| **Anchoring, pool manager** `anchor-ingress.ts`, `protocol/anchor*.ts`, `pool-manager.ts` | buffers | ingest, flush | not reached by a process, see below |
| **Policy language, kernel, Paskian learning** | compiled predicates, a graph | evaluate, observe | no state outlives a call, or only a display reads it |
| **Plexus opcodes, scripts, dashboard** | | | separate artefacts and tools |

Each process runs on one JavaScript thread.  Concurrency is the interleaving of continuations: what a call does
before an `await` and after it, timers, fire-and-forget promises; and of processes that talk over HTTP, UDP
multicast and a message server.  Hard to test are calls that overlap at an await, failures that a handler
swallows, snapshots taken while work is queued, queues flushed by size and by timer, crashes between two writes,
messages lost, late or read twice, and requests nobody waits for.  `PROJECT.json` lists each hazard with its
line and the properties that watch it.

## Modules

| Module | Models | Depends on |
| --- | --- | --- |
| `ChannelFSM` | `channel-fsm.ts` | |
| `TablePaymentHub` | `table-payment-hub.ts` | `ChannelFSM` |
| `ChannelLedger` | abstract: one append-only ledger per channel, closed for good | |
| `PokerTable` | `runTableEngine` | |
| `PotGame` | abstract: what a hand may do with chips | |
| `FloorTable` | `runTable`: engine and hub composed | `PokerTable`, `TablePaymentHub` |
| `BroadcastEngine` | the wallet of a floor process, its files, boot and shutdown | |
| `Cells` | cell headers, what validation compares | |
| `PaymentChannel` | the bilateral channel manager | `Cells`, `ChannelFSM` |
| `DirectPokerStateMachine` | the cell chain of a match in one process | `Cells` |
| `GameLoop` | a match in one process: loop, agents, channel and state machine composed | `PaymentChannel`, `DirectPokerStateMachine` |
| `PokerStateMachine` | the wallet's token chain, handed over between two processes | |
| `MessageTransport` | push, listing, acknowledgement and waiting at a seat | |
| `P2PMatch` | two runners over both | `MessageTransport`, `PokerStateMachine` |
| `AgentDiscovery` | matching by stake over the chain | |
| `TableFormation` | seating over multicast | |
| `BorderRouter` | the router's stores, each handler a function of them | |
| `Telemetry` | a floor process reporting to the router | `BorderRouter` |
| `ApexHunt` | apex and rogue agents with their shadow loops, reporting to the router | `BorderRouter` |
| `MC*` | values of constants that a configuration cannot write | |
| `*Proofs` | theorems: `FloorTable` with its hub, `PokerTable`, `GameLoop` with its channels, `BroadcastEngine`, `P2PMatch`, `AgentDiscovery`, `TableFormation`, `ApexHunt` | TLAPS |

### TablePaymentHub, PokerTable, FloorTable

`recordBet` and `awardPot` are cut at `await computeTickProof(...)`: the first half is the action named after
the method, the second is `RunJob`, which takes the head of `jobs`, the microtask queue.  `computeTickProof`
itself awaits nothing, so continuations run in call order.  Callers do not wait.  A receipt is its tick and
running total, which the HMAC binds.

In `PokerTable`, `pc` follows the loop.  One seat is topped up per step, one turn is one step, and the end of a
round with its phase cell, the showdown with its final cell and the end of a hand are one step each.
`selectHeuristicAction` gives the *set* of answers random numbers and cards can lead to, for every aggression in
`Aggression`; the showdown picks any contender.  Each answer goes through the kernel predicates and is replaced
as in the code.  Bet sizes are exact integers in place of floating point.  `entered` is a history variable.
Chips enter only through `RefillSeat`, a rebuy or a new player.

In `FloorTable` the engine holds the thread between two of its awaits; whenever it awaits, all queued
continuations of the hub run first.  `yielded` says the engine is at such an await.  Without delays a betting
round is played without any await, so several bets of one player overlap at the hub.  A replacement player has
no channel.  `offBook` and `potLog` are history variables.

### BroadcastEngine

The variables are the fields of the class and of the store; `disk` holds the two files.  A call is three or four
steps: `Begin` or `fundChannel` picks the inputs and starts signing, `Sign` is the code between the two awaits,
`SendAttempt` one awaited request, `Finish` what follows the broadcast, and runs only in a process that lives.
Calls of any streams interleave there.  `phase` follows `initBroadcastEngine`, the run, `gracefulShutdown` and
the end of `main`. A transaction is its kind, inputs and outputs, its id the position at which it was signed.
The network is external: it takes a transaction whose inputs are unspent outputs it knows and whose locks the
wallet's key opens.  Timers, answers and signals are handled only when no continuation is pending (`Idle`); what
is on the wire when a process ends arrives before it ends or not at all.  Pre-splitting the same output again
gives the same transaction, which is accepted as already known.

### Cells, PaymentChannel, DirectPokerStateMachine, GameLoop

A cell is its version, owner, content and the hash of the cell before; sha256 is a record of what it hashes, so
that equal hashes mean equal cells.  `PaymentChannel` keeps one channel per match and cuts every operation at
the engine's broadcast, which may fail.  `pc` of a call is the broadcast it waits for; what the code computed
before it waits in the call's record, so that books computed before an await and applied after it are modelled
as such.  The three kernels are what `loadKernel` may have found: none, the loader's stub, a full one.  Tampers
are the demo's scheduled modes.

`GameLoop` composes the channel manager with the state machine and the rows of hands the loop reads again. Every
await of `run` and `playHand` is a step; an agent's answer is any of the actions its runtime may parse from a
model's text, with or without an amount, or the fall-back of an answer that failed.  Guests are other matches on
the same manager, which share its watchlists.

### MessageTransport, PokerStateMachine, P2PMatch

Each seat has an inbox on the server, pushes on their way, and a drain that lists the box and works the listing
off, oldest first; a message may come both ways, late, or not at all by push.  Acknowledgements may be lost.
The inbox record keeps `lastReceivedMove`, the queue, which handlers are set and the control message awaited.
`PokerStateMachine` has the ledger of tokens and each seat's belief about it; a wallet call may throw, or answer
without the transaction's BEEF.  A process whose run threw or returned takes nothing in, as nothing would read
it. A token is locked to one of two keys of a seat, its identity key or the one its wallet derives for the
protocol: a wallet signs with the second, the runners hand tokens over to the first, and `acceptIncomingBeef`
takes what it is handed for locked to the second.  A wallet asked to spend what its signature does not unlock
(`Unlocks`) may throw, or answer all the same with a token the network does not know (`valid`). `P2PMatch` has
`pc` and `game` of each of two processes; a showdown's winner is taken from the shared shuffle, so that both
evaluate the same cards.  `MaxTrouble` bounds faults and losses together.

### AgentDiscovery, TableFormation

Matching is cut at the chain's confirmation: agents are marked before it, matches stored after it.  Random parts
of a score are any number below `Jitter`.  In `TableFormation` every copy of a control message may be late, and
may get `lost`, as a proposal, an accept or a lock is sent once; announcements, which are repeated for ever, are
heard at once by whoever hears them at all. `accepted`, `formed` and `lost` are history variables.

### BorderRouter, Telemetry, ApexHunt

Every handler of the router runs without an await once its body is read, so each is a function from stores to
stores, and the modules of the senders have the actions.  `Telemetry` has a floor process of one or two tables:
the batch and the flag that keeps flushes apart, hands and cells by datagram, statistics, swarm and premium
reports, periodic and final channel reports, the final transaction count, `main` to its exit.  A datagram may be
lost or late, duplicated ones are left out; a mesh whose socket failed to bind swallows everything; a request
may fail. `ApexHunt` has agents that look for weak players, play roams, post what happens without waiting and
wait for some answers, and the shadow loop of each; both mains run to their end, no signal or fatal error cuts a
roam short.  Requests that are waited for take effect as they are answered.

## Runs

| Run | Instance | Shows |
| --- | --- | --- |
| `hub` | 2 players, seated or unknown to the hub, 2 hands, amounts -1, 0, 1, 3, three accepted calls | receipts, books; implements `ChannelLedger`; every tick gets its receipt |
| `table` | 3 seats, 8 chips, blinds 1/2, rebuys, 2 hands | betting rounds, cell chain; implements `PotGame` |
| `floor` | 3 seats, 4 chips, elimination, 2 hands, a report after each, with and without delays | books explain stacks, final report, settlement |
| `table_stall` | 2 seats, 7 chips | a disagreement, below |
| `engine` | five wallets, 2 calls at once: batches of 2 and a sweep, for cells and for OP_RETURN records; ARC with records, channel funding and a sweep; batches and a restart; MAPI with lost requests and unreadable answers, killed at any moment, two processes | outputs spent once, fee floor, parents first, live outputs after a restart, batches posted, flushes end |
| `match` | 4 chips and 2 hands, or 2 chips, 1 hand and a guest; a tampered bet in each match and a failed broadcast, or two tampered bets of the guest; three kernels | meter and pots, cell chains, who is accused, what watchlists count, the match ends |
| `p2p` | 3 chips, 2 hands of 2 rounds, one fault at seat 0 or one message lost to it, a move's push included | same moves and tables, one token chain, somebody moves, and what a lost push does to all three |
| `p2p_turn` | the same without faults | a disagreement, below |
| `formation` | 3 bots, tables of 2 to 3, 2 proposals, one bot wrongly taken for silent, one message lost | seats accepted and filled unless called away, tables fill |
| `discovery` | up to 4 agents of stakes 2, 8, 20, 2 overlapping calls | one match each, nobody left over |
| `telemetry` | two tables with a loss; two hands with statistics and an elimination; rarer reports; cells | hands counted once, the settlement shown |
| `apex` | an apex on two roams; one that thinks four times; one with cells; two; a rogue; both kinds | rebuys agree with settlements, one line of policies |

### Bounds

Three overlapping calls over two channels give every order of two calls on one channel with a third on the same
or another, and a settlement at every point.  Stacks of two to four big blinds let players bust, go all in,
raise and reraise within a hand; two hands make the first's outcome the second's start.  The two aggressions are
the tightest and loosest persona.  Wallets hold 9 to 22 satoshis with fees of 2 to 4: an output is good for one
to three calls, so change is recycled, becomes dust, is dropped and runs out within a run.  Batches of two out
of three or more transactions are filled, left partial and timed out.  Two processes are enough for what the
first leaves on disk to meet what the network knows.

In a match, four chips are two big blinds: short blinds, short raises, all-ins and folds occur; four turns of a
round instead of twenty let the safety count stop one.  A stake of 8 satoshis is passed within two hands. One
tampered bet is enough to accuse, and to spoil every honest bet after it; one in each match, or two of the
guest, are what hits of both matches on one offender take to overlap, first hits and later ones.  In `p2p` two
rounds have what four have: a round closed by either seat, and one more after it; the safety count is three
turns.  `Lossy` and `Faulty` name the seat that loses a message or whose wallet fails, and each hand's cards
make one winner.  Three bots are the least with a proposer, an invited bot and one that may be left out; two
proposals the least that overlap, and one lost message fewer than there are proposals, as the code proposes
again for as long as it loses any.  Four agents are two pairs, or a pair and two that cannot be matched.
Telemetry's periods (1 and 2 hands for 20 and 50), ring and datagram are cut so that all are passed within two
hands, and a stake of one buys a loser out.  An apex has two roams of up to two hands for roams of many;
`MaxErrors` is two, so that four cycles can log a version, fail twice, fall back and log again.  Bounds named
`Max...` cap environment choices only and stand in guards of the actions that make them.

Deadlock checking is off where a system ends (a settled hub, an exited process, a table full of bots).  It is on
in `match`, whose end has a step of its own.

### Fairness

`HubFairness` is weak fairness of `RunJob`: the microtask queue is drained before a process does anything else.
`FloorSpec` and `TableSpec` have weak fairness of the whole next-state relation, one thread that takes its next
step as long as it has one.  `EngineFairness` is weak fairness of the batch timer, of answers (a `fetch` is
answered or fails), of continuations, and of the end of the process, one chain of steps from the flush over the
sweep to the exit; nobody is forced to call or to stop. `GameLoop` has weak fairness of the loop's own next step
and of the answers it waits for, all of calls that return or throw; which answer comes is never chosen, and
guests are not forced. `TableFormation` has weak fairness of each bot's announcement timer, at a time when the
others hear it and only seated peers have been silent too long (an announcement is repeated every three seconds
and remembered for ten), and of each bot's handling of what comes; any other message may be lost within the
bound, and `TablesFill` excuses the seats whose `table.locked` was.  `Telemetry` has weak fairness of starting
the mesh, the flush timer, the tables' next steps, requests and datagrams, each of which comes to an end, but
not of publishing the totals: the code awaits it and on a dead socket that may never settle.  `P2PMatch`,
`AgentDiscovery` and `ApexHunt` are checked for invariants alone, since the code puts no timeout on a model's or
a peer's answer.

## Disagreements found

- `table_stall`: a betting round whose players have put in their last chips by *raising* (no all-in mark) never
  ends; the loop at line 819 contains no await, so the process hangs.  `TableSettles` shows that this is the
  only way a table fails to settle.
- `p2p_turn`: the last actor of a round always locks the next token to the other player, also when it acts first
  in the next round: it then moves without a token, contrary to the runner's header comment.

The models reproduce other divergences that no run singles out.

*Floor and hub.*  Elimination and rebuy cells repeat a version and reach `onCells` twice (`CellsNumbered`,
`CellsReported`).  Blinds never reach the hub (`HubMirrorsHands` says by how much its record is short).
Replacement players have no channel, so their pots bypass it (entrypoint-floor.ts:389, README.md:104-106).
`src/README.md` has five hash-chained cells a hand, versions 1 to 5 (46, 155-162); the code writes three to six,
the deal and the end of the first round both as "preflop" and fewer when all but one fold, under versions that
run on over the table, as `HandCellsInOrder` has them.  A fold lowers `playersToAct` and also counts as an
action, so a round with folds may close before a raise is answered; `RoundClosesMatched` speaks of rounds with
two able players or more, without a fold and without an all-in.

*Wallet.*  Concurrent batches may arrive out of order.  Outputs restored from the BEEF file include cells, which
a sweep cannot spend; sweeps and channel funding are not merged into it.  A kill within seconds of a write
leaves stale files, and a shutdown's snapshot may list change of transactions never posted.  Inputs of a channel
funding whose answer was lost are returned though spent.  Hence the conditions in `PoolUnspent` and
`BeefCoversChainTip`.  An answer of MAPI, or to a pre-split, that cannot be
read passes for a success (direct-broadcast-engine.ts:1454-1462, 649-650): `assumed` keeps such transactions,
which the network need not have, and `TipsAccepted` names them.

*Matches.*  `GameLoop` never calls `awardPot`, and settlement does not pay the winner; the clamp at zero lets
the balances exceed the funding.  The final cell and the result name the first player that has not folded, not
the showdown's winner.  The loader's stub lacks `kernelReset`, so validation throws.  A bet tampered with
"bump-version-double" passes `HeadersContinue`, after which honest bets are accused.  Cells of the state machine
carry a zero link and are judged invalid, which is ignored.  A failed settlement broadcast still marks the
channel settled; a failed bet leaves the books ahead of the chain.  Overlapping first watchlist hits overwrite
each other, and of later ones that overlap two spend the same cell (`WatchlistCounts`).  Short blinds are ticked
in full (`MeterExplainsPots` says by how much).

*Two processes.*  Tokens are handed over to the opponent's identity key (p2p-agent-runner.ts:62, 189, 306, 406),
while a seat signs with the key its wallet derives for the protocol with itself (poker-state-machine.ts:177-182,
430-436), and `acceptIncomingBeef` sets `lockedToKey` to that one whatever came (537): a seat believes it can
sign for a token that its signature does not unlock, and on a network that checks scripts a hand ends at the
first token handed over. The transport expects pushes to be missed (poker-message-transport.ts:270, 326) and its
own `waitForMove` polls; the runner's (p2p-agent-runner.ts:229-233) does not, so that only the drain at a start
and the polls for control messages find what was missed: after a lost push of a move both wait for ever, or the
next move is executed in its place.  A new-hand message may be consumed by the logging handler or by none, after
which a 60 s timeout ends the match; `waitForControl` puts the handler back only on success.  At a tie each
declares itself the winner.  `waitForMove` has no timeout and does not poll; a move drained while no handler is
set is acknowledged and lost.  Gaps in move numbers go unnoticed.  An answer without BEEF leaves a token nobody
can spend.

*Seating.*  `handleAccept` and `handleLocked` do not ask whether the bot is seated: a bot may sit at two tables.
A stake may lie outside the range of a player that overlaps with the proposer only.  The bot of the lowest BCA
may keep others from sitting down when it finds too few itself.

*Reports.*  A dead multicast socket never falls back to HTTP, contrary to comments (entrypoint-floor.ts:188,
259-261, 569-570); an oversize datagram is dropped silently.  The router adds running totals of transactions up,
counts an elimination by its event and again in the final count, and its summary sums cumulative reports. A
winner that never acted is no participant to the multicast handler.  HTTP batches credit only the winner.  The
learning curve's player is always the winner.  `process.exit` may cut off the settlement's report, which is why
`SettlementShown` speaks of runs in which nothing is lost.

*Agents.*  The evolved policy reaches `playAtTable` but no decision reads it.  An apex plays a table of its own,
whose opponents then appear among the router's players, as the apex itself does.  Matchups are posted against
every registered apex, met or not.  A rogue always sits at "tables", the one key of the answer it reads.

## Proofs

| Theorem | Module | From |
| --- | --- | --- |
| `HubTypeCorrect`, `ReceiptsAlwaysInOrder`, `ReceiptsAlwaysCoverBooks`, `BooksAlwaysBalance`, `HubImplementsLedger` | `FloorTableProofs` | `HubAssumption`: finitely many players, integer amounts |
| `TableTypeCorrect`, `BetAlwaysHeld`, `HandsAlwaysInOrder`, `RoundsCloseMatched`, `TableImplementsPotGame` | `PokerTableProofs` | `TableAssumption`: two seats or more, 0 < small blind <= big blind <= starting chips |
| `HubAlwaysMirrorsHands`, `BooksAlwaysExplainStacks`, `FinalReportAlwaysComplete` | `FloorTableProofs` | `TableAssumption`, `HubAssumption`, `FloorAssumption`: a report period and settings of the two delays |
| `LoopTypeCorrect`, `HandChainsContiguous`, `ChannelChainsLinked`, `HonestAccusedAfterTampering`, `WatchlistsCount`, `MeterAlwaysExplained` | `GameLoopProofs` | `LoopAssumption`, `ChannelAssumption`: finitely many matches, whatever the kernel |
| `ParentsGoFirst`, `TipsAreAccepted`, `FeesAlwaysCovered`, `OutputsSpentOnce`, `PoolsUnspent`, `BeefAlwaysCovers` | `BroadcastEngineProofs` | `EngineAssumption`: natural amounts, a split output and its fee cost something |
| `TokensAlwaysLinear` | `P2PMatchProofs` | nothing |
| `MatchedOnce`, `NobodyIsLeftOver` | `AgentDiscoveryProofs` | `DiscoveryAssumption` |
| `SeatsAlwaysAccepted` | `TableFormationProofs` | `FormationAssumption` |
| `PoliciesMakeALine`, `RebuysAlwaysExplained` | `ApexHuntProofs` | `HuntAssumption`, `RouterAssumption` |

*Hub.*  Between the halves of a call the meter is ahead of books and receipts, so the receipt properties are not
inductive.  `HubInv` adds that a player's stored receipts followed by the proofs of its queued jobs form one
numbered chain whose last total is the meter, each total being the one before plus its job's amount. `RunJob`
moves the border in that chain by one entry, calls extend it, `settleAll` leaves it alone. That chain is also
the abstract ledger, so a call appends an entry and storing the receipt is invisible.  What the refinement adds
is `LedgerInv`: the entries add up to the meter, and channels are all active or all settled, which makes
`settleAll` one closing step.  `Waiting`, the queue's share, is unfolded by induction on its length.

*Table.*  `TableInv` is the type invariant with `BetIsHeld`; neither is inductive alone, since the amount to
call is a natural number only because nobody is above the bet.  `TurnStep` says what one answer does; both the
invariant and the refinement rest on it.  A turn is a wager, a fold or invisible, and a fold never removes the
last contender because of `BetIsHeld`.  That no chip is made or lost follows from the refinement. `LogInv` adds
to `HandCellsInOrder`, which speaks of played hands, what the log holds of the current one at each `pc`;
`NumberInv` that the engine's counter is the length of the log, and which of its cells the end of the hand will
report, so that versions run on and top-ups, which repeat one, are the cells reported twice.
`RoundsCloseMatched` has the hypotheses of its property, a round begun by two able players or more, without
folds and all-ins: `RoundInv` says that, as long as nobody folded or went all in, the able seats that have not
matched the bet are among the next few in turn, and that answers counted plus seats still due never exceed the
players the round began with: a raise resets the count just when it makes everybody else due again.

*Floor.*  The three theorems relate the engine's stacks and pots to books that the hub writes later, when a
queued continuation runs, so none is inductive.  `FloorInv` weighs the queue (`Weigh`): what a queued job will
add to a player's bets, awards or receipts, or to a hand's record, counts as there already (`Bets`, `Awards`,
`Ticks`, `Recorded`).  Then running a job is invisible and only the engine's calls move anything: `AnswerMoves`
says that an answer takes from the stack exactly the amount its action names, and `onAction` books that amount,
or nothing for a fold or a check (`ActionBooks`).  `Stacks` explains each seat that still has its first player;
between the showdown and the hand's end the pot is already with the winner and not yet booked (`Prize`).
`Played` holds as long as nobody was replaced, that is, as long as nobody bets without a channel: the current
hand's record is its pot less the blinds, earlier ones are `potLog`'s.  `Opened` keeps every channel active
until settlement, its meter and tick count being what was stored and what is queued; at settlement nothing is
queued, which is what makes the report final.  `Weigh` is unfolded by induction on the queue's length, with
`NatSetInduction` (see *Engine*).

*Game loop.*  `LoopInv` is the type invariant with `HandInv`: in a betting round the hand's chain is as long as
its street's number, and so is the state machine's version.  `ManagerInv` keeps for every channel that a cell
waiting for its broadcast carries the next version and the live cell's hash, but for what the tamper mode of its
own bet changed (`Follows`), and under a kernel a higher version than the live cell; and for every recorded
violation that the bet was tampered with or a live cell was already ahead of the channel's own count.
`WatchlistInv` says that hits and the calls that are about to count one are together no more than the violations
held against an agent (`WatchInv`), what a waiting call will write (`NextInv`), and what holds of a match alone
(`AloneInv`): a first hit that overwrites another can only lose counts.  `OverlapInv` bounds what is lost: a
call that has read a list counts at least one more than the hits read that overlapped no other, and spends a
cell nobody has spent or only calls that had read the same (`ReadOK`). `MeterInv` keeps the meter explained
while a hand is played and calls are under way: the meter and what is still to be ticked (`Owed`, read off `pc`
and whether the call in progress is bound to fail) are what was placed, less what was lost, and the pot counts
until it is in the table of hands.  `ChipsInv` (no stack or pot is negative, a raise adds something) keeps every
wager from being negative, and `Paid`, the sum over the hands, is unfolded by induction on its length.

*Engine.*  None of the first three properties is inductive, since what reaches a pool comes from calls, files
and answers.  `EngineInv` has `WalletOK`: every transaction spends outputs of earlier ones, the parents of
accepted ones are accepted, and all that pools, cells, the sweep, calls in progress and both files hold are
outputs of signed transactions; where broadcasts are awaited, of accepted ones or of those taken for accepted on
an unreadable answer (`Taken`).  `InTurn` says that ids increase in the queue and in every batch, and that what
is on the wire precedes what is queued; as parents are signed before children, they are posted before them.  The
fee floor, and the fixed fee of a channel's funding, are facts about sums of sequences.  Where induction over
data is needed, `LeastNat` and `NatSetInduction` give it for sets of naturals, and `TotalIsSum`, `FlattenType`
and `AcceptGrows` use it to unfold the recursive functions inside the library's operators.

The other three speak of all the wallet holds.  Every output held, in a pool, in the sweep or as an input of a
call that is still signing, is held in one place and was not spent (`HeldOnce`, `Safe`); what a signed call
brought about is touched by nobody before that call is over (`Untouched`); all that is held is locked to the
wallet, and only cells are spent besides (`Locked`); until the pools are filled, only splits are signed
(`Starting`).  `BeefInv` adds that the store covers the pools and the inputs picked from them (`Covered`), that
the dirty flag tells when the file lags behind (`Snapshots`) and that every split was accepted (`SplitsTaken`).
They are theorems of a process started on an empty disk (`FirstProcess`), the third where answers are not lost
and the wallet was funded by its own split (`FundedBySplit`).  The scope is not for the proof's sake; outside it
TLC finds runs in which the code does not keep them.  A second process without files pre-splits an output again
whose split was accepted, and fills a pool with outputs spent long ago; one with files inherits sweeps, which
are never merged into the store, and lacks the call that was being posted when the first one stopped.  A
channel's funding that the network took but did not answer for gives its inputs back, and so does one refused
because its parents are still queued.  Pools filled by discovery are unknown to the store.  Within `engine`'s
configuration the properties hold for later processes too; there they are model-checked.

*Peers.*  `TokensLinear` says what is signed and held; a token on its way between the two is in neither.
`MatchInv` adds the moves a seat may still execute (`Waiting`: its queue, and of all copies on the server,
pushed or listed those the replay protection lets through): each token they hand over is owned by the seat
(`Owned`: locked to it, on the ledger, not signed for), is none that it holds, and no two moves of different
numbers hand over the same (`OfferInv`).  `KeyOf` is the key meant: the one a seat signs with for what it locked
itself, its identity key for what was handed over, so that owning is not yet being able to unlock.  Only the
owner signs, so a step of one seat leaves what the other owns alone (`SeatSteps`).  It needs the numbers:
`InboxOK` and `Numbered` keep the queue's distinct, none above the last one received, which is none above the
last one sent.  Neither the tables nor the pots matter, so that ties, on which the two disagree, are covered;
that a token's hand is the hand it is signed for in does depend on them and is part of `TablesAgree`.

*Discovery.*  A match is stored after an await, so that matches being disjoint is not inductive.  `PromisesKept`
adds that everybody in a stored match or in one awaiting confirmation is marked, and that all of these are
disjoint; `NegotiatedFits` says that the negotiated stake lies in both ranges whenever these overlap.
`RefusedInv` is what makes a finished call complete: whoever it has dealt with is matched or incompatible with
everybody it knows that is not matched yet.  A step keeps it because `findOpponent` returns somebody whenever
anybody is compatible, the nearest always being within the jitter (`OpponentExists`); stakes never change.

*Formation.*  A locked message is as good as the accepts it was counted from and calls only players of a formed
table: `MessagesSound` carries through the net what a proposal, an accept and a lock say of the table they are
about, `AcceptsAreReal` that a proposal counts only accepts of its players, `SittersAccepted` that whoever sits
has accepted where it sits.  A call leaves the net only into the seat or into `lost` (`SeatsStay`).  That as
many accepts as players are all of them is a fact about finite sets (`AllAccepted`).

*Apex.*  `OneOnItsWay`: a policy or its cell is on its way only while the loop is logging, and only one of them;
`MindsAgree`: outside logging, the policy to fall back on is the one in place, so that falling back never goes
behind what was logged; `ListedEarlier`: what the router has of an agent is older than what is on its way.
Every other request leaves the list of policies alone (`TakenKeeps`). For the rebuys each agent has an account
(`Account`): its own count, the rebuys on their way, its settlements on their way or with the router, and the
router's entry.  A step moves an amount from one of these to another, and what is cut off or lost counts as
lost.  Rebuys are numbered by roam and count and settlements by roam, so that none counts twice; an agent waits
for the answers to its match report and to its last request (`WaitedFor`), so that no answer overtakes it.  The
sum over a set of settlements is unfolded by counting its units (`RebuysCounted`).

Only model-checked: all liveness, which the prover cannot do; `Telemetry`'s properties, over what several
processes sent and what the network lost or held back; `TablesAgree` and `SomeoneMoves`, which relate all that
two processes have done: an induction needs, beside `MatchInv`, how far each has replayed the other's moves and
the table after every prefix of them, and that no showdown was a tie, which the code does not ensure, so that a
theorem would have that for a hypothesis.

## Not modelled

- *Anchoring.*  `AnchorIngress` runs inside the router, but it is filled by pending-anchor messages, and
  `publishPendingAnchor`, which alone sends them, has no caller; nothing constructs an `AnchorScheduler`.  Read
  alone, flushes of the ingress can overlap, so that the order its comment claims is not kept, and the scheduler
  clears what was added while it waited.
- *Pool manager.*  Nothing imports it; `BroadcastEngine` has the pools that are used.
- *Policy language, kernel, Paskian learning.*  Evaluation has no state that outlives a call; verdicts are in
  `PokerTable` and `PaymentChannel`.  The learning graph is floating point and feeds displays and prompts.
- *Wallet client.*  One request, one answer; what failing answers do is in `PokerStateMachine`.
- *Plexus opcodes, operations scripts, dashboard.*  Separate artefacts, one-shot tools, presentation.
- Within modelled parts: custom decisions of apex and rogue seats and swarm statistics of the engine; the audit
  log and statistics, Bitails discovery, Merkle proofs and SPV; OP_RETURN events of the state machines, whose
  failure changes nothing; heartbeats, resolve and control messages of the multicast adapter; the router's
  websocket, exports and read-only queries; MessageBox publishing, mesh reports, the wallet and the contents of
  cheat attempts of apex and rogue; wording of prompts.
