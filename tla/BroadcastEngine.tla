---------------------------- MODULE BroadcastEngine ----------------------------
(***************************************************************************)
(* The wallet of src/src/agent/direct-broadcast-engine.ts: pools of        *)
(* unspent outputs, the calls that spend them, the batch queue in front of *)
(* the broadcaster, and the two snapshots (chain tip and BEEF) a later     *)
(* process of entrypoint-floor.ts boots from.                              *)
(*                                                                         *)
(* A call picks its funding output, signs (an await), broadcasts (another) *)
(* and only then puts its change back into the pool; calls of any streams  *)
(* interleave at the awaits.  A transaction is its kind, its inputs and    *)
(* its outputs, and its id the position at which it was signed.            *)
(***************************************************************************)
EXTENDS Integers, Sequences, FiniteSets, SequencesExt

CONSTANTS
    NumStreams, SplitSatoshis, CellSatoshis, MinFee,  \* DirectBroadcastConfig
    Fee,                    \* the estimated fee of each kind of call
    InputFee, OutputFee,    \* what an input of a sweep and an output of a split add to the fee
    ChannelSatoshis,        \* what a payment channel locks in its funding transaction
    DustLimit, MaxSplitsPerStream, BatchSize, SweepBatch, \* 546, 200, 20 and 200 in the code
    FundingVout,            \* which output of FUNDING_TX_HEX is the engine's
    BeefValidates,          \* what the SDK's Beef.isValid answers for a file the store wrote
    Setups,                 \* the settings, environments and kinds of calls looked at
    MaxCalls                \* bound: how many calls at once

Streams == 0..(NumStreams - 1)
CallKinds == {"create", "transition", "opreturn", "fund"}
\* Who can spend an output.
Locks == {"own", "foreign", "cell", "data", "multisig"}

ASSUME EngineAssumption ==
    /\ NumStreams \in Nat \ {0} /\ BatchSize \in Nat \ {0} /\ SweepBatch \in Nat \ {0}
    /\ {SplitSatoshis, CellSatoshis, MinFee, InputFee, OutputFee, ChannelSatoshis, DustLimit,
        MaxSplitsPerStream, FundingVout, MaxCalls} \subseteq Nat
    /\ SplitSatoshis + OutputFee > 0
    /\ \A s \in Setups :
           /\ DOMAIN s = {"mode", "canCrash", "lossy", "persistent", "sweeps", "kinds", "funding", "lives"}
           /\ s.mode \in {"batch", "arc", "mapi"} /\ s.kinds \subseteq CallKinds /\ s.lives \in Nat \ {0}
           /\ {s.canCrash, s.lossy, s.persistent, s.sweeps} \subseteq BOOLEAN
           /\ s.funding \in Seq([lock : Locks, satoshis : Nat])
           /\ FundingVout + 1 \in DOMAIN s.funding
    /\ Fee \in [CallKinds -> Nat] /\ \A k \in CallKinds \ {"fund"} : Fee[k] >= MinFee
    /\ BeefValidates \in BOOLEAN

VARIABLES
    utxoPools,          \* the unspent outputs of each stream, in the order they are used
    calls,              \* calls in progress
    cells,              \* the live cell outputs the callers hold
    txs,                \* every transaction signed, by id; the first is the funding transaction
    accepted,           \* the ids the network has accepted
    batchQueue, batchFlushTimer, \* ids waiting for the next batch, and whether the timer is set
    wire,               \* batches posted and not answered
    pendingBroadcasts,  \* those of them a flush would wait for (an answered one it need not)
    flushing,           \* those the running flush waits for
    sweepLeft,          \* what sweepAll took from the pools and has not looked at
    beef, beefDirty,    \* ids in the BEEF store
    chainTipDirty,
    disk,               \* the two files
    phase, lives,       \* where the process is, and how many have been started
    setup,              \* one of Setups, fixed for a behaviour
    assumed             \* history: ids counted as broadcast on an answer that could not be read

walletVars == <<utxoPools, calls, cells, sweepLeft>>
queueVars == <<batchQueue, batchFlushTimer, wire, pendingBroadcasts, flushing>>
storeVars == <<beef, beefDirty, chainTipDirty, disk>>
lifeVars == <<lives, setup, assumed>>
engineVars == <<walletVars, queueVars, storeVars, txs, accepted, phase, lifeVars>>

\* "batch" is fireAndForget, "arc" an awaited submission, "mapi" the awaited retrying one (BROADCAST_VIA).
Mode == setup.mode

\* The process may be killed at any moment; requests and answers may be lost.
CanCrash == setup.canCrash
LossyNetwork == setup.lossy

\* MAPI's answer may be cut short or not be MAPI's: one that has an HTTP status of success and cannot
\* be parsed is taken for a success, whether the transaction arrived or not.
Presumes == LossyNetwork /\ Mode = "mapi"

\* enableChainTipPersistence and enableBeefStore have been called; CHANGE_ADDRESS is set; the
\* outputs of FUNDING_TX_HEX.
Persistent == setup.persistent
SweepAtEnd == setup.sweeps
FundingOuts == setup.funding

\* Bound: how many processes use the files one after the other.
MaxLives == setup.lives

-------------------------------------------------------------------------------
(* Outputs, transactions and the network. *)

Utxo(t, v, sats) == [txid |-> t, vout |-> v, satoshis |-> sats]
Output(lock, sats) == [lock |-> lock, satoshis |-> sats]
Tx(kind, ins, prev, outs) == [kind |-> kind, ins |-> ins, prev |-> prev, outs |-> outs]
Total(s) == FoldSeq(LAMBDA u, n : u.satoshis + n, 0, s)
Larger(a, b) == IF a >= b THEN a ELSE b

\* Every output of the transactions S.
OutputsOf(S) == UNION {{Utxo(t, v - 1, txs[t].outs[v].satoshis) : v \in DOMAIN txs[t].outs} : t \in S}
LockOf(u) == txs[u.txid].outs[u.vout + 1].lock
Inputs(t) == Range(txs[t].ins) \union Range(txs[t].prev)
SpentIn(S) == UNION {Inputs(t) : t \in S}

\* The network takes a transaction whose inputs are unspent outputs it knows and whose scripts hold.
Valid(t, acc) ==
    /\ \A u \in Inputs(t) : u.txid \in acc /\ u \notin SpentIn(acc \ {t})
    /\ \A u \in Range(txs[t].ins) : LockOf(u) = "own"
Accept(acc, batch) == FoldLeft(LAMBDA a, t : IF Valid(t, a) THEN a \union {t} ELSE a, acc, batch)
OnChain == {u \in OutputsOf(accepted) \ SpentIn(accepted) : LockOf(u) = "own"}

\* The outputs in S, as a walk over the transactions and their outputs meets them.
InOrder(S) ==
    LET of(t) == [v \in DOMAIN txs[t].outs |-> LET u == Utxo(t, v - 1, txs[t].outs[v].satoshis)
                                              IN IF u \in S THEN <<u>> ELSE <<>>]
    IN FlattenSeq([t \in DOMAIN txs |-> FlattenSeq(of(t))])
\* Deals outputs round-robin to the streams.
Partition(q) ==
    [s \in Streams |-> [i \in 1..((Len(q) - s + NumStreams - 1) \div NumStreams) |-> q[(i - 1) * NumStreams + s + 1]]]
Pooled == UNION {Range(utxoPools[s]) : s \in Streams}
EmptyPools == [s \in Streams |-> <<>>]

-------------------------------------------------------------------------------
(* The life of a process: boot, calls, flush, sweep, exit. *)

TimersOn == phase \in {"presplit", "discover", "waiting", "running", "stopping", "draining"}
Live == TimersOn \/ phase \in {"sweeping", "finalFlush"}
\* Timers, network answers and signals are handled only when no continuation is pending: neither
\* that of a call whose broadcast is over nor that of a flush with nothing left to wait for.
NoneSent == \A c \in calls : c.stage # "sent"
FlushWaits == phase \in {"stopping", "draining", "finalFlush"} => flushing # {}
Idle == NoneSent /\ FlushWaits

EngineInit ==
    /\ utxoPools = EmptyPools /\ calls = {} /\ cells = {} /\ sweepLeft = <<>>
    /\ setup \in Setups
    /\ txs = <<Tx("funding", <<>>, <<>>, FundingOuts)>> /\ accepted = {1}
    /\ batchQueue = <<>> /\ batchFlushTimer = FALSE /\ wire = {} /\ pendingBroadcasts = {} /\ flushing = {}
    /\ beef = {} /\ beefDirty = FALSE /\ chainTipDirty = FALSE
    /\ disk = [chainTip |-> EmptyPools, beef |-> {}]
    /\ phase = "boot" /\ lives = 1 /\ assumed = {}

\* Mutant: inputs of the merged transactions are not struck out.
BeefOutputs == {u \in OutputsOf(disk.beef) : u.satoshis > 0}

\* The outputs of the BEEF file no transaction in it spends, data outputs left out.
BeefTips == {u \in OutputsOf(disk.beef) \ SpentIn(disk.beef) : u.satoshis > 0}

\* The first two sources of entrypoint-floor.ts: the BEEF file, then the chain-tip snapshot.
Boot ==
    LET readable == BeefValidates /\ disk.beef # {}
        fromBeef == readable /\ BeefTips # {}
        fromTip == ~fromBeef /\ disk.chainTip # EmptyPools
    IN /\ phase = "boot"
       /\ beef' = IF readable THEN disk.beef ELSE {}
       /\ utxoPools' = IF fromBeef THEN Partition(InOrder(BeefTips))
                       ELSE IF fromTip THEN disk.chainTip ELSE EmptyPools
       /\ phase' = IF fromBeef \/ fromTip THEN "running" ELSE "presplit"
       /\ UNCHANGED <<calls, cells, sweepLeft, queueVars, beefDirty, chainTipDirty, disk, txs, accepted, lifeVars>>

splitFee(n) == Larger(MinFee, OutputFee * (n + 1))
maxSplits(u) == (u.satoshis - splitFee(1)) \div (SplitSatoshis + OutputFee)
Splits(u) == IF maxSplits(u) <= NumStreams * MaxSplitsPerStream THEN maxSplits(u) ELSE NumStreams * MaxSplitsPerStream
SplitTx(u) ==
    LET n == Splits(u)
        change == u.satoshis - n * SplitSatoshis - splitFee(n)
    IN Tx("split", <<u>>, <<>>, [i \in 1..n |-> Output("own", SplitSatoshis)]
                                \o IF change > DustLimit THEN <<Output("own", change)>> ELSE <<>>)

\* The same output is always split by the same transaction, which a broadcaster that has it already takes again.
SplitId(u) == IF SplitTx(u) \in Range(txs) THEN CHOOSE t \in DOMAIN txs : txs[t] = SplitTx(u) ELSE Len(txs) + 1
SplitTaken(u) == SplitId(u) \in accepted \/ u \in OnChain
signSplit(u) == txs' = IF SplitId(u) \in DOMAIN txs THEN txs ELSE Append(txs, SplitTx(u))

\* Mutant: a merge does not mark the store dirty.
mergeUnmarked(S) ==
    /\ beef' = IF Persistent THEN beef \union S ELSE beef
    /\ UNCHANGED beefDirty

\* The BEEF store merges a transaction with the parents it carries; theirs are in it already.
mergeTransaction(S) ==
    /\ beef' = IF Persistent THEN beef \union S ELSE beef
    /\ beefDirty' = (beefDirty \/ Persistent)

\* preSplit fans a funding output out over the streams; the change stays out of the pools.
preSplit(u) ==
    /\ Splits(u) >= NumStreams
    /\ signSplit(u)
    /\ \/ SplitTaken(u) /\ accepted' = accepted \union {SplitId(u)} /\ UNCHANGED assumed
       \/ Presumes /\ assumed' = assumed \union {SplitId(u)} /\ UNCHANGED accepted
    /\ utxoPools' = Partition([i \in 1..Splits(u) |-> Utxo(SplitId(u), i - 1, SplitSatoshis)])
    /\ mergeTransaction({SplitId(u), u.txid}) /\ chainTipDirty' = TRUE
    /\ phase' = "running"
    /\ UNCHANGED <<calls, cells, sweepLeft, queueVars, disk, lives, setup>>

\* It throws when it cannot cover every stream, or when no broadcaster answers that it has the transaction.
preSplitFails(u, next) ==
    /\ IF Splits(u) < NumStreams THEN UNCHANGED <<txs, accepted>>
       ELSE /\ LossyNetwork \/ ~SplitTaken(u)
            /\ signSplit(u)
            /\ accepted' = accepted \/ (SplitTaken(u) /\ accepted' = accepted \union {SplitId(u)})
    /\ phase' = next
    /\ UNCHANGED <<walletVars, queueVars, storeVars, lifeVars>>

ingestFunding == Utxo(1, FundingVout, FundingOuts[FundingVout + 1].satoshis)

PreSplitFunding ==
    /\ phase = "presplit"
    /\ preSplit(ingestFunding) \/ preSplitFails(ingestFunding, "discover")

\* discoverUtxos: what the network lists for the address and whose source transactions arrive.
discoverUtxos ==
    /\ phase = "discover"
    /\ IF OnChain = {} THEN phase' = "waiting" /\ UNCHANGED <<utxoPools, chainTipDirty>>
       ELSE \E found \in SUBSET {u \in OnChain : u.satoshis >= Fee["create"] + 2} :
               /\ LossyNetwork \/ found = {u \in OnChain : u.satoshis >= Fee["create"] + 2}
               /\ utxoPools' = Partition(InOrder(found)) /\ chainTipDirty' = TRUE
               /\ phase' = IF Cardinality(found) >= NumStreams THEN "running" ELSE "waiting"
    /\ UNCHANGED <<calls, cells, sweepLeft, queueVars, beef, beefDirty, disk, txs, accepted, lifeVars>>

\* waitForFunding takes the largest output listed and splits it; without one the process gives up.
waitForFunding ==
    /\ phase = "waiting"
    /\ \/ \E u \in OnChain : /\ \A w \in OnChain : w.satoshis <= u.satoshis
                             /\ preSplit(u) \/ preSplitFails(u, "dead")
       \/ /\ LossyNetwork \/ OnChain = {}
          /\ phase' = "dead"
          /\ UNCHANGED <<walletVars, queueVars, storeVars, txs, accepted, lifeVars>>

-------------------------------------------------------------------------------
(* Calls: pick a funding output, sign, broadcast, put the change back. *)

\* Mutant: the threshold forgets the fee.
UsefulForCell(u) == u.satoshis >= CellSatoshis
Useful(u) == u.satoshis >= MinFee + CellSatoshis
FirstUseful(pool) == CHOOSE i \in DOMAIN pool : Useful(pool[i]) /\ \A j \in 1..(i - 1) : ~Useful(pool[j])

\* Mutant: reads the head of the pool without shifting it.
PeekedPool(pool) == SubSeq(pool, FirstUseful(pool), Len(pool))
PickedPool(pool) == SubSeq(pool, FirstUseful(pool) + 1, Len(pool))

\* The outputs a call fixes before its change.
Fixed(kind) ==
    CASE kind \in {"create", "transition"} -> <<Output("cell", CellSatoshis)>>
      [] kind = "opreturn" -> <<Output("data", 0)>>
      [] kind = "fund" -> <<Output("data", 0), Output("multisig", ChannelSatoshis)>>

\* The transaction of a call: change is what the estimated fee leaves, when that is positive.
CallTx(kind, ins, prev) ==
    LET change == Total(ins) + Total(prev) - Total(Fixed(kind)) - Fee[kind]
    IN Tx(kind, ins, prev, Fixed(kind) \o IF change > 0 THEN <<Output("own", change)>> ELSE <<>>)
Call(s, tx) == [stream |-> s, tx |-> tx, txid |-> 0, stage |-> "signing", attempt |-> 0]

CanCall(kind) == phase \in {"running", "stopping"} /\ FlushWaits /\ kind \in setup.kinds /\ Cardinality(calls) < MaxCalls

\* pickFundingUtxo drops the outputs in front that cannot pay a fee; when none can, the call throws.
\* A caller hands transitionCellToken the live cell it holds.
Begin(s, kind) ==
    /\ kind # "fund" /\ CanCall(kind)
    /\ utxoPools[s] # <<>>
    /\ IF \E i \in DOMAIN utxoPools[s] : Useful(utxoPools[s][i])
       THEN LET pool == utxoPools[s]
            IN \E prev \in IF kind = "transition" THEN {<<c>> : c \in cells} ELSE {<<>>} :
                  /\ utxoPools' = [utxoPools EXCEPT ![s] = PickedPool(pool)]
                  /\ calls' = calls \union {Call(s, CallTx(kind, <<pool[FirstUseful(pool)]>>, prev))}
                  /\ cells' = cells \ Range(prev)
       ELSE /\ kind = "transition" => cells # {}
            /\ utxoPools' = [utxoPools EXCEPT ![s] = <<>>]
            /\ UNCHANGED <<calls, cells>>
    /\ chainTipDirty' = TRUE
    /\ UNCHANGED <<sweepLeft, queueVars, beef, beefDirty, disk, txs, accepted, phase, lifeVars>>

\* buildFundingTx of a payment channel consumes outputs until they cover the channel and its fee,
\* and returns them to the back of the pool when they never do.  Neither marks the chain tip dirty.
fundChannel(s) ==
    LET pool == utxoPools[s]
        enough == {n \in DOMAIN pool : n <= 10 /\ Total(SubSeq(pool, 1, n)) >= ChannelSatoshis + Fee["fund"]}
        consumed == IF enough # {} THEN CHOOSE n \in enough : \A k \in enough : n <= k
                    ELSE IF Len(pool) < 10 THEN Len(pool) ELSE 10
        rest == SubSeq(pool, consumed + 1, Len(pool))
        ins == SubSeq(pool, 1, consumed)
    IN /\ CanCall("fund") /\ pool # <<>>
       /\ IF enough # {}
          THEN /\ utxoPools' = [utxoPools EXCEPT ![s] = rest]
               /\ calls' = calls \union {Call(s, CallTx("fund", ins, <<>>))}
          ELSE utxoPools' = [utxoPools EXCEPT ![s] = rest \o ins] /\ UNCHANGED calls
       /\ UNCHANGED <<cells, sweepLeft, queueVars, storeVars, txs, accepted, phase, lifeVars>>

Replace(c, d) == calls' = (calls \ {c}) \union {d}

\* Mutant: the newest transaction goes to the front.
PushedInFront(t) == <<t>> \o batchQueue
PushedQueue(t) == Append(batchQueue, t)

\* Mutant: a partial batch waits for the batch to fill up.
holdUntimed(q) ==
    /\ batchQueue' = q
    /\ UNCHANGED <<batchFlushTimer, wire, pendingBroadcasts>>
hold(q) ==
    /\ batchQueue' = q /\ batchFlushTimer' = TRUE
    /\ UNCHANGED <<wire, pendingBroadcasts>>

\* flushBatch: the first BatchSize of q go on the wire, and the timer is cleared.
flushBatch(q) ==
    LET n == IF Len(q) < BatchSize THEN Len(q) ELSE BatchSize
        posted == IF n = 0 THEN {} ELSE {SubSeq(q, 1, n)}
    IN /\ batchFlushTimer' = FALSE
       /\ batchQueue' = SubSeq(q, n + 1, Len(q))
       /\ wire' = wire \union posted
       /\ pendingBroadcasts' = pendingBroadcasts \union posted

\* broadcastTx in batch mode: queue the transaction, post a full batch at once, else see that a timer runs.
enqueue(t) ==
    IF Len(PushedQueue(t)) >= BatchSize THEN flushBatch(PushedQueue(t)) ELSE hold(PushedQueue(t))

\* Mutant: an awaited broadcast is fired and forgotten too.
NeverAwaited(kind) == kind = "fund"
Awaited(kind) == Mode # "batch" \/ kind = "fund"

\* The continuation of tx.sign(), up to the next await.
Sign(c) ==
    /\ Live /\ FlushWaits /\ c.stage = "signing"
    /\ txs' = Append(txs, c.tx)
    /\ IF Awaited(c.tx.kind)
       THEN /\ Replace(c, [c EXCEPT !.txid = Len(txs) + 1, !.stage = "sending"])
            /\ UNCHANGED <<batchQueue, batchFlushTimer, wire, pendingBroadcasts>>
       ELSE enqueue(Len(txs) + 1) /\ Replace(c, [c EXCEPT !.txid = Len(txs) + 1, !.stage = "sent"])
    /\ UNCHANGED <<utxoPools, cells, sweepLeft, flushing, storeVars, accepted, phase, lifeVars>>

ChangeOf(c) == Utxo(c.txid, Len(c.tx.outs) - 1, c.tx.outs[Len(c.tx.outs)].satoshis)

\* The continuation of broadcastTx: the BEEF store gets the transaction with its parents, the pool
\* its change.  The change of a channel's funding transaction goes to neither.
Finish(c) ==
    /\ Live /\ c.stage = "sent"
    /\ calls' = calls \ {c}
    /\ cells' = cells \union {u \in OutputsOf({c.txid}) : LockOf(u) = "cell"}
    /\ IF c.tx.kind = "fund" THEN UNCHANGED <<beef, beefDirty>>
       ELSE mergeTransaction({c.txid} \union {u.txid : u \in Inputs(c.txid)})
    /\ IF c.tx.kind # "fund" /\ Last(c.tx.outs).lock = "own"
       THEN /\ utxoPools' = [utxoPools EXCEPT ![c.stream] = Append(@, ChangeOf(c))]
            /\ chainTipDirty' = TRUE
       ELSE UNCHANGED <<utxoPools, chainTipDirty>>
    /\ UNCHANGED <<sweepLeft, queueVars, disk, txs, accepted, phase, lifeVars>>

Returned(c) == IF c.tx.kind = "fund" THEN c.tx.ins ELSE <<>>

\* A failed call throws: its funding output is gone, except that a channel returns what it consumed.
Fail(c) ==
    /\ calls' = calls \ {c}
    /\ cells' = cells \union Range(c.tx.prev)
    /\ utxoPools' = [utxoPools EXCEPT ![c.stream] = @ \o Returned(c)]

\* Mutant: an answer that does not come counts as success.
SilenceIsConsent(t) == t \in DOMAIN txs
Confirmed(t) == t \in accepted'

\* One awaited broadcast: ARC is asked once; MAPI up to three times when no answer comes or it is busy,
\* but not again once it has answered that it refuses or fails, or what cannot be read.
SendAttempt(c) ==
    LET mapi == Mode = "mapi" /\ c.tx.kind # "fund"
    IN /\ Live /\ Idle /\ c.stage = "sending"
       /\ accepted' = Accept(accepted, <<c.txid>>) \/ (LossyNetwork /\ accepted' = accepted)
       /\ \/ /\ Confirmed(c.txid)
             /\ Replace(c, [c EXCEPT !.stage = "sent"]) /\ UNCHANGED <<utxoPools, cells, assumed>>
          \/ /\ Presumes /\ mapi /\ c.txid \notin accepted'
             /\ Replace(c, [c EXCEPT !.stage = "sent"]) /\ assumed' = assumed \union {c.txid}
             /\ UNCHANGED <<utxoPools, cells>>
          \/ /\ LossyNetwork /\ mapi /\ c.attempt < 2
             /\ Replace(c, [c EXCEPT !.attempt = @ + 1]) /\ UNCHANGED <<utxoPools, cells, assumed>>
          \/ /\ LossyNetwork \/ c.txid \notin accepted'
             /\ Fail(c) /\ UNCHANGED assumed
       /\ UNCHANGED <<sweepLeft, queueVars, storeVars, txs, phase, lives, setup>>

-------------------------------------------------------------------------------
(* The batch queue, the flush, the sweep and the end of the process. *)

BatchTimer ==
    /\ Live /\ Idle /\ batchFlushTimer
    /\ flushBatch(batchQueue)
    /\ UNCHANGED <<walletVars, flushing, storeVars, txs, accepted, phase, lifeVars>>

\* Mutant: the promise of a batch is never settled.
neverSettle(b) == wire' = wire \ {b} /\ UNCHANGED <<flushing, pendingBroadcasts>>
settle(b) == wire' = wire \ {b} /\ flushing' = flushing \ {b} /\ pendingBroadcasts' = pendingBroadcasts \ {b}

\* A batch is answered, or its request fails and the first transaction is tried elsewhere.  The
\* answers only reach the error list; batches on the wire are answered in any order.
BatchSettles(b) ==
    /\ Live /\ Idle /\ b \in wire
    /\ settle(b)
    /\ \/ accepted' = Accept(accepted, b)
       \/ LossyNetwork /\ accepted' \in {accepted, Accept(accepted, <<Head(b)>>)}
    /\ UNCHANGED <<walletVars, batchQueue, batchFlushTimer, storeVars, txs, phase, lifeVars>>

\* flush() first posts what is queued, then waits for the promises it can see.
startFlush(next) ==
    LET batches == {SubSeq(batchQueue, i, IF i + BatchSize - 1 < Len(batchQueue) THEN i + BatchSize - 1 ELSE Len(batchQueue)) :
                        i \in {j \in DOMAIN batchQueue : j % BatchSize = 1 % BatchSize}}
    IN /\ batchQueue' = <<>>
       /\ batchFlushTimer' = (batchFlushTimer /\ batchQueue = <<>>)
       /\ wire' = wire \union batches
       /\ pendingBroadcasts' = pendingBroadcasts \union batches
       /\ flushing' = pendingBroadcasts \union batches
       /\ phase' = next

\* SIGTERM or SIGINT: gracefulShutdown flushes while the tables go on.
Shutdown ==
    /\ phase = "running" /\ Idle
    /\ startFlush("stopping")
    /\ UNCHANGED <<walletVars, storeVars, txs, accepted, lifeVars>>

\* Every table is done: main flushes, sweeps when there is a change address, and flushes again.
EndOfRun ==
    /\ phase = "running" /\ calls = {}
    /\ startFlush(IF SweepAtEnd THEN "draining" ELSE "finalFlush")
    /\ UNCHANGED <<walletVars, storeVars, txs, accepted, lifeVars>>

\* The rest of flush(): forget the promises, write both snapshots, stop their timers.
FlushDone ==
    /\ phase \in {"stopping", "draining", "finalFlush"} /\ NoneSent /\ flushing = {}
    /\ pendingBroadcasts' = {}
    /\ disk' = IF Persistent THEN [chainTip |-> utxoPools, beef |-> IF beefDirty THEN beef ELSE disk.beef] ELSE disk
    /\ chainTipDirty' = (chainTipDirty /\ ~Persistent) /\ beefDirty' = FALSE
    /\ IF phase = "draining"
       THEN /\ phase' = "sweeping" /\ utxoPools' = EmptyPools
            /\ sweepLeft' = FlattenSeq([i \in 1..NumStreams |-> utxoPools[i - 1]])
       ELSE phase' = "stopped" /\ UNCHANGED <<utxoPools, sweepLeft>>
    /\ UNCHANGED <<calls, cells, batchQueue, batchFlushTimer, wire, flushing, beef, txs, accepted, lifeVars>>

SweepTx(ins) ==
    Tx("sweep", ins, <<>>, <<Output("foreign", Total(ins) - Larger(MinFee, InputFee * Len(ins)))>>)

\* sweepAll takes SweepBatch outputs at a time and skips a batch that is not worth its fee; a sweep
\* is not merged into the BEEF store.  A broadcast that fails ends it.
sweepAll ==
    LET n == IF Len(sweepLeft) < SweepBatch THEN Len(sweepLeft) ELSE SweepBatch
        tx == SweepTx(SubSeq(sweepLeft, 1, n))
        t == Len(txs) + 1
        rest == SubSeq(sweepLeft, n + 1, Len(sweepLeft))
    IN /\ phase = "sweeping" /\ sweepLeft # <<>>
       /\ IF tx.outs[1].satoshis <= DustLimit
          THEN sweepLeft' = rest /\ UNCHANGED <<batchQueue, batchFlushTimer, wire, pendingBroadcasts, txs, accepted>>
          ELSE /\ txs' = Append(txs, tx)
               /\ IF Mode = "batch" THEN sweepLeft' = rest /\ enqueue(t) /\ UNCHANGED accepted
                  ELSE LET taken == \A u \in Range(tx.ins) : u \in OnChain
                       IN /\ \/ taken /\ accepted' = accepted \union {t} /\ sweepLeft' = rest
                             \/ ~taken /\ accepted' = accepted /\ sweepLeft' = <<>>
                             \/ Presumes /\ accepted' = accepted /\ sweepLeft' = rest
                             \/ /\ LossyNetwork /\ sweepLeft' = <<>>
                                /\ accepted' = accepted \/ (taken /\ accepted' = accepted \union {t})
                          /\ UNCHANGED <<batchQueue, batchFlushTimer, wire, pendingBroadcasts>>
       /\ UNCHANGED <<utxoPools, calls, cells, flushing, storeVars, phase, lifeVars>>

SweepDone ==
    /\ phase = "sweeping" /\ sweepLeft = <<>>
    /\ startFlush("finalFlush")
    /\ UNCHANGED <<walletVars, storeVars, txs, accepted, lifeVars>>

\* The two five-second timers write what has changed since the last write.
ChainTipTimer ==
    /\ TimersOn /\ Idle /\ Persistent /\ chainTipDirty
    /\ disk' = [disk EXCEPT !.chainTip = utxoPools] /\ chainTipDirty' = FALSE
    /\ UNCHANGED <<walletVars, queueVars, beef, beefDirty, txs, accepted, phase, lifeVars>>

BeefTimer ==
    /\ TimersOn /\ Idle /\ beefDirty
    /\ disk' = [disk EXCEPT !.beef = beef] /\ beefDirty' = FALSE
    /\ UNCHANGED <<walletVars, queueVars, beef, chainTipDirty, txs, accepted, phase, lifeVars>>

Crash ==
    /\ CanCrash /\ Live
    /\ phase' = "dead"
    /\ UNCHANGED <<walletVars, queueVars, storeVars, txs, accepted, lifeVars>>

\* A new process starts from the files; whatever was in memory or not yet posted is gone.
Restart ==
    /\ phase \in {"stopped", "dead"} /\ lives < MaxLives
    /\ lives' = lives + 1 /\ phase' = "boot"
    /\ utxoPools' = EmptyPools /\ calls' = {} /\ cells' = {} /\ sweepLeft' = <<>>
    /\ batchQueue' = <<>> /\ batchFlushTimer' = FALSE
    /\ wire' = {} /\ pendingBroadcasts' = {} /\ flushing' = {}
    /\ beef' = {} /\ beefDirty' = FALSE /\ chainTipDirty' = FALSE
    /\ UNCHANGED <<disk, txs, accepted, setup, assumed>>

EngineNext ==
    \/ Boot \/ PreSplitFunding \/ discoverUtxos \/ waitForFunding
    \/ \E s \in Streams : fundChannel(s) \/ \E k \in CallKinds : Begin(s, k)
    \/ \E c \in calls : Sign(c) \/ Finish(c) \/ SendAttempt(c)
    \/ BatchTimer \/ \E b \in wire : BatchSettles(b)
    \/ Shutdown \/ EndOfRun \/ FlushDone \/ sweepAll \/ SweepDone
    \/ ChainTipTimer \/ BeefTimer \/ Crash \/ Restart

EngineSpec == EngineInit /\ [][EngineNext]_engineVars

\* Timers fire, requests are answered or time out, and continuations run.
EngineFairness ==
    /\ WF_engineVars(BatchTimer)
    /\ WF_engineVars(\E b \in wire : BatchSettles(b))
    /\ WF_engineVars(\E c \in calls : Sign(c) \/ Finish(c) \/ SendAttempt(c))
    /\ WF_engineVars(FlushDone \/ sweepAll \/ SweepDone)
FairEngineSpec == EngineSpec /\ EngineFairness

-------------------------------------------------------------------------------
(* Properties. *)

Queued == Range(batchQueue)

\* What the wallet holds: pooled outputs, those a call has picked and not signed for, those being swept.
Held == Pooled \union Range(sweepLeft)
              \union UNION {Range(c.tx.ins) : c \in {d \in calls : d.stage = "signing"}}
\* A pre-split nobody took has spent nothing: its input may be discovered again (initBroadcastEngine).
SpentBy(t) == IF txs[t].kind = "split" /\ t \notin accepted THEN {} ELSE Range(txs[t].ins)

\* No two transactions spend the same wallet output and none that is spent is still held, whatever calls of
\* whatever streams run at once (pickFundingUtxo's shift before the await, change pushed back once).  A
\* process that was killed leaves stale snapshots: see PoolUnspent.
SpentOnce == ~CanCrash =>
    /\ phase # "dead" => \A t \in DOMAIN txs : SpentBy(t) \intersect Held = {}
    /\ \A t, k \in DOMAIN txs : t # k => SpentBy(t) \intersect SpentBy(k) = {}

\* What a transaction has to leave to the miner: minFee, a channel's funding its fixed fee (250).
LeastFee(kind) == IF kind = "fund" THEN Fee["fund"] ELSE MinFee

\* Every transaction the engine signs leaves that much, also when its change is negative and left out
\* (createCellToken, transitionCellToken, anchorOpReturn, preSplit, sweepAll, buildFundingTx).
FeesCovered ==
    \A t \in 2..Len(txs) :
        Total(txs[t].ins) + Total(txs[t].prev) >= Total(txs[t].outs) + LeastFee(txs[t].kind)

\* A transaction is posted no earlier than the ones it spends from: none of its parents waits behind
\* it in the queue or in its batch, or still waits in the queue when it is on the wire.
ParentsFirst ==
    LET parents(t) == {u.txid : u \in Inputs(t)}
        ordered(q) == \A i \in DOMAIN q : \A j \in i..Len(q) : q[j] \notin parents(q[i])
    IN /\ ordered(batchQueue)
       /\ \A b \in wire : ordered(b) /\ \A t \in Range(b) : parents(t) \intersect Queued = {}

\* When broadcasts are awaited, every pooled output is one the network has ("After each successful
\* broadcast, the change output becomes the next parent", direct-broadcast-engine.ts:138), but for those
\* whose transaction passed for a success on an answer of MAPI that could not be read (1454-1462, 649-650).
TipsAccepted == Mode # "batch" => \A u \in Pooled : u.txid \in accepted \union assumed

\* No pooled output has been spent by a transaction the network has: a call that picked one would
\* sign a double spend (restoreChainTip, restoreFromBeef, returnUtxos, preSplit).  A process that was
\* killed leaves snapshots up to 30 seconds old, of which this is not true.
PoolUnspent == ~CanCrash /\ phase \notin {"stopped", "dead"} => Pooled \intersect SpentIn(accepted) = {}

\* Between two processes the BEEF file knows every output the chain-tip file lists, so that booting
\* from the first, which has priority, forgets nothing of a wallet that was funded by a pre-split
\* (flush writes both in one turn).  Where answers get lost the wallet may be funded by discovery, whose
\* outputs no BEEF file gets to know.
BeefCoversChainTip ==
    ~LossyNetwork /\ phase = "stopped" => \A s \in Streams : Range(disk.chainTip[s]) \subseteq BeefTips

\* Queued transactions do not wait for ever for their batch to fill up: the queue is posted, unless the
\* process ends first (the timer of broadcastTx, cleared by every flushBatch and set again by the next push).
QueuedIsPosted == batchQueue # <<>> ~> (batchQueue = <<>> \/ phase \in {"stopped", "dead"})

\* A flush ends although calls keep queueing behind it, and with it the process (gracefulShutdown, main),
\* unless it is killed.
ShutdownCompletes == phase \in {"stopping", "draining", "finalFlush"} ~> phase \in {"stopped", "dead"}
===============================================================================
