-------------------------------- MODULE ApexHunt --------------------------------
(***************************************************************************)
(* The agents that live off the floor: the apex process of                 *)
(* src/src/entrypoint-apex.ts with its shadow loop, and the rogue process  *)
(* of src/src/entrypoint-rogue.ts.  An agent looks up at the router where  *)
(* weak players sit, plays a roam of some hands under that table's name    *)
(* against simulated opponents of its own, reports every hand, rebuy and   *)
(* roam, and roams on.  An apex waits for the answer to its settlement and *)
(* then reports a match against every other agent the router knows; a      *)
(* rogue waits for nothing, and once in a roam reports a cheat attempt,    *)
(* whose contents are left out.  The shadow loop meanwhile asks a model    *)
(* for a better policy, puts it in place and logs it.                      *)
(*                                                                         *)
(* Requests that are waited for take effect as they are answered.  Of the  *)
(* game only the agent's stack is kept: Stake chips a hand, won or lost.   *)
(* The mains run to their end: a signal or a fatal error, which exits in   *)
(* the middle of a roam, is left out.                                      *)
(***************************************************************************)
EXTENDS BorderRouter

CONSTANTS
    Agents,
    Tables,             \* the floor's tables
    Stake, RebuyCost,   \* REBUY_COST_SATS
    MinHands,           \* MIN_HANDS_FOR_SCORING
    RoamInterval,       \* hands of a roam
    MaxErrors,          \* maxConsecutiveErrors
    Settings            \* the runs looked at, and their bounds

ASSUME HuntAssumption ==
    /\ Stake \in Nat \ {0} /\ Stake <= TopUpChips /\ RebuyCost \in Nat
    /\ {MinHands, RoamInterval, MaxErrors} \subseteq Nat \ {0}
    /\ \A s \in Settings :
           /\ s.apexes \union s.rogues \subseteq Agents /\ s.apexes \intersect s.rogues = {}
           /\ s.cells \subseteq Nat /\ {s.hands, s.cycles, s.losses} \subseteq Nat

VARIABLES
    hunters,    \* of each agent: where main is, the hands played so far, the roam it is on
    minds,      \* of each apex: its shadow loop, policy and evolution chain
    posts,      \* requests under way
    stores,     \* the router's
    lost,       \* history: requests lost or cut off
    setting     \* one of Settings

netVars == <<posts, stores, lost>>
vars == <<hunters, minds, netVars, setting>>

\* Which agents are of which kind, and the bounds of a run: MAX_TOTAL_HANDS, the cells a hand may log, the
\* cycles a shadow loop starts, and the requests that get lost.
Apexes == setting.apexes
Rogues == setting.rogues
Hunters == Apexes \union Rogues
MaxHands == setting.hands
CellBatches == setting.cells
MaxCycles == setting.cycles
MaxLost == setting.losses

NoRoam == [table |-> "none", hands |-> 0, played |-> 0, chips |-> TopUpChips, rebuys |-> 0]

\* version 0 is the baseline policy; `logged` is the last version of the evolution chain, 0 for none.
FirstMind == [pc |-> "resting", running |-> FALSE, version |-> 0, basis |-> 0, good |-> 0, logged |-> 0,
              errors |-> 0, cycles |-> 0]

Init ==
    /\ setting \in Settings
    /\ hunters = [a \in Hunters |-> [pc |-> "starting", total |-> 0, roams |-> 0, roam |-> NoRoam,
                                     others |-> {}, cheated |-> FALSE]]
    /\ minds = [a \in Apexes |-> FirstMind]
    /\ posts = {} /\ stores = EmptyStores /\ lost = 0

Request(kind, a, body) == [kind |-> kind, from |-> a, body |-> body]

\* The floor's hands come by multicast (Telemetry.tla).
FloorPlays(t) ==
    /\ t \notin DOMAIN TableList(stores)
    /\ LET players == {<<t, 1>>, <<t, 2>>}
       IN  stores' = HandHeard(stores, [table |-> t, n |-> 1, acted |-> players, showdown |-> players,
                                        winner |-> <<t, 1>>, pot |-> 2 * Stake, txCount |-> 3])
    /\ UNCHANGED <<hunters, minds, posts, lost, setting>>
-------------------------------------------------------------------------------
(* A roam. *)

\* An apex starts its shadow loop and waits for its registration, a rogue does not.
Register(a) ==
    /\ hunters[a].pc = "starting"
    /\ hunters' = [hunters EXCEPT ![a].pc = IF a \in Apexes THEN "registering" ELSE "scanning"]
    /\ minds' = IF a \in Apexes THEN [minds EXCEPT ![a].running = TRUE] ELSE minds
    /\ posts' = posts \union {Request("register", a, 0)}
    /\ UNCHANGED <<stores, lost, setting>>

\* Where to go: an apex scores players with hands enough; a rogue takes a key of the answer, which has but one.
Targets(a) ==
    IF a \in Rogues THEN {"tables"}
    ELSE LET seen == TableList(stores) IN {t \in DOMAIN seen : seen[t].handsPlayed >= MinHands}

\* Mutant: the rebuys of one roam are counted into the next.
KeptCount(h, t) == [NoRoam EXCEPT !.table = t, !.hands = Min({RoamInterval, MaxHands - h.total}), !.rebuys = h.roam.rebuys]

NewRoam(h, t) == [NoRoam EXCEPT !.table = t, !.hands = Min({RoamInterval, MaxHands - h.total})]

SitDown(a) ==
    /\ hunters[a].pc = "scanning" /\ hunters[a].total < MaxHands
    /\ \E t \in Targets(a) :
          hunters' = [hunters EXCEPT ![a].pc = "playing", ![a].roams = @ + 1,
                                     ![a].roam = NewRoam(hunters[a], t), ![a].cheated = FALSE]
    /\ UNCHANGED <<minds, netVars, setting>>

Playing(a) == hunters[a].pc = "playing" /\ hunters[a].roam.played < hunters[a].roam.hands

\* onRebuy, when the engine fills the agent's stack up before a hand.
onRebuy(a) ==
    /\ Playing(a) /\ hunters[a].roam.chips < Stake
    /\ LET n == hunters[a].roam.rebuys + 1
       IN  /\ hunters' = [hunters EXCEPT ![a].roam.chips = TopUpChips, ![a].roam.rebuys = n]
           /\ posts' = posts \union {Request("rebuy", a, <<hunters[a].roams, n>>)}
    /\ UNCHANGED <<minds, stores, lost, setting>>

\* What is posted of a hand: how it went, and the batch of its cells if it has any.
HandReport(a, won) ==
    LET h == hunters[a]
        opponent == <<a, h.roam.table>>
    IN  [table |-> h.roam.table, n |-> <<a, h.roams, h.roam.played + 1>>, myBotId |-> a,
         acted |-> {a, opponent}, showdown |-> {a, opponent},
         winner |-> IF won THEN a ELSE opponent, pot |-> 2 * Stake, txCount |-> 5]
CellReports(a, hand, cells) == {Request("cells", a, {<<hand.n, c>> : c \in 1..k}) : k \in {cells} \ {0}}

\* A hand against the opponent seeded for this agent and table.
onHandComplete(a) ==
    /\ Playing(a) /\ hunters[a].roam.chips >= Stake
    /\ \E won \in BOOLEAN, cells \in CellBatches :
          LET hand == HandReport(a, won)
          IN  /\ hunters' = [hunters EXCEPT ![a].roam.played = @ + 1,
                                            ![a].roam.chips = IF won THEN @ + Stake ELSE @ - Stake]
              /\ posts' = posts \union {Request("hand", a, hand)} \union CellReports(a, hand, cells)
    /\ UNCHANGED <<minds, stores, lost, setting>>

\* The rogue's scheduled attempt: its handler awaits, so that its reports come at any later time, if at all.
emitCheatCell(a) ==
    /\ a \in Rogues /\ hunters[a].pc # "exited"
    /\ hunters[a].roam.played > 0 /\ ~hunters[a].cheated
    /\ hunters' = [hunters EXCEPT ![a].cheated = TRUE]
    /\ posts' = posts \union {Request("cheat", a, hunters[a].roams), Request("cells", a, {<<"cheat", hunters[a].roams>>})}
    /\ UNCHANGED <<minds, stores, lost, setting>>

Settlement(a) ==
    LET r == hunters[a].roam
    IN  [apexId |-> a, roam |-> hunters[a].roams, table |-> r.table, chipsWon |-> r.chips - TopUpChips,
         handsPlayed |-> r.played, rebuys |-> r.rebuys, rebuyCostSats |-> r.rebuys * RebuyCost]

Leave(a) ==
    /\ hunters[a].pc = "playing" /\ ~Playing(a)
    /\ hunters' = [hunters EXCEPT ![a].pc = IF a \in Apexes THEN "settling" ELSE "scanning",
                                  ![a].total = @ + hunters[a].roam.played]
    /\ posts' = posts \union {Request("settlement", a, Settlement(a))}
    /\ UNCHANGED <<minds, stores, lost, setting>>

\* The answer names the agents that have registered; when it does not come nothing is reported.
AskForOthers(a) ==
    /\ hunters[a].pc = "asking"
    /\ \/ /\ hunters' = [hunters EXCEPT ![a].pc = "comparing", ![a].others = stores.knownApex \ {a}]
          /\ lost' = lost
       \/ /\ lost < MaxLost /\ lost' = lost + 1
          /\ hunters' = [hunters EXCEPT ![a].pc = "scanning"]
    /\ UNCHANGED <<minds, posts, stores, setting>>

\* One match is reported at a time, as if the agents had met at this table.
Compare(a) ==
    /\ hunters[a].pc = "comparing" /\ hunters[a].others # {}
    /\ \E b \in hunters[a].others :
          /\ hunters' = [hunters EXCEPT ![a].pc = "reporting", ![a].others = @ \ {b}]
          /\ LET won == hunters[a].roam.chips > TopUpChips
             IN  posts' = posts \union {Request("matchup", a, [agent1 |-> a, agent2 |-> b, roam |-> hunters[a].roams,
                                                              winner |-> IF won THEN a ELSE b])}
    /\ UNCHANGED <<minds, stores, lost, setting>>

Compared(a) ==
    /\ hunters[a].pc = "comparing" /\ hunters[a].others = {}
    /\ hunters' = [hunters EXCEPT ![a].pc = "scanning"]
    /\ UNCHANGED <<minds, netVars, setting>>
-------------------------------------------------------------------------------
(* The end. *)

\* An apex stops its shadow loop, though not a cycle under way, and waits to have its transactions counted.
Finish(a) ==
    /\ hunters[a].pc = "scanning" /\ hunters[a].total >= MaxHands
    /\ IF a \in Rogues
       THEN /\ hunters' = [hunters EXCEPT ![a].pc = "leaving"]
            /\ UNCHANGED <<minds, posts>>
       ELSE /\ hunters' = [hunters EXCEPT ![a].pc = "finishing"]
            /\ minds' = [minds EXCEPT ![a].running = FALSE]
            /\ posts' = posts \union {Request("count", a, 5 * hunters[a].total)}
    /\ UNCHANGED <<stores, lost, setting>>

\* process.exit cuts off what is under way, or does not.
Exit(a) ==
    /\ hunters[a].pc = "leaving"
    /\ hunters' = [hunters EXCEPT ![a].pc = "exited"]
    /\ \E cut \in SUBSET {p \in posts : p.from = a} : posts' = posts \ cut /\ lost' = lost + Cardinality(cut)
    /\ UNCHANGED <<minds, stores, setting>>
-------------------------------------------------------------------------------
(* The shadow loop. *)

Alive(a) == hunters[a].pc # "exited"

\* runCycle fetches the last hands and prompts for a policy better than the current one; without hands it rests.
Ponder(a) ==
    /\ Alive(a) /\ minds[a].running /\ minds[a].pc = "resting"
    /\ minds[a].cycles < MaxCycles /\ stores.hands # <<>>
    /\ minds' = [minds EXCEPT ![a].pc = "prompting", ![a].basis = minds[a].version, ![a].cycles = @ + 1]
    /\ UNCHANGED <<hunters, netVars, setting>>

\* The answer compiles: it is in place at once, becomes the head of the chain and is posted.
HotSwap(a) ==
    /\ Alive(a) /\ minds[a].pc = "prompting"
    /\ LET version == minds[a].basis + 1
       IN  /\ minds' = [minds EXCEPT ![a].pc = "logging", ![a].version = version, ![a].logged = version]
           /\ posts' = posts \union {Request("policy", a, [botId |-> a, version |-> version, prev |-> minds[a].logged])}
    /\ UNCHANGED <<hunters, stores, lost, setting>>

\* Mutant: the policy to fall back on is the first one for ever.
Unproven(mind) == [mind EXCEPT !.pc = "resting", !.errors = 0]

\* logVersion has returned.
Proven(mind) == [mind EXCEPT !.pc = "resting", !.errors = 0, !.good = mind.version]

\* The prompt fails, or its answer is not valid Lisp: after MaxErrors in a row the last good policy comes back.
Stumble(a) ==
    /\ Alive(a) /\ minds[a].pc = "prompting"
    /\ LET errors == minds[a].errors + 1
       IN  minds' = [minds EXCEPT ![a].pc = "resting", ![a].errors = errors % MaxErrors,
                                  ![a].version = IF errors >= MaxErrors THEN minds[a].good ELSE @]
    /\ UNCHANGED <<hunters, netVars, setting>>
-------------------------------------------------------------------------------
(* Requests. *)

Taken(p) ==
    CASE p.kind = "register" -> ApexRegistered(stores, p.from)
      [] p.kind = "rebuy" -> RebuyPosted(stores, p.from, RebuyCost)
      [] p.kind = "hand" -> HandPosted(stores, p.body)
      [] p.kind = "cells" \/ p.kind = "policyCell" -> CellsPosted(stores, p.body)
      [] p.kind = "settlement" -> SettlementPosted(stores, p.body)
      [] p.kind = "matchup" -> MatchupPosted(stores, p.body)
      [] p.kind = "cheat" -> CheatPosted(stores, p.body)
      [] p.kind = "count" -> TxCountHeard(stores, p.body, 0, 0)
      [] p.kind = "policy" -> PolicyPosted(stores, p.body)

\* What main does once its request is answered, or has failed: only a lost match report ends the reporting.
Onwards(h, kind, answered) ==
    CASE kind = "register" /\ h.pc = "registering" -> [h EXCEPT !.pc = "scanning"]
      [] kind = "settlement" /\ h.pc = "settling" -> [h EXCEPT !.pc = "asking"]
      [] kind = "matchup" -> IF answered THEN [h EXCEPT !.pc = "comparing"] ELSE [h EXCEPT !.pc = "scanning", !.others = {}]
      [] kind = "count" -> [h EXCEPT !.pc = "leaving"]
      [] OTHER -> h

\* And the shadow loop: the version is logged, then its cell.
Logged(a, kind) ==
    IF kind = "policyCell" THEN [minds EXCEPT ![a] = Proven(minds[a])] ELSE minds

Following(p) ==
    IF p.kind = "policy" THEN {Request("policyCell", p.from, {<<"policy", p.from, p.body.version>>})} ELSE {}

Resolve(p, answered) ==
    /\ posts' = (posts \ {p}) \union (IF Alive(p.from) THEN Following(p) ELSE {})
    /\ hunters' = IF Alive(p.from) THEN [hunters EXCEPT ![p.from] = Onwards(@, p.kind, answered)] ELSE hunters
    /\ minds' = IF Alive(p.from) THEN Logged(p.from, p.kind) ELSE minds

Arrive(p) == Resolve(p, TRUE) /\ stores' = Taken(p) /\ UNCHANGED <<lost, setting>>

Fail(p) ==
    /\ lost < MaxLost /\ lost' = lost + 1
    /\ Resolve(p, FALSE)
    /\ UNCHANGED <<stores, setting>>

ReportGenerated ==
    /\ stores.reporting
    /\ stores' = [stores EXCEPT !.reporting = FALSE]
    /\ UNCHANGED <<hunters, minds, posts, lost, setting>>

Next ==
    \/ \E t \in Tables : FloorPlays(t)
    \/ \E a \in Hunters :
          \/ Register(a) \/ SitDown(a) \/ onRebuy(a) \/ onHandComplete(a) \/ emitCheatCell(a) \/ Leave(a)
          \/ AskForOthers(a) \/ Compare(a) \/ Compared(a) \/ Finish(a) \/ Exit(a)
    \/ \E a \in Apexes : Ponder(a) \/ HotSwap(a) \/ Stumble(a)
    \/ \E p \in posts : Arrive(p) \/ Fail(p)
    \/ ReportGenerated

Spec == Init /\ [][Next]_vars
-------------------------------------------------------------------------------
(* Properties. *)

Under(kind, a) == {p \in posts : p.kind = kind /\ p.from = a}
Settled(a) == {stores.settlements[i] : i \in {j \in DOMAIN stores.settlements : stores.settlements[j].apexId = a}}
                  \union {p.body : p \in Under("settlement", a)}
InRoam(a) == IF hunters[a].pc = "playing" THEN hunters[a].roam.rebuys ELSE 0

\* The router learns of rebuys one by one, as they happen, and again in the settlement of their roam; when
\* nothing is lost the two agree, in count and in cost, whatever overtakes what (onRebuy, the settlement of main).
RebuysExplained == lost = 0 =>
    \A a \in Hunters :
        LET told == Entry(stores.rebuys, a, NoRebuys)
            settled == MapThenSumSet(LAMBDA s : s.rebuys, Settled(a)) + InRoam(a)
        IN  /\ told.count + Cardinality(Under("rebuy", a)) = settled
            /\ told.costSats + Cardinality(Under("rebuy", a)) * RebuyCost = settled * RebuyCost

\* The policy the hot-swapper holds, which the next cycle starts from and reports give the version of, is the
\* head of the apex's evolution chain, also after errors brought an older one back; the versions the router lists
\* of an agent follow each other: none comes twice or out of order, and each names the one before it ("auditable
\* cognitive history", policy-evolution-chain.ts:5).  No decision reads the policy: playAtTable ignores it.
PolicyLineage ==
    /\ \A a \in Apexes : minds[a].version = minds[a].logged
    /\ \A j \in DOMAIN stores.policies :
          LET cell == stores.policies[j]
          IN  /\ cell.prev = cell.version - 1
              /\ \A i \in 1..(j - 1) : stores.policies[i].botId = cell.botId => stores.policies[i].version < cell.version
===============================================================================
