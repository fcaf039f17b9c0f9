----------------------------- MODULE ApexHuntProofs -----------------------------
(***************************************************************************)
(* That the policies of every apex make one line, in its own process and   *)
(* at the router, for any number of agents, hands, cycles and lost or cut  *)
(* off requests, and that the router's two counts of rebuys agree when     *)
(* none is lost.  What carries the first proof: an apex has at most one    *)
(* policy on its way, and is logging while it has; the second: every       *)
(* agent's account is kept by each step, and what is on its way is         *)
(* numbered.                                                               *)
(***************************************************************************)
EXTENDS ApexHunt, WellFoundedInduction, FiniteSetTheorems, TLAPS

-------------------------------------------------------------------------------
(* The invariant. *)

Mind == [pc : {"resting", "prompting", "logging"}, running : BOOLEAN, version : Nat, basis : Nat, good : Nat,
         logged : Nat, errors : Nat, cycles : Nat]
Cell == [botId : Apexes, version : Nat, prev : Int]
Kinds == {"register", "rebuy", "hand", "cells", "policyCell", "settlement", "matchup", "cheat", "count", "policy"}

PolicyRequest(a) ==
    Request("policy", a, [botId |-> a, version |-> minds[a].version, prev |-> minds[a].version - 1])

HuntTypeOK ==
    /\ minds \in [Apexes -> Mind]
    /\ "policies" \in DOMAIN stores /\ stores.policies \in Seq(Cell)
    /\ \A p \in posts : p.kind \in Kinds

\* What a mind holds, thinks about and falls back on.
MindsAgree ==
    \A a \in Apexes :
        /\ minds[a].version = minds[a].logged
        /\ minds[a].pc = "prompting" => minds[a].basis = minds[a].version
        /\ minds[a].pc # "logging" => minds[a].good = minds[a].version

\* A policy, and later its cell, is on its way only while the loop waits for it.
OneOnItsWay ==
    /\ \A p \in posts : p.kind = "policy" => p.from \in Apexes /\ minds[p.from].pc = "logging" /\ p = PolicyRequest(p.from)
    /\ \A p \in posts : p.kind = "policyCell" =>
           /\ p.from \in Apexes /\ minds[p.from].pc = "logging"
           /\ \A q \in posts : q.from = p.from => q.kind # "policy"
    /\ \A p, q \in posts : p.kind = "policyCell" /\ q.kind = "policyCell" /\ p.from = q.from => p = q

\* The router has versions up to the present one, and before it while that is on its way.
ListedEarlier ==
    \A j \in DOMAIN stores.policies :
        LET cell == stores.policies[j]
        IN  /\ cell.version <= minds[cell.botId].version
            /\ \A p \in posts : p.kind = "policy" /\ p.from = cell.botId => cell.version < minds[cell.botId].version

ListInOrder ==
    \A j \in DOMAIN stores.policies :
        LET cell == stores.policies[j]
        IN  /\ cell.prev = cell.version - 1
            /\ \A i \in 1..(j - 1) : stores.policies[i].botId = cell.botId => stores.policies[i].version < cell.version

HuntInv == HuntTypeOK /\ MindsAgree /\ OneOnItsWay /\ ListedEarlier /\ ListInOrder

LEMMA HuntInit == Init => HuntInv
  <1> SUFFICES ASSUME Init PROVE HuntInv
    OBVIOUS
  <1>1. FirstMind \in Mind
    BY DEF FirstMind, Mind
  <1>2. minds \in [Apexes -> Mind] /\ \A a \in Apexes : minds[a] = FirstMind
    BY <1>1 DEF Init
  <1>3. "policies" \in DOMAIN stores /\ stores.policies = <<>> /\ posts = {}
    BY DEF Init, EmptyStores
  <1>4. HuntTypeOK
    BY <1>2, <1>3 DEF HuntTypeOK
  <1> QED BY <1>2, <1>3, <1>4 DEF HuntInv, MindsAgree, OneOnItsWay, ListedEarlier, ListInOrder, FirstMind
-------------------------------------------------------------------------------
(* Steps that have nothing to do with policies. *)

LEMMA OthersKeep ==
    ASSUME HuntInv, UNCHANGED setting,
           minds' \in [Apexes -> Mind],
           \A a \in Apexes : /\ minds'[a].version = minds[a].version /\ minds'[a].logged = minds[a].logged
                             /\ minds'[a].basis = minds[a].basis /\ minds'[a].good = minds[a].good
                             /\ minds'[a].pc = minds[a].pc,
           "policies" \in DOMAIN stores', stores'.policies = stores.policies,
           \A p \in posts' : p \in posts \/ p.kind \in Kinds \ {"policy", "policyCell"}
    PROVE  HuntInv'
  <1>1. Apexes' = Apexes
    BY DEF Apexes
  <1>2. HuntTypeOK'
    BY <1>1 DEF HuntInv, HuntTypeOK, Cell
  <1>3. MindsAgree'
    BY <1>1 DEF HuntInv, MindsAgree
  <1>4. OneOnItsWay'
    <2>1. \A p \in posts' : p.kind \in {"policy", "policyCell"} => p \in posts
      OBVIOUS
    <2>2. \A p \in posts' : p.kind = "policy" =>
             p.from \in Apexes /\ minds'[p.from].pc = "logging" /\ p = PolicyRequest(p.from)'
      BY <1>1, <2>1 DEF HuntInv, OneOnItsWay, PolicyRequest, Request
    <2> QED BY <1>1, <2>1, <2>2 DEF HuntInv, OneOnItsWay
  <1>5. ListedEarlier'
    <2>1. \A j \in DOMAIN stores.policies : stores.policies[j].botId \in Apexes
      <3>1. \A j \in DOMAIN stores.policies : stores.policies[j] \in Cell
        BY DEF HuntInv, HuntTypeOK
      <3> QED BY <3>1 DEF Cell
    <2> QED BY <1>1, <2>1 DEF HuntInv, ListedEarlier
  <1>6. ListInOrder'
    BY DEF HuntInv, ListInOrder
  <1> QED BY <1>2, <1>3, <1>4, <1>5, <1>6 DEF HuntInv

LEMMA IngestHandKeeps ==
    ASSUME NEW s, NEW h, NEW bots, "policies" \in DOMAIN s
    PROVE  "policies" \in DOMAIN IngestHand(s, h, bots) /\ IngestHand(s, h, bots).policies = s.policies
  BY DEF IngestHand

LEMMA CellsPostedKeeps ==
    ASSUME NEW s, NEW batch, "policies" \in DOMAIN s
    PROVE  "policies" \in DOMAIN CellsPosted(s, batch) /\ CellsPosted(s, batch).policies = s.policies
  BY DEF CellsPosted, AutoReport

\* No other request touches the router's list of policies.
LEMMA TakenKeeps ==
    ASSUME NEW p, p.kind \in Kinds \ {"policy"}, "policies" \in DOMAIN stores
    PROVE  "policies" \in DOMAIN Taken(p) /\ Taken(p).policies = stores.policies
  <1>1. CASE p.kind = "hand"
    BY <1>1, IngestHandKeeps DEF Taken, HandPosted
  <1>2. CASE p.kind \in {"cells", "policyCell"}
    BY <1>2, CellsPostedKeeps DEF Taken
  <1>3. CASE p.kind \in {"register", "rebuy"}
    BY <1>3 DEF Taken, ApexRegistered, RebuyPosted
  <1>4. CASE p.kind \in {"settlement", "matchup", "cheat", "count"}
    BY <1>4 DEF Taken, SettlementPosted, MatchupPosted, CheatPosted, TxCountHeard
  <1> QED BY <1>1, <1>2, <1>3, <1>4 DEF Kinds
-------------------------------------------------------------------------------
(* The agents' own steps. *)

\* Steps that leave the minds and the stores alone and send nothing about policies.
LEMMA QuietKeeps ==
    ASSUME HuntInv, UNCHANGED <<minds, stores, setting>>,
           \A p \in posts' : p \in posts \/ p.kind \in Kinds \ {"policy", "policyCell"}
    PROVE  HuntInv'
  BY OthersKeep DEF HuntInv, HuntTypeOK

\* Starting and stopping a shadow loop.
LEMMA RunningKeeps ==
    ASSUME HuntInv, UNCHANGED <<stores, setting>>,
           \A p \in posts' : p \in posts \/ p.kind \in Kinds \ {"policy", "policyCell"},
           NEW a \in Apexes, NEW on \in BOOLEAN, minds' = [minds EXCEPT ![a].running = on]
    PROVE  HuntInv'
  <1>1. minds \in [Apexes -> Mind] /\ minds[a] \in Mind
    BY DEF HuntInv, HuntTypeOK
  <1>2. PICK m : m = [minds[a] EXCEPT !.running = on]
    OBVIOUS
  <1>3. m \in Mind /\ m.version = minds[a].version /\ m.logged = minds[a].logged /\ m.basis = minds[a].basis
        /\ m.good = minds[a].good /\ m.pc = minds[a].pc
    BY <1>1, <1>2 DEF Mind
  <1>4. minds' = [minds EXCEPT ![a] = m]
    BY <1>2
  <1>5. /\ minds' \in [Apexes -> Mind]
        /\ \A b \in Apexes : minds'[b] = IF b = a THEN m ELSE minds[b]
    BY <1>1, <1>3, <1>4
  <1>6. "policies" \in DOMAIN stores
    BY DEF HuntInv, HuntTypeOK
  <1> QED BY <1>3, <1>5, <1>6, OthersKeep

LEMMA FloorKeeps ==
    ASSUME HuntInv, NEW t, FloorPlays(t)
    PROVE  HuntInv'
  <1>1. UNCHANGED <<minds, posts, setting>>
    BY DEF FloorPlays
  <1>2. "policies" \in DOMAIN stores' /\ stores'.policies = stores.policies
    BY IngestHandKeeps DEF FloorPlays, HandHeard, HuntInv, HuntTypeOK
  <1> QED BY <1>1, <1>2, OthersKeep DEF HuntInv, HuntTypeOK

LEMMA RegisterKeeps ==
    ASSUME HuntInv, NEW a \in Hunters, Register(a)
    PROVE  HuntInv'
  <1>1. UNCHANGED <<stores, setting>>
    BY DEF Register
  <1>2. posts' = posts \union {Request("register", a, 0)}
    BY DEF Register
  <1>3. \A p \in posts' : p \in posts \/ p.kind \in Kinds \ {"policy", "policyCell"}
    BY <1>2 DEF Request, Kinds
  <1>4. minds' = minds \/ (a \in Apexes /\ minds' = [minds EXCEPT ![a].running = TRUE])
    BY DEF Register
  <1>5. CASE minds' = minds
    BY <1>1, <1>3, <1>5, QuietKeeps
  <1>6. CASE a \in Apexes /\ minds' = [minds EXCEPT ![a].running = TRUE]
    BY <1>1, <1>3, <1>6, RunningKeeps
  <1> QED BY <1>4, <1>5, <1>6

LEMMA FinishKeeps ==
    ASSUME HuntInv, NEW a \in Hunters, Finish(a)
    PROVE  HuntInv'
  <1>1. UNCHANGED <<stores, setting>>
    BY DEF Finish
  <1>2. posts' = posts \/ posts' = posts \union {Request("count", a, 5 * hunters[a].total)}
    BY DEF Finish
  <1>3. \A p \in posts' : p \in posts \/ p.kind \in Kinds \ {"policy", "policyCell"}
    BY <1>2 DEF Request, Kinds
  <1>4. minds' = minds \/ (a \in Apexes /\ minds' = [minds EXCEPT ![a].running = FALSE])
    BY DEF Finish, Hunters
  <1>5. CASE minds' = minds
    BY <1>1, <1>3, <1>5, QuietKeeps
  <1>6. CASE a \in Apexes /\ minds' = [minds EXCEPT ![a].running = FALSE]
    BY <1>1, <1>3, <1>6, RunningKeeps
  <1> QED BY <1>4, <1>5, <1>6

LEMMA RoamKeeps ==
    ASSUME HuntInv, NEW a \in Hunters,
           \/ SitDown(a) \/ onRebuy(a) \/ onHandComplete(a) \/ emitCheatCell(a) \/ Leave(a)
           \/ AskForOthers(a) \/ Compare(a) \/ Compared(a) \/ Exit(a)
    PROVE  HuntInv'
  <1>2. CASE SitDown(a) \/ AskForOthers(a) \/ Compared(a)
    BY <1>2, QuietKeeps DEF SitDown, AskForOthers, Compared, netVars
  <1>3. CASE onRebuy(a) \/ Leave(a)
    <2>1. \A p \in posts' : p \in posts \/ p.kind \in {"rebuy", "settlement"}
      BY <1>3 DEF onRebuy, Leave, Request
    <2>2. UNCHANGED <<minds, stores, setting>>
      BY <1>3 DEF onRebuy, Leave
    <2> QED BY <2>1, <2>2, QuietKeeps DEF Kinds
  <1>4. CASE onHandComplete(a)
    <2>1. \A p \in posts' : p \in posts \/ p.kind \in {"hand", "cells"}
      <3>1. PICK hand, cells : posts' = posts \union {Request("hand", a, hand)} \union CellReports(a, hand, cells)
        BY <1>4 DEF onHandComplete
      <3>2. \A kind, b, body : Request(kind, b, body).kind = kind
        BY DEF Request
      <3>3. \A p \in CellReports(a, hand, cells) : p.kind = "cells"
        BY <3>2 DEF CellReports
      <3> QED BY <3>1, <3>2, <3>3
    <2>2. UNCHANGED <<minds, stores, setting>>
      BY <1>4 DEF onHandComplete
    <2> QED BY <2>1, <2>2, QuietKeeps DEF Kinds
  <1>5. CASE emitCheatCell(a)
    <2>1. /\ posts' = posts \union {Request("cheat", a, hunters[a].roams), Request("cells", a, {<<"cheat", hunters[a].roams>>})}
          /\ UNCHANGED <<minds, stores, setting>>
      BY <1>5 DEF emitCheatCell
    <2> QED BY <2>1, QuietKeeps DEF Request, Kinds
  <1>6. CASE Compare(a)
    <2>1. PICK body : posts' = posts \union {Request("matchup", a, body)}
      BY <1>6 DEF Compare
    <2>2. UNCHANGED <<minds, stores, setting>>
      BY <1>6 DEF Compare
    <2> QED BY <2>1, <2>2, QuietKeeps DEF Request, Kinds
  <1>7. CASE Exit(a)
    <2>1. posts' \subseteq posts /\ UNCHANGED <<minds, stores, setting>>
      BY <1>7 DEF Exit
    <2> QED BY <2>1, QuietKeeps
  <1> QED BY <1>2, <1>3, <1>4, <1>5, <1>6, <1>7
-------------------------------------------------------------------------------
(* The shadow loop's steps. *)

LEMMA ThinkKeeps ==
    ASSUME HuntInv, UNCHANGED <<posts, stores, setting>>,
           NEW a \in Apexes, NEW m \in Mind, minds' = [minds EXCEPT ![a] = m],
           minds[a].pc # "logging", m.pc # "logging",
           m.version = minds[a].version, m.logged = minds[a].logged, m.good = minds[a].good,
           m.pc = "prompting" => m.basis = m.version
    PROVE  HuntInv'
  <1>1. minds \in [Apexes -> Mind] /\ Apexes' = Apexes
    BY DEF HuntInv, HuntTypeOK, Apexes
  <1>2. minds' \in [Apexes -> Mind] /\ \A b \in Apexes : minds'[b] = IF b = a THEN m ELSE minds[b]
    BY <1>1
  <1>3. HuntTypeOK'
    BY <1>1, <1>2 DEF HuntInv, HuntTypeOK, Cell
  <1>4. MindsAgree'
    BY <1>1, <1>2 DEF HuntInv, MindsAgree
  <1>5. OneOnItsWay'
    <2>1. \A p \in posts : p.kind \in {"policy", "policyCell"} => p.from \in Apexes /\ p.from # a
      BY DEF HuntInv, OneOnItsWay
    <2>2. \A p \in posts' : p.kind = "policy" =>
             p.from \in Apexes /\ minds'[p.from].pc = "logging" /\ p = PolicyRequest(p.from)'
      BY <1>2, <2>1 DEF HuntInv, OneOnItsWay, PolicyRequest, Request
    <2> QED BY <1>1, <1>2, <2>1, <2>2 DEF HuntInv, OneOnItsWay
  <1>6. ListedEarlier'
    <2>1. \A j \in DOMAIN stores.policies : stores.policies[j] \in Cell
      BY DEF HuntInv, HuntTypeOK
    <2>2. \A b \in Apexes : minds'[b].version = minds[b].version
      BY <1>2
    <2> QED BY <2>1, <2>2 DEF HuntInv, ListedEarlier, Cell
  <1>7. ListInOrder'
    BY DEF HuntInv, ListInOrder
  <1> QED BY <1>3, <1>4, <1>5, <1>6, <1>7 DEF HuntInv

LEMMA PonderKeeps ==
    ASSUME HuntInv, NEW a \in Apexes, Ponder(a)
    PROVE  HuntInv'
  <1>1. minds[a] \in Mind
    BY DEF HuntInv, HuntTypeOK
  <1>2. PICK m : m = [minds[a] EXCEPT !.pc = "prompting", !.basis = minds[a].version, !.cycles = @ + 1]
    OBVIOUS
  <1>3. minds' = [minds EXCEPT ![a] = m] /\ UNCHANGED <<posts, stores, setting>> /\ minds[a].pc = "resting"
    BY <1>2 DEF Ponder, netVars
  <1>4. /\ m \in Mind /\ m.pc = "prompting" /\ m.basis = m.version
        /\ m.version = minds[a].version /\ m.logged = minds[a].logged /\ m.good = minds[a].good
    <2>1. PICK n \in Nat : n = minds[a].cycles + 1
      BY <1>1 DEF Mind
    <2>2. m = [minds[a] EXCEPT !.pc = "prompting", !.basis = minds[a].version, !.cycles = n]
      BY <1>2, <2>1
    <2> QED BY <1>1, <2>2 DEF Mind
  <1> QED BY <1>3, <1>4, ThinkKeeps

LEMMA StumbleKeeps ==
    ASSUME HuntInv, NEW a \in Apexes, Stumble(a)
    PROVE  HuntInv'
  <1> DEFINE errors == minds[a].errors + 1
  <1>1. minds[a] \in Mind /\ minds[a].good = minds[a].version
    BY DEF HuntInv, HuntTypeOK, MindsAgree, Stumble
  <1>2. PICK m : m = [minds[a] EXCEPT !.pc = "resting", !.errors = errors % MaxErrors,
                                     !.version = IF errors >= MaxErrors THEN minds[a].good ELSE @]
    OBVIOUS
  <1>3. minds' = [minds EXCEPT ![a] = m] /\ UNCHANGED <<posts, stores, setting>> /\ minds[a].pc = "prompting"
    BY <1>2 DEF Stumble, netVars
  <1>4. errors % MaxErrors \in Nat
    <2>1. MaxErrors \in Nat \ {0}
      BY HuntAssumption DEF HuntAssumption
    <2>2. errors \in Nat
      BY <1>1 DEF Mind
    <2> QED BY <2>1, <2>2
  <1>5. /\ m \in Mind /\ m.pc = "resting"
        /\ m.version = minds[a].version /\ m.logged = minds[a].logged /\ m.good = minds[a].good
    BY <1>1, <1>2, <1>4 DEF Mind
  <1> QED BY <1>3, <1>5, ThinkKeeps

LEMMA HotSwapKeeps ==
    ASSUME HuntInv, NEW a \in Apexes, HotSwap(a)
    PROVE  HuntInv'
  <1> DEFINE version == minds[a].basis + 1
  <1>1. /\ minds \in [Apexes -> Mind] /\ minds[a] \in Mind /\ minds[a].pc = "prompting" /\ Apexes' = Apexes
        /\ minds[a].basis = minds[a].version /\ minds[a].logged = minds[a].version
    BY DEF HuntInv, HuntTypeOK, MindsAgree, HotSwap, Apexes
  <1>2. PICK m : m = [minds[a] EXCEPT !.pc = "logging", !.version = version, !.logged = version]
    OBVIOUS
  <1>3. /\ minds' = [minds EXCEPT ![a] = m] /\ UNCHANGED <<stores, setting>>
        /\ posts' = posts \union {Request("policy", a, [botId |-> a, version |-> version, prev |-> minds[a].logged])}
    BY <1>2 DEF HotSwap
  <1>4. m \in Mind /\ m.pc = "logging" /\ m.version = minds[a].version + 1 /\ m.logged = m.version
    <2>1. PICK n \in Nat : n = version
      BY <1>1 DEF Mind
    <2>2. m = [minds[a] EXCEPT !.pc = "logging", !.version = n, !.logged = n]
      BY <1>2, <2>1
    <2>3. m \in Mind /\ m.pc = "logging" /\ m.version = n /\ m.logged = n
      BY <1>1, <2>2 DEF Mind
    <2> QED BY <1>1, <2>1, <2>3
  <1>5. minds' \in [Apexes -> Mind] /\ \A b \in Apexes : minds'[b] = IF b = a THEN m ELSE minds[b]
    BY <1>1, <1>3, <1>4
  <1>6. posts' = posts \union {PolicyRequest(a)'}
    <2>1. minds'[a].version = version /\ minds'[a].version - 1 = minds[a].logged
      BY <1>1, <1>4, <1>5 DEF Mind
    <2> QED BY <1>3, <2>1 DEF PolicyRequest
  <1>7. PolicyRequest(a)'.kind = "policy" /\ PolicyRequest(a)'.from = a
    BY DEF PolicyRequest, Request
  <1>8. \A p \in posts : p.kind \in {"policy", "policyCell"} => p.from \in Apexes /\ p.from # a
    BY <1>1 DEF HuntInv, OneOnItsWay
  <1>9. HuntTypeOK'
    BY <1>1, <1>3, <1>5, <1>6, <1>7 DEF HuntInv, HuntTypeOK, Cell, Kinds
  <1>10. MindsAgree'
    BY <1>1, <1>4, <1>5 DEF HuntInv, MindsAgree
  <1>11. OneOnItsWay'
    <2>1. \A p \in posts : p.kind = "policy" => minds'[p.from].pc = "logging" /\ p = PolicyRequest(p.from)'
      BY <1>5, <1>8 DEF HuntInv, OneOnItsWay, PolicyRequest, Request
    <2> HIDE DEF PolicyRequest
    <2>2. \A p \in posts' : p.kind = "policy" =>
             p.from \in Apexes /\ minds'[p.from].pc = "logging" /\ p = PolicyRequest(p.from)'
      BY <1>4, <1>5, <1>6, <1>7, <1>8, <2>1
    <2>3. \A p \in posts' : p.kind = "policyCell" => p \in posts
      BY <1>6, <1>7
    <2> QED BY <1>1, <1>5, <1>6, <1>7, <1>8, <2>2, <2>3 DEF HuntInv, OneOnItsWay
  <1>12. ListedEarlier'
    <2>1. \A j \in DOMAIN stores.policies :
             /\ stores.policies[j].botId \in Apexes /\ stores.policies[j].version \in Nat
             /\ stores.policies[j].version <= minds[stores.policies[j].botId].version
      <3>1. \A j \in DOMAIN stores.policies : stores.policies[j] \in Cell
        BY DEF HuntInv, HuntTypeOK
      <3> QED BY <3>1 DEF Cell, HuntInv, ListedEarlier
    <2>2. minds[a].version \in Nat
      BY <1>1 DEF Mind
    <2>3. \A j \in DOMAIN stores.policies : stores.policies[j].botId = a =>
             stores.policies[j].version < minds'[a].version
      BY <1>4, <1>5, <2>1, <2>2
    <2>4. \A p \in posts' : p.kind = "policy" /\ p.from # a => p \in posts
      BY <1>6, <1>7
    <2>5. \A b \in Apexes : b # a => minds'[b] = minds[b]
      BY <1>5
    <2> SUFFICES ASSUME NEW j \in DOMAIN stores.policies
                 PROVE  /\ stores.policies[j].version <= minds'[stores.policies[j].botId].version
                        /\ \A p \in posts' : p.kind = "policy" /\ p.from = stores.policies[j].botId
                               => stores.policies[j].version < minds'[stores.policies[j].botId].version
      BY <1>3 DEF ListedEarlier
    <2>6. CASE stores.policies[j].botId = a
      <3>1. minds'[a].version \in Nat
        BY <1>1, <1>5, <1>4 DEF Mind
      <3> QED BY <2>1, <2>3, <2>6, <3>1
    <2>7. CASE stores.policies[j].botId # a
      BY <2>1, <2>4, <2>5, <2>7 DEF HuntInv, ListedEarlier
    <2> QED BY <2>6, <2>7
  <1>13. ListInOrder'
    BY <1>3 DEF HuntInv, ListInOrder
  <1> QED BY <1>9, <1>10, <1>11, <1>12, <1>13 DEF HuntInv
-------------------------------------------------------------------------------
(* Requests answered or lost. *)

LEMMA OtherResolved ==
    ASSUME HuntInv, UNCHANGED setting, NEW p \in posts, NEW answered, Resolve(p, answered),
           p.kind \notin {"policy", "policyCell"},
           "policies" \in DOMAIN stores', stores'.policies = stores.policies
    PROVE  HuntInv'
  <1>1. UNCHANGED minds /\ posts' \subseteq posts
    BY DEF Resolve, Logged, Following
  <1> QED BY <1>1, OthersKeep DEF HuntInv, HuntTypeOK

\* Its cell follows a policy; whether or not the router has the policy, it comes after all those it had.
LEMMA PolicyResolved ==
    ASSUME HuntInv, UNCHANGED setting, NEW p \in posts, NEW answered, Resolve(p, answered), p.kind = "policy",
           "policies" \in DOMAIN stores',
           stores'.policies = stores.policies \/ stores'.policies = Append(stores.policies, p.body)
    PROVE  HuntInv'
  <1> DEFINE a == p.from
             cellPost == Request("policyCell", a, {<<"policy", a, p.body.version>>})
  <1>1. /\ a \in Apexes /\ Apexes' = Apexes /\ minds[a].pc = "logging" /\ p = PolicyRequest(a) /\ UNCHANGED minds
        /\ minds \in [Apexes -> Mind] /\ minds[a] \in Mind
    BY DEF HuntInv, HuntTypeOK, OneOnItsWay, Apexes, Resolve, Logged
  <1>2. posts' = posts \ {p} \/ posts' = (posts \ {p}) \union {cellPost}
    BY DEF Resolve, Following
  <1>3. cellPost.kind = "policyCell" /\ cellPost.from = a
    BY DEF Request
  <1> HIDE DEF cellPost
  <1>4. p.body \in Cell /\ p.body.version = minds[a].version /\ p.body.prev = p.body.version - 1 /\ p.body.botId = a
    <2>1. p.body = [botId |-> a, version |-> minds[a].version, prev |-> minds[a].version - 1]
      BY <1>1 DEF PolicyRequest, Request
    <2>2. minds[a].version \in Nat
      BY <1>1 DEF Mind
    <2> QED BY <1>1, <2>1, <2>2 DEF Cell
  <1>5. \A q \in posts : q.from = a /\ q.kind \in {"policy", "policyCell"} => q = p
    BY <1>1 DEF HuntInv, OneOnItsWay
  <1>6. stores.policies \in Seq(Cell) /\ Cell' = Cell
    BY <1>1 DEF HuntInv, HuntTypeOK, Cell
  <1>7. HuntTypeOK'
    BY <1>1, <1>2, <1>3, <1>4, <1>6 DEF HuntInv, HuntTypeOK, Kinds
  <1>8. MindsAgree'
    BY <1>1 DEF HuntInv, MindsAgree
  <1>9. OneOnItsWay'
    <2>1. \A q \in posts' : q.kind = "policy" => q \in posts /\ q.from # a
      BY <1>2, <1>3, <1>5
    <2>2. \A q \in posts' : q.kind = "policyCell" => q = cellPost \/ (q \in posts /\ q.from # a)
      BY <1>2, <1>5
    <2>3. \A q \in posts' : q.kind = "policy" =>
             q.from \in Apexes /\ minds'[q.from].pc = "logging" /\ q = PolicyRequest(q.from)'
      BY <1>1, <2>1 DEF HuntInv, OneOnItsWay, PolicyRequest, Request
    <2> QED BY <1>1, <1>3, <2>1, <2>2, <2>3 DEF HuntInv, OneOnItsWay
  <1>10. \A j \in DOMAIN stores.policies :
            /\ stores.policies[j] \in Cell
            /\ stores.policies[j].version <= minds[stores.policies[j].botId].version
            /\ stores.policies[j].botId = a => stores.policies[j].version < minds[a].version
    BY <1>1, <1>6 DEF HuntInv, ListedEarlier
  <1>11. \A j \in DOMAIN stores'.policies :
            \/ j \in DOMAIN stores.policies /\ stores'.policies[j] = stores.policies[j]
            \/ j = Len(stores.policies) + 1 /\ stores'.policies[j] = p.body
    BY <1>4, <1>6
  <1>12. ListedEarlier'
    <2>1. \A q \in posts' : q.kind = "policy" => q \in posts /\ q.from # a
      BY <1>2, <1>3, <1>5
    <2>2. minds[a].version \in Nat
      BY <1>1 DEF Mind
    <2> SUFFICES ASSUME NEW j \in DOMAIN stores'.policies
                 PROVE  /\ stores'.policies[j].version <= minds[stores'.policies[j].botId].version
                        /\ \A q \in posts' : q.kind = "policy" /\ q.from = stores'.policies[j].botId
                               => stores'.policies[j].version < minds[stores'.policies[j].botId].version
      BY <1>1 DEF ListedEarlier
    <2>3. CASE j \in DOMAIN stores.policies /\ stores'.policies[j] = stores.policies[j]
      BY <2>1, <2>3 DEF HuntInv, ListedEarlier
    <2>4. CASE stores'.policies[j] = p.body
      BY <1>4, <2>1, <2>2, <2>4
    <2> QED BY <1>11, <2>3, <2>4
  <1>13. ListInOrder'
    <2> SUFFICES ASSUME NEW j \in DOMAIN stores'.policies
                 PROVE  /\ stores'.policies[j].prev = stores'.policies[j].version - 1
                        /\ \A i \in 1..(j - 1) : stores'.policies[i].botId = stores'.policies[j].botId
                               => stores'.policies[i].version < stores'.policies[j].version
      BY DEF ListInOrder
    <2>1. \A i \in 1..(j - 1) : i \in DOMAIN stores.policies /\ stores'.policies[i] = stores.policies[i]
      <3>1. DOMAIN stores.policies = 1..Len(stores.policies) /\ Len(stores.policies) \in Nat
        BY <1>6
      <3>2. j \in 1..Len(stores.policies) \/ j = Len(stores.policies) + 1
        BY <1>11, <3>1
      <3>3. \A i \in 1..(j - 1) : i \in 1..Len(stores.policies)
        BY <3>1, <3>2
      <3>4. \A i \in 1..Len(stores.policies) : stores'.policies[i] = stores.policies[i]
        BY <1>4, <1>6
      <3> QED BY <3>1, <3>3, <3>4
    <2>2. CASE j \in DOMAIN stores.policies /\ stores'.policies[j] = stores.policies[j]
      BY <2>1, <2>2 DEF HuntInv, ListInOrder
    <2>3. CASE stores'.policies[j] = p.body
      BY <1>4, <1>10, <2>1, <2>3
    <2> QED BY <1>11, <2>2, <2>3
  <1> QED BY <1>7, <1>8, <1>9, <1>12, <1>13 DEF HuntInv

\* Logged, the policy is one to fall back on, and nothing of the apex is on its way.
LEMMA CellResolved ==
    ASSUME HuntInv, UNCHANGED setting, NEW p \in posts, NEW answered, Resolve(p, answered), p.kind = "policyCell",
           "policies" \in DOMAIN stores', stores'.policies = stores.policies
    PROVE  HuntInv'
  <1> DEFINE a == p.from
  <1>1. /\ a \in Apexes /\ Apexes' = Apexes /\ posts' = posts \ {p}
        /\ minds \in [Apexes -> Mind] /\ minds[a] \in Mind
    BY DEF HuntInv, HuntTypeOK, OneOnItsWay, Apexes, Resolve, Following
  <1>2. PICK m : m = Proven(minds[a])
    OBVIOUS
  <1>3. /\ m \in Mind /\ m.pc = "resting" /\ m.version = minds[a].version /\ m.logged = minds[a].logged
        /\ m.good = m.version
    BY <1>1, <1>2 DEF Proven, Mind
  <1>4. minds' = minds \/ minds' = [minds EXCEPT ![a] = m]
    BY <1>2 DEF Resolve, Logged
  <1>5. \A q \in posts' : q.kind \in {"policy", "policyCell"} => q \in posts /\ q.from \in Apexes /\ q.from # a
    BY <1>1 DEF HuntInv, OneOnItsWay
  <1>6. /\ minds' \in [Apexes -> Mind] /\ \A b \in Apexes : b # a => minds'[b] = minds[b]
        /\ \A b \in Apexes : minds'[b].version = minds[b].version /\ minds'[b].logged = minds[b].logged
    BY <1>1, <1>3, <1>4
  <1>7. minds'[a] = minds[a] \/ minds'[a] = m
    BY <1>1, <1>4
  <1>8. HuntTypeOK'
    BY <1>1, <1>6 DEF HuntInv, HuntTypeOK, Cell
  <1>9. MindsAgree'
    BY <1>1, <1>3, <1>6, <1>7 DEF HuntInv, MindsAgree
  <1>10. OneOnItsWay'
    <2>1. \A q \in posts' : q.kind = "policy" =>
             q.from \in Apexes /\ minds'[q.from].pc = "logging" /\ q = PolicyRequest(q.from)'
      BY <1>5, <1>6 DEF HuntInv, OneOnItsWay, PolicyRequest, Request
    <2> QED BY <1>1, <1>5, <1>6, <2>1 DEF HuntInv, OneOnItsWay
  <1>11. ListedEarlier'
    <2>1. \A j \in DOMAIN stores.policies : stores.policies[j] \in Cell
      BY DEF HuntInv, HuntTypeOK
    <2> QED BY <1>1, <1>6, <2>1 DEF HuntInv, ListedEarlier, Cell
  <1>12. ListInOrder'
    BY DEF HuntInv, ListInOrder
  <1> QED BY <1>8, <1>9, <1>10, <1>11, <1>12 DEF HuntInv

LEMMA RequestKeeps ==
    ASSUME HuntInv, NEW p \in posts, Arrive(p) \/ Fail(p)
    PROVE  HuntInv'
  <1>1. UNCHANGED setting /\ \E answered \in BOOLEAN : Resolve(p, answered)
    BY DEF Arrive, Fail
  <1>2. p.kind \in Kinds /\ "policies" \in DOMAIN stores
    BY DEF HuntInv, HuntTypeOK
  <1>3. stores' = stores \/ stores' = Taken(p)
    BY DEF Arrive, Fail
  <1>4. CASE p.kind = "policy"
    <2>1. Taken(p) = PolicyPosted(stores, p.body)
      BY <1>4 DEF Taken
    <2>2. "policies" \in DOMAIN Taken(p) /\ Taken(p).policies = Append(stores.policies, p.body)
      BY <1>2, <2>1 DEF PolicyPosted
    <2> QED BY <1>1, <1>2, <1>3, <1>4, <2>2, PolicyResolved
  <1>5. CASE p.kind # "policy"
    <2>1. "policies" \in DOMAIN stores' /\ stores'.policies = stores.policies
      BY <1>2, <1>3, <1>5, TakenKeeps
    <2> QED BY <1>1, <1>5, <2>1, CellResolved, OtherResolved
  <1> QED BY <1>4, <1>5

LEMMA HuntStep == HuntInv /\ [Next]_vars => HuntInv'
  <1> SUFFICES ASSUME HuntInv, [Next]_vars PROVE HuntInv'
    OBVIOUS
  <1>1. ASSUME NEW t \in Tables, FloorPlays(t) PROVE HuntInv'
    BY <1>1, FloorKeeps
  <1>2. ASSUME NEW a \in Hunters, Register(a) \/ Finish(a) PROVE HuntInv'
    BY <1>2, RegisterKeeps, FinishKeeps
  <1>3. ASSUME NEW a \in Hunters,
               \/ SitDown(a) \/ onRebuy(a) \/ onHandComplete(a) \/ emitCheatCell(a) \/ Leave(a)
               \/ AskForOthers(a) \/ Compare(a) \/ Compared(a) \/ Exit(a)
        PROVE  HuntInv'
    BY <1>3, RoamKeeps
  <1>4. ASSUME NEW a \in Apexes, Ponder(a) \/ HotSwap(a) \/ Stumble(a) PROVE HuntInv'
    BY <1>4, PonderKeeps, HotSwapKeeps, StumbleKeeps
  <1>5. ASSUME NEW p \in posts, Arrive(p) \/ Fail(p) PROVE HuntInv'
    BY <1>5, RequestKeeps
  <1>6. CASE ReportGenerated
    <2>1. UNCHANGED <<minds, posts, setting>> /\ stores' = [stores EXCEPT !.reporting = FALSE]
      BY <1>6 DEF ReportGenerated
    <2>2. "policies" \in DOMAIN stores' /\ stores'.policies = stores.policies
      BY <2>1 DEF HuntInv, HuntTypeOK
    <2> QED BY <2>1, <2>2, OthersKeep DEF HuntInv, HuntTypeOK
  <1>7. CASE UNCHANGED vars
    BY <1>7, QuietKeeps DEF vars, netVars
  <1> QED BY <1>1, <1>2, <1>3, <1>4, <1>5, <1>6, <1>7 DEF Next

\* What the hot-swapper of an apex holds is the head of its evolution chain, whatever errors brought back, and
\* the router lists the versions of each agent one after the other, whichever requests are lost or cut off
\* (HotSwap, Stumble and Resolve stand for policy-hot-swap.ts, policy-evolution-chain.ts and shadow-loop.ts).
THEOREM PoliciesMakeALine == Spec => []PolicyLineage
  <1>1. HuntInv => PolicyLineage
    BY DEF HuntInv, MindsAgree, ListInOrder, PolicyLineage
  <1> QED BY <1>1, HuntInit, HuntStep, PTL DEF Spec
-------------------------------------------------------------------------------
(* What the settlements of a set add up to. *)

LEMMA NatWF == IsWellFoundedOn({ss \in Nat \X Nat : ss[1] < ss[2]}, Nat)
  BY NatLessThanWellFounded DEF OpToRel

\* A set of naturals that holds 0 and with every number the next holds all of them.
LEMMA NatSetInduction ==
    ASSUME NEW T \in SUBSET Nat, 0 \in T, \A n \in T : n + 1 \in T
    PROVE  T = Nat
  <1> DEFINE R == {ss \in Nat \X Nat : ss[1] < ss[2]}
  <1> SUFFICES ASSUME Nat \ T # {} PROVE FALSE
    OBVIOUS
  <1>1. PICK x \in Nat \ T : \A y \in Nat \ T : ~(<<y, x>> \in R)
    <2>1. IsWellFoundedOn(R, Nat)
      BY NatWF
    <2> HIDE DEF R
    <2> QED BY <2>1, WFMin
  <1>2. \A y \in Nat \ T : ~(y < x)
    BY <1>1
  <1> HIDE DEF R
  <1>3. x - 1 \in Nat /\ x - 1 \notin Nat \ T
    BY <1>2
  <1> QED BY <1>3

Rebuys(S) == MapThenSumSet(LAMBDA s : s.rebuys, S)

\* One unit for every rebuy of a settlement: the sum is how many there are.
UnitsOf(e) == {<<e, n>> : n \in 1..e.rebuys}
Units(S) == UNION {UnitsOf(e) : e \in S}

LEMMA UnitsOfOne ==
    ASSUME NEW e, e.rebuys \in Nat
    PROVE  IsFiniteSet(UnitsOf(e)) /\ Cardinality(UnitsOf(e)) = e.rebuys
  <1> DEFINE f == [n \in 1..e.rebuys |-> <<e, n>>]
  <1>1. f \in Bijection(1..e.rebuys, UnitsOf(e))
    BY DEF Bijection, Injection, Surjection, IsInjective, UnitsOf
  <1>2. ExistsBijection(1..e.rebuys, UnitsOf(e))
    BY <1>1 DEF ExistsBijection
  <1>3. IsFiniteSet(1..e.rebuys) /\ Cardinality(1..e.rebuys) = e.rebuys
    BY FS_Interval
  <1> QED BY <1>2, <1>3, FS_Bijection

LEMMA UnitsFinite ==
    ASSUME NEW S, IsFiniteSet(S), \A e \in S : e.rebuys \in Nat
    PROVE  IsFiniteSet(Units(S)) /\ Cardinality(Units(S)) \in Nat
  <1> DEFINE parts == {UnitsOf(e) : e \in S}
             f == [e \in S |-> UnitsOf(e)]
  <1>1. f \in Surjection(S, parts)
    BY DEF Surjection
  <1>2. IsFiniteSet(parts)
    BY <1>1, FS_Surjection
  <1>3. \A part \in parts : IsFiniteSet(part)
    BY UnitsOfOne
  <1> HIDE DEF parts
  <1>4. IsFiniteSet(UNION parts)
    BY <1>2, <1>3, FS_UNION
  <1> QED BY <1>4, FS_CardinalityType DEF Units, parts

\* Any member can be set apart.
LEMMA UnitsApart ==
    ASSUME NEW S, IsFiniteSet(S), \A e \in S : e.rebuys \in Nat, NEW x \in S
    PROVE  Cardinality(Units(S)) = x.rebuys + Cardinality(Units(S \ {x}))
  <1>1. Units(S) = UnitsOf(x) \union Units(S \ {x})
    BY DEF Units
  <1>2. UnitsOf(x) \intersect Units(S \ {x}) = {}
    BY DEF Units, UnitsOf
  <1>3. IsFiniteSet(UnitsOf(x)) /\ Cardinality(UnitsOf(x)) = x.rebuys
    BY UnitsOfOne
  <1>4. IsFiniteSet(Units(S \ {x})) /\ Cardinality(Units(S \ {x})) \in Nat
    BY UnitsFinite, FS_Subset
  <1>5. Cardinality({}) = 0
    BY FS_EmptySet
  <1>6. Cardinality(UnitsOf(x) \union Units(S \ {x})) =
           Cardinality(UnitsOf(x)) + Cardinality(Units(S \ {x})) - Cardinality(UnitsOf(x) \intersect Units(S \ {x}))
    BY <1>3, <1>4, FS_Union
  <1>7. Cardinality(UnitsOf(x) \intersect Units(S \ {x})) = 0
    BY <1>2, <1>5
  <1>8. Cardinality(Units(S)) = Cardinality(UnitsOf(x)) + Cardinality(Units(S \ {x})) - 0
    BY <1>1, <1>6, <1>7
  <1>9. x.rebuys \in Nat
    OBVIOUS
  <1> QED BY <1>3, <1>4, <1>8, <1>9

Summing(f, s) == IF s = {} THEN 0 ELSE LET x == CHOOSE x \in s : TRUE IN x.rebuys + f[s \ {x}]

\* The recursive function inside MapThenSumSet exists, and is the only one of its kind.
LEMMA RebuysCounted ==
    ASSUME NEW S, IsFiniteSet(S), \A e \in S : e.rebuys \in Nat
    PROVE  Rebuys(S) = Cardinality(Units(S))
  <1> DEFINE g == [s \in SUBSET S |-> Cardinality(Units(s))]
             f == CHOOSE f : f = [s \in SUBSET S |-> Summing(f, s)]
  <1>0. Cardinality(Units({})) = 0
    BY FS_EmptySet DEF Units
  <1>1. ASSUME NEW s \in SUBSET S, s # {}
        PROVE  LET x == CHOOSE x \in s : TRUE
               IN  /\ x \in s /\ x.rebuys \in Nat
                   /\ Cardinality(Units(s)) = x.rebuys + Cardinality(Units(s \ {x}))
                   /\ IsFiniteSet(s) /\ Cardinality(s \ {x}) = Cardinality(s) - 1
    <2> DEFINE x == CHOOSE x \in s : TRUE
    <2>1. x \in s
      BY <1>1
    <2> HIDE DEF x
    <2>2. IsFiniteSet(s) /\ \A e \in s : e.rebuys \in Nat
      BY FS_Subset
    <2>3. Cardinality(Units(s)) = x.rebuys + Cardinality(Units(s \ {x}))
      BY <2>1, <2>2, UnitsApart
    <2>4. Cardinality(s \ {x}) = Cardinality(s) - 1
      BY <2>1, <2>2, FS_RemoveElement
    <2> QED BY <2>1, <2>2, <2>3, <2>4 DEF x
  <1>2. g = [s \in SUBSET S |-> Summing(g, s)]
    <2>1. ASSUME NEW s \in SUBSET S PROVE g[s] = Summing(g, s)
      <3>1. CASE s = {}
        BY <1>0, <3>1 DEF Summing
      <3>2. CASE s # {}
        <4> DEFINE x == CHOOSE x \in s : TRUE
        <4>1. x \in s /\ Cardinality(Units(s)) = x.rebuys + Cardinality(Units(s \ {x}))
          BY <1>1, <3>2
        <4>2. g[s] = Cardinality(Units(s)) /\ g[s \ {x}] = Cardinality(Units(s \ {x}))
          <5> HIDE DEF x
          <5> QED OBVIOUS
        <4> HIDE DEF g
        <4> QED BY <3>2, <4>1, <4>2 DEF Summing
      <3> QED BY <3>1, <3>2
    <2> HIDE DEF g
    <2>2. [s \in SUBSET S |-> Summing(g, s)] = [s \in SUBSET S |-> g[s]]
      BY <2>1
    <2>3. g = [s \in SUBSET S |-> g[s]]
      BY DEF g
    <2> QED BY <2>2, <2>3
  <1>3. f = [s \in SUBSET S |-> Summing(f, s)]
    <2> HIDE DEF g
    <2> QED BY <1>2
  <1>4. Rebuys(S) = f[S]
    BY DEF Rebuys, MapThenSumSet, MapThenFoldSet, Summing
  <1> HIDE DEF f, g
  <1>5. \A s \in SUBSET S : f[s] = Summing(f, s)
    BY <1>3
  <1> DEFINE T == {k \in Nat : \A s \in SUBSET S : Cardinality(s) = k => f[s] = Cardinality(Units(s))}
  <1>6. 0 \in T
    <2>1. ASSUME NEW s \in SUBSET S, Cardinality(s) = 0 PROVE f[s] = Cardinality(Units(s))
      <3>1. s = {}
        BY <2>1, FS_Subset, FS_EmptySet
      <3> QED BY <1>0, <1>5, <3>1 DEF Summing
    <2> QED BY <2>1
  <1>7. ASSUME NEW k \in T PROVE k + 1 \in T
    <2>1. k \in Nat /\ k + 1 # 0 /\ (k + 1) - 1 = k
      OBVIOUS
    <2>2. ASSUME NEW s \in SUBSET S, Cardinality(s) = k + 1 PROVE f[s] = Cardinality(Units(s))
      <3>1. s # {}
        BY <2>1, <2>2, FS_EmptySet
      <3> DEFINE x == CHOOSE x \in s : TRUE
      <3>2. /\ x \in s /\ Cardinality(Units(s)) = x.rebuys + Cardinality(Units(s \ {x}))
            /\ Cardinality(s \ {x}) = k
        BY <1>1, <2>1, <2>2, <3>1
      <3>3. f[s \ {x}] = Cardinality(Units(s \ {x}))
        <4> HIDE DEF x
        <4> QED BY <1>7, <3>2
      <3>4. f[s] = x.rebuys + f[s \ {x}]
        BY <1>5, <3>1 DEF Summing
      <3> QED BY <3>2, <3>3, <3>4
    <2> QED BY <2>1, <2>2
  <1>8. T = Nat
    <2> HIDE DEF T
    <2>1. T \in SUBSET Nat
      BY DEF T
    <2> QED BY <1>6, <1>7, <2>1, NatSetInduction
  <1>9. Cardinality(S) \in Nat
    BY FS_CardinalityType
  <1> QED BY <1>4, <1>8, <1>9

\* A settlement more.
LEMMA RebuysGrow ==
    ASSUME NEW S, IsFiniteSet(S), \A e \in S : e.rebuys \in Nat, NEW x, x \notin S, x.rebuys \in Nat
    PROVE  Rebuys(S) \in Nat /\ Rebuys(S \union {x}) = x.rebuys + Rebuys(S)
  <1> DEFINE R == S \union {x}
  <1>1. IsFiniteSet(R) /\ x \in R /\ R \ {x} = S /\ \A e \in R : e.rebuys \in Nat
    BY FS_AddElement
  <1>2. Cardinality(Units(S)) \in Nat
    BY UnitsFinite
  <1> HIDE DEF R
  <1>3. Cardinality(Units(R)) = x.rebuys + Cardinality(Units(S))
    BY <1>1, UnitsApart
  <1> QED BY <1>1, <1>2, <1>3, RebuysCounted DEF R
-------------------------------------------------------------------------------
(* The account of an agent: its own count, what is on its way, and what the router has been told. *)

InPlay(h) == IF h.pc = "playing" THEN h.roam.rebuys ELSE 0

\* h is the agent, `asked` its rebuys on their way, `settled` its settlements on their way or at the router,
\* `told` the router's entry.  Rebuys and settlements are numbered, so that none is the same as an earlier one.
Account(h, asked, settled, told, missing) ==
    /\ h.roams \in Nat /\ h.roam.rebuys \in Nat
    /\ IsFiniteSet(asked) /\ IsFiniteSet(settled)
    /\ told.count \in Nat /\ told.costSats = told.count * RebuyCost
    /\ \A p \in asked : /\ p.body[1] \in Nat /\ p.body[2] \in Nat /\ p.body[1] <= h.roams
                        /\ p.body[1] = h.roams => p.body[2] <= h.roam.rebuys
    /\ \A s \in settled : /\ s.rebuys \in Nat /\ s.roam \in Nat /\ s.roam <= h.roams
                          /\ h.pc = "playing" => s.roam < h.roams
    /\ missing = 0 => told.count + Cardinality(asked) = Rebuys(settled) + InPlay(h)

LEMMA AccountAway ==
    ASSUME NEW h, NEW asked, NEW settled, NEW told, NEW missing, Account(h, asked, settled, told, missing),
           NEW g, g.roams = h.roams, g.roam.rebuys = h.roam.rebuys, g.pc # "playing", h.pc # "playing"
    PROVE  Account(g, asked, settled, told, missing)
  BY DEF Account, InPlay

LEMMA AccountBusy ==
    ASSUME NEW h, NEW asked, NEW settled, NEW told, NEW missing, Account(h, asked, settled, told, missing),
           NEW g, g.roams = h.roams, g.roam.rebuys = h.roam.rebuys, g.pc = h.pc
    PROVE  Account(g, asked, settled, told, missing)
  BY DEF Account, InPlay

LEMMA AccountSits ==
    ASSUME NEW h, NEW asked, NEW settled, NEW told, NEW missing, Account(h, asked, settled, told, missing),
           h.pc # "playing", NEW g, g.roams = h.roams + 1, g.roam.rebuys = 0
    PROVE  Account(g, asked, settled, told, missing)
  BY DEF Account, InPlay

LEMMA AccountBuys ==
    ASSUME NEW h, NEW asked, NEW settled, NEW told, NEW missing, Account(h, asked, settled, told, missing),
           h.pc = "playing", NEW g, g.pc = "playing", g.roams = h.roams, g.roam.rebuys = h.roam.rebuys + 1,
           NEW p, p.body = <<h.roams, h.roam.rebuys + 1>>
    PROVE  Account(g, asked \union {p}, settled, told, missing)
  <1>1. p.body[1] = h.roams /\ p.body[2] = h.roam.rebuys + 1
    OBVIOUS
  <1>2. p \notin asked
    BY <1>1 DEF Account
  <1>3. /\ IsFiniteSet(asked \union {p}) /\ Cardinality(asked \union {p}) = Cardinality(asked) + 1
        /\ Cardinality(asked) \in Nat
    BY <1>2, FS_AddElement, FS_CardinalityType DEF Account
  <1>4. Rebuys(settled) \in Nat
    BY RebuysCounted, UnitsFinite DEF Account
  <1>5. missing = 0 => told.count + Cardinality(asked \union {p}) = Rebuys(settled) + InPlay(g)
    BY <1>3, <1>4 DEF Account, InPlay
  <1>6. \A q \in asked \union {p} : /\ q.body[1] \in Nat /\ q.body[2] \in Nat /\ q.body[1] <= g.roams
                                    /\ q.body[1] = g.roams => q.body[2] <= g.roam.rebuys
    BY <1>1 DEF Account
  <1> QED BY <1>3, <1>5, <1>6 DEF Account

LEMMA AccountSettles ==
    ASSUME NEW h, NEW asked, NEW settled, NEW told, NEW missing, Account(h, asked, settled, told, missing),
           h.pc = "playing", NEW g, g.pc # "playing", g.roams = h.roams, g.roam.rebuys = h.roam.rebuys,
           NEW s, s.roam = h.roams, s.rebuys = h.roam.rebuys
    PROVE  Account(g, asked, settled \union {s}, told, missing)
  <1>1. s \notin settled /\ s.rebuys \in Nat
    BY DEF Account
  <1>2. Rebuys(settled) \in Nat /\ Rebuys(settled \union {s}) = s.rebuys + Rebuys(settled)
    BY <1>1, RebuysGrow DEF Account
  <1>3. IsFiniteSet(settled \union {s})
    BY FS_AddElement DEF Account
  <1>4. missing = 0 => told.count + Cardinality(asked) = Rebuys(settled \union {s}) + InPlay(g)
    BY <1>1, <1>2 DEF Account, InPlay
  <1>5. \A t \in settled \union {s} : /\ t.rebuys \in Nat /\ t.roam \in Nat /\ t.roam <= g.roams
                                      /\ g.pc = "playing" => t.roam < g.roams
    BY DEF Account
  <1> QED BY <1>3, <1>4, <1>5 DEF Account

LEMMA AccountHeard ==
    ASSUME NEW h, NEW asked, NEW settled, NEW told, NEW missing, Account(h, asked, settled, told, missing),
           NEW p \in asked, NEW heard, heard.count = told.count + 1, heard.costSats = told.costSats + RebuyCost
    PROVE  Account(h, asked \ {p}, settled, heard, missing)
  <1>1. /\ IsFiniteSet(asked \ {p}) /\ Cardinality(asked \ {p}) = Cardinality(asked) - 1
        /\ Cardinality(asked) \in Nat
    BY FS_RemoveElement, FS_CardinalityType DEF Account
  <1>2. heard.costSats = heard.count * RebuyCost
    BY HuntAssumption DEF HuntAssumption, Account
  <1>3. missing = 0 => heard.count + Cardinality(asked \ {p}) = Rebuys(settled) + InPlay(h)
    BY <1>1 DEF Account
  <1> QED BY <1>1, <1>2, <1>3 DEF Account

\* Once something is missing nothing has to add up.
LEMMA AccountMissing ==
    ASSUME NEW h, NEW asked, NEW settled, NEW told, NEW missing, Account(h, asked, settled, told, missing),
           NEW asked2 \in SUBSET asked, NEW settled2 \in SUBSET settled, NEW more, more # 0
    PROVE  Account(h, asked2, settled2, told, more)
  <1>1. IsFiniteSet(asked2) /\ IsFiniteSet(settled2)
    BY FS_Subset DEF Account
  <1> QED BY <1>1 DEF Account
-------------------------------------------------------------------------------
(* The invariant. *)

AccountOf(a) == Account(hunters[a], Under("rebuy", a), Settled(a), Entry(stores.rebuys, a, NoRebuys), lost)
BooksInv == \A a \in Hunters : AccountOf(a)

Bookish == {"rebuy", "settlement"}
Waited == {"matchup", "count"}

AgentOK(h) ==
    /\ {"pc", "total", "roams", "roam", "others", "cheated"} \subseteq DOMAIN h
    /\ {"table", "hands", "played", "chips", "rebuys"} \subseteq DOMAIN h.roam

RequestsOK ==
    /\ IsFiniteSet(posts) /\ lost \in Nat
    /\ \A p \in posts : /\ p.kind \in Kinds /\ p.from \in Hunters
                        /\ p.kind = "settlement" => p.body.apexId = p.from

StoresOK ==
    /\ {"rebuys", "settlements"} \subseteq DOMAIN stores
    /\ stores.settlements \in Seq(Range(stores.settlements))

\* main waits for the answer to a report of a match, and for that to its last request.
WaitedFor ==
    /\ \A p \in posts : /\ p.kind = "matchup" => hunters[p.from].pc = "reporting"
                        /\ p.kind = "count" => hunters[p.from].pc = "finishing"
    /\ \A p, q \in posts : p.kind \in Waited /\ q.kind = p.kind /\ q.from = p.from => p = q

RebuyInv ==
    /\ DOMAIN hunters = Hunters /\ \A a \in Hunters : AgentOK(hunters[a])
    /\ RequestsOK /\ StoresOK /\ WaitedFor /\ BooksInv

AtRouter(a) == {stores.settlements[i] : i \in {j \in DOMAIN stores.settlements : stores.settlements[j].apexId = a}}

LEMMA RebuyInit == Init => RebuyInv
  <1> SUFFICES ASSUME Init PROVE RebuyInv
    OBVIOUS
  <1>1. DOMAIN hunters = Hunters /\ posts = {} /\ lost = 0
    BY DEF Init
  <1>2. ASSUME NEW a \in Hunters
        PROVE  /\ AgentOK(hunters[a]) /\ hunters[a].roams = 0 /\ hunters[a].roam.rebuys = 0
               /\ hunters[a].pc = "starting"
    BY DEF Init, AgentOK, NoRoam
  <1>3. StoresOK /\ stores.settlements = <<>> /\ stores.rebuys = <<>>
    BY DEF Init, EmptyStores, Empty, StoresOK
  <1>4. IsFiniteSet({}) /\ Cardinality({}) = 0
    BY FS_EmptySet
  <1>5. RequestsOK /\ WaitedFor
    BY <1>1, <1>4 DEF RequestsOK, WaitedFor
  <1>6. ASSUME NEW a \in Hunters PROVE AccountOf(a)
    <2>1. Under("rebuy", a) = {} /\ Settled(a) = {}
      BY <1>1, <1>3 DEF Under, Settled
    <2>2. Entry(stores.rebuys, a, NoRebuys) = NoRebuys
      BY <1>3 DEF Entry
    <2>3. Rebuys({}) = 0
      <3>1. Units({}) = {}
        BY DEF Units
      <3> QED BY <1>4, <3>1, RebuysCounted
    <2>4. 0 * RebuyCost = 0
      BY HuntAssumption DEF HuntAssumption
    <2>5. NoRebuys.count = 0 /\ NoRebuys.costSats = 0 /\ InPlay(hunters[a]) = 0
      BY <1>2 DEF NoRebuys, InPlay
    <2>6. Account(hunters[a], {}, {}, NoRebuys, 0)
      BY <1>2, <1>4, <2>3, <2>4, <2>5 DEF Account
    <2> QED BY <1>1, <2>1, <2>2, <2>6 DEF AccountOf
  <1> QED BY <1>1, <1>2, <1>3, <1>5, <1>6 DEF RebuyInv, BooksInv
-------------------------------------------------------------------------------
(* What a step leaves alone. *)

LEMMA OneKept ==
    ASSUME NEW b \in Hunters, AccountOf(b), UNCHANGED lost,
           hunters'[b].roams = hunters[b].roams, hunters'[b].roam.rebuys = hunters[b].roam.rebuys,
           \/ hunters'[b].pc = hunters[b].pc
           \/ hunters'[b].pc # "playing" /\ hunters[b].pc # "playing",
           \A p \in posts' : p.kind \in Bookish /\ p.from = b => p \in posts,
           \A p \in posts : p.kind \in Bookish /\ p.from = b => p \in posts',
           AtRouter(b)' = AtRouter(b),
           Entry(stores'.rebuys, b, NoRebuys) = Entry(stores.rebuys, b, NoRebuys)
    PROVE  AccountOf(b)'
  <1>1. Under("rebuy", b)' = Under("rebuy", b) /\ Under("settlement", b)' = Under("settlement", b)
    BY DEF Under, Bookish
  <1>2. Settled(b)' = Settled(b)
    BY <1>1 DEF Settled, AtRouter
  <1>3. Account(hunters'[b], Under("rebuy", b), Settled(b), Entry(stores.rebuys, b, NoRebuys), lost)
    BY AccountAway, AccountBusy DEF AccountOf
  <1> QED BY <1>1, <1>2, <1>3 DEF AccountOf

LEMMA BooksKept ==
    ASSUME BooksInv, UNCHANGED <<setting, lost>>,
           \A b \in Hunters : /\ hunters'[b].roams = hunters[b].roams
                              /\ hunters'[b].roam.rebuys = hunters[b].roam.rebuys
                              /\ \/ hunters'[b].pc = hunters[b].pc
                                 \/ hunters'[b].pc # "playing" /\ hunters[b].pc # "playing",
           \A p \in posts' : p.kind \in Bookish => p \in posts,
           \A p \in posts : p.kind \in Bookish => p \in posts',
           stores'.settlements = stores.settlements,
           \A b \in Hunters : Entry(stores'.rebuys, b, NoRebuys) = Entry(stores.rebuys, b, NoRebuys)
    PROVE  BooksInv'
  <1>1. Hunters' = Hunters
    BY DEF Hunters, Apexes, Rogues
  <1>2. ASSUME NEW b \in Hunters PROVE AccountOf(b)'
    <2>1. AtRouter(b)' = AtRouter(b)
      BY DEF AtRouter
    <2> QED BY <2>1, OneKept DEF BooksInv
  <1> QED BY <1>1, <1>2 DEF BooksInv

LEMMA WaitedKept ==
    ASSUME WaitedFor, RequestsOK,
           \A b \in Hunters : hunters[b].pc \in {"reporting", "finishing"} => hunters'[b].pc = hunters[b].pc,
           \A p \in posts' : p \in posts \/ p.kind \notin Waited
    PROVE  WaitedFor'
  BY DEF WaitedFor, RequestsOK, Waited
-------------------------------------------------------------------------------
(* The agents' own steps. *)

LEMMA AgentAfter ==
    ASSUME RebuyInv, UNCHANGED setting, NEW a \in Hunters, NEW g, AgentOK(g), hunters' = [hunters EXCEPT ![a] = g]
    PROVE  /\ Hunters' = Hunters /\ DOMAIN hunters' = Hunters
           /\ \A b \in Hunters : hunters'[b] = IF b = a THEN g ELSE hunters[b]
           /\ \A b \in Hunters : AgentOK(hunters'[b])
  <1>1. Hunters' = Hunters
    BY DEF Hunters, Apexes, Rogues
  <1>2. \A b \in Hunters : hunters'[b] = IF b = a THEN g ELSE hunters[b]
    BY DEF RebuyInv
  <1> QED BY <1>1, <1>2 DEF RebuyInv

LEMMA RequestsGrow ==
    ASSUME RequestsOK, UNCHANGED setting, IsFiniteSet(posts'), lost' \in Nat,
           \A p \in posts' : \/ p \in posts
                             \/ /\ p.kind \in Kinds /\ p.from \in Hunters
                                /\ p.kind = "settlement" => p.body.apexId = p.from
    PROVE  RequestsOK'
  BY DEF RequestsOK, Hunters, Apexes, Rogues

\* Steps of an agent that have nothing to do with rebuys and nobody waits for.
LEMMA QuietAgent ==
    ASSUME RebuyInv, UNCHANGED <<stores, lost, setting>>,
           NEW a \in Hunters, NEW g, AgentOK(g), hunters' = [hunters EXCEPT ![a] = g],
           g.roams = hunters[a].roams, g.roam.rebuys = hunters[a].roam.rebuys,
           g.pc = hunters[a].pc \/ (g.pc # "playing" /\ hunters[a].pc \notin {"playing", "reporting", "finishing"}),
           IsFiniteSet(posts'), posts \subseteq posts',
           \A p \in posts' : p \in posts \/ (p.from \in Hunters /\ p.kind \in Kinds \ (Bookish \union Waited))
    PROVE  RebuyInv'
  <1>1. /\ Hunters' = Hunters /\ DOMAIN hunters' = Hunters
        /\ \A b \in Hunters : hunters'[b] = IF b = a THEN g ELSE hunters[b]
        /\ \A b \in Hunters : AgentOK(hunters'[b])
    BY AgentAfter
  <1>2. RequestsOK'
    BY RequestsGrow DEF RebuyInv, RequestsOK, Bookish
  <1>3. StoresOK'
    BY DEF RebuyInv, StoresOK
  <1>4. WaitedFor'
    BY <1>1, WaitedKept DEF RebuyInv
  <1>5. BooksInv'
    BY <1>1, BooksKept DEF RebuyInv
  <1> QED BY <1>1, <1>2, <1>3, <1>4, <1>5 DEF RebuyInv

LEMMA RegisterBooks ==
    ASSUME RebuyInv, NEW a \in Hunters, Register(a)
    PROVE  RebuyInv'
  <1>1. PICK pc : pc \in {"registering", "scanning"} /\ hunters' = [hunters EXCEPT ![a].pc = pc]
    BY DEF Register
  <1>2. PICK g : g = [hunters[a] EXCEPT !.pc = pc]
    OBVIOUS
  <1>3. hunters' = [hunters EXCEPT ![a] = g]
    BY <1>1, <1>2
  <1>4. AgentOK(g) /\ g.roams = hunters[a].roams /\ g.roam = hunters[a].roam /\ g.pc = pc
    BY <1>2 DEF RebuyInv, AgentOK
  <1>5. PICK r : r = Request("register", a, 0)
    OBVIOUS
  <1>6. posts' = posts \union {r} /\ r.kind = "register" /\ r.from = a
    BY <1>5 DEF Register, Request
  <1>7. IsFiniteSet(posts')
    BY <1>6, FS_AddElement DEF RebuyInv, RequestsOK
  <1>8. hunters[a].pc = "starting" /\ UNCHANGED <<stores, lost, setting>>
    BY DEF Register
  <1>9. \A p \in posts' : p \in posts \/ (p.from \in Hunters /\ p.kind \in Kinds \ (Bookish \union Waited))
    BY <1>6 DEF Kinds, Bookish, Waited
  <1> QED BY <1>1, <1>3, <1>4, <1>6, <1>7, <1>8, <1>9, QuietAgent

LEMMA HandBooks ==
    ASSUME RebuyInv, NEW a \in Hunters, onHandComplete(a)
    PROVE  RebuyInv'
  <1>1. PICK won \in BOOLEAN, cells \in CellBatches :
          LET hand == HandReport(a, won)
          IN  /\ hunters' = [hunters EXCEPT ![a].roam.played = @ + 1,
                                            ![a].roam.chips = IF won THEN @ + Stake ELSE @ - Stake]
              /\ posts' = posts \union {Request("hand", a, hand)} \union CellReports(a, hand, cells)
    BY DEF onHandComplete
  <1>2. PICK g : g = [hunters[a] EXCEPT !.roam.played = @ + 1,
                                        !.roam.chips = IF won THEN @ + Stake ELSE @ - Stake]
    OBVIOUS
  <1>3. hunters' = [hunters EXCEPT ![a] = g]
    BY <1>1, <1>2
  <1>4. AgentOK(hunters[a])
    BY DEF RebuyInv
  <1>5. /\ AgentOK(g) /\ g.roams = hunters[a].roams /\ g.roam.rebuys = hunters[a].roam.rebuys /\ g.pc = hunters[a].pc
    BY <1>2, <1>4 DEF AgentOK
  <1>6. PICK r : r = Request("hand", a, HandReport(a, won))
    OBVIOUS
  <1>7. PICK q : q = Request("cells", a, {<<HandReport(a, won).n, c>> : c \in 1..cells})
    OBVIOUS
  <1>8. r.kind = "hand" /\ r.from = a /\ q.kind = "cells" /\ q.from = a
    BY <1>6, <1>7 DEF Request
  <1>9. CellReports(a, HandReport(a, won), cells) \in {{}, {q}}
    BY <1>7 DEF CellReports
  <1>10. posts' = posts \union {r} \/ posts' = (posts \union {r}) \union {q}
    BY <1>1, <1>6, <1>9
  <1>11. IsFiniteSet(posts')
    <2>1. IsFiniteSet(posts \union {r})
      BY FS_AddElement DEF RebuyInv, RequestsOK
    <2>2. IsFiniteSet((posts \union {r}) \union {q})
      BY <2>1, FS_AddElement
    <2> QED BY <1>10, <2>1, <2>2
  <1>12. \A p \in posts' : p \in posts \/ (p.from \in Hunters /\ p.kind \in Kinds \ (Bookish \union Waited))
    BY <1>8, <1>10 DEF Kinds, Bookish, Waited
  <1>13. UNCHANGED <<stores, lost, setting>> /\ posts \subseteq posts'
    BY <1>10 DEF onHandComplete
  <1> QED BY <1>3, <1>5, <1>11, <1>12, <1>13, QuietAgent

LEMMA CheatBooks ==
    ASSUME RebuyInv, NEW a \in Hunters, emitCheatCell(a)
    PROVE  RebuyInv'
  <1>1. PICK g : g = [hunters[a] EXCEPT !.cheated = TRUE]
    OBVIOUS
  <1>2. hunters' = [hunters EXCEPT ![a] = g]
    BY <1>1 DEF emitCheatCell
  <1>3. AgentOK(g) /\ g.roams = hunters[a].roams /\ g.roam = hunters[a].roam /\ g.pc = hunters[a].pc
    BY <1>1 DEF RebuyInv, AgentOK
  <1>4. PICK r : r = Request("cheat", a, hunters[a].roams)
    OBVIOUS
  <1>5. PICK q : q = Request("cells", a, {<<"cheat", hunters[a].roams>>})
    OBVIOUS
  <1>6. r.kind = "cheat" /\ r.from = a /\ q.kind = "cells" /\ q.from = a
    BY <1>4, <1>5 DEF Request
  <1>7. posts' = (posts \union {r}) \union {q} /\ UNCHANGED <<stores, lost, setting>>
    BY <1>4, <1>5 DEF emitCheatCell
  <1>8. IsFiniteSet(posts')
    <2>1. IsFiniteSet(posts \union {r})
      BY FS_AddElement DEF RebuyInv, RequestsOK
    <2> QED BY <1>7, <2>1, FS_AddElement
  <1>9. \A p \in posts' : p \in posts \/ (p.from \in Hunters /\ p.kind \in Kinds \ (Bookish \union Waited))
    BY <1>6, <1>7 DEF Kinds, Bookish, Waited
  <1> QED BY <1>2, <1>3, <1>7, <1>8, <1>9, QuietAgent

LEMMA ComparedBooks ==
    ASSUME RebuyInv, NEW a \in Hunters, Compared(a)
    PROVE  RebuyInv'
  <1>1. PICK g : g = [hunters[a] EXCEPT !.pc = "scanning"]
    OBVIOUS
  <1>2. hunters' = [hunters EXCEPT ![a] = g]
    BY <1>1 DEF Compared
  <1>3. AgentOK(g) /\ g.roams = hunters[a].roams /\ g.roam = hunters[a].roam /\ g.pc = "scanning"
    BY <1>1 DEF RebuyInv, AgentOK
  <1>4. hunters[a].pc = "comparing" /\ UNCHANGED <<posts, stores, lost, setting>>
    BY DEF Compared, netVars
  <1> QED BY <1>2, <1>3, <1>4, QuietAgent DEF RebuyInv, RequestsOK
\* When something is lost only what is still there has to be in order.
LEMMA BooksLost ==
    ASSUME BooksInv, UNCHANGED setting, lost' # 0,
           \A b \in Hunters : /\ hunters'[b].roams = hunters[b].roams
                              /\ hunters'[b].roam.rebuys = hunters[b].roam.rebuys
                              /\ \/ hunters'[b].pc = hunters[b].pc
                                 \/ hunters'[b].pc # "playing" /\ hunters[b].pc # "playing",
           \A p \in posts' : p.kind \in Bookish => p \in posts,
           UNCHANGED stores
    PROVE  BooksInv'
  <1>1. Hunters' = Hunters
    BY DEF Hunters, Apexes, Rogues
  <1>2. ASSUME NEW b \in Hunters PROVE AccountOf(b)'
    <2>1. Under("rebuy", b)' \subseteq Under("rebuy", b) /\ Under("settlement", b)' \subseteq Under("settlement", b)
      BY DEF Under, Bookish
    <2>2. Settled(b)' \subseteq Settled(b)
      BY <2>1 DEF Settled
    <2>3. Account(hunters'[b], Under("rebuy", b), Settled(b), Entry(stores.rebuys, b, NoRebuys), lost)
      BY <1>2, AccountAway, AccountBusy DEF BooksInv, AccountOf
    <2> QED BY <2>1, <2>2, <2>3, AccountMissing DEF AccountOf
  <1> QED BY <1>1, <1>2 DEF BooksInv

LEMMA AskBooks ==
    ASSUME RebuyInv, NEW a \in Hunters, AskForOthers(a)
    PROVE  RebuyInv'
  <1>0. hunters[a].pc = "asking" /\ UNCHANGED <<posts, stores, setting>> /\ lost \in Nat
    BY DEF AskForOthers, RebuyInv, RequestsOK
  <1>1. CASE lost' = lost /\ hunters' = [hunters EXCEPT ![a].pc = "comparing", ![a].others = stores.knownApex \ {a}]
    <2>1. PICK g : g = [hunters[a] EXCEPT !.pc = "comparing", !.others = stores.knownApex \ {a}]
      OBVIOUS
    <2>2. hunters' = [hunters EXCEPT ![a] = g]
      BY <1>1, <2>1
    <2>3. AgentOK(g) /\ g.roams = hunters[a].roams /\ g.roam = hunters[a].roam /\ g.pc = "comparing"
      BY <2>1 DEF RebuyInv, AgentOK
    <2> QED BY <1>0, <1>1, <2>2, <2>3, QuietAgent DEF RebuyInv, RequestsOK
  <1>2. CASE lost' = lost + 1 /\ hunters' = [hunters EXCEPT ![a].pc = "scanning"]
    <2>1. PICK g : g = [hunters[a] EXCEPT !.pc = "scanning"]
      OBVIOUS
    <2>2. hunters' = [hunters EXCEPT ![a] = g]
      BY <1>2, <2>1
    <2>3. AgentOK(g) /\ g.roams = hunters[a].roams /\ g.roam = hunters[a].roam /\ g.pc = "scanning"
      BY <2>1 DEF RebuyInv, AgentOK
    <2>4. /\ Hunters' = Hunters /\ DOMAIN hunters' = Hunters
          /\ \A b \in Hunters : hunters'[b] = IF b = a THEN g ELSE hunters[b]
          /\ \A b \in Hunters : AgentOK(hunters'[b])
      BY <1>0, <2>2, <2>3, AgentAfter
    <2>5. lost' \in Nat /\ lost' # 0
      BY <1>0, <1>2
    <2>6. RequestsOK'
      BY <1>0, <2>5, RequestsGrow DEF RebuyInv, RequestsOK
    <2>7. StoresOK'
      BY <1>0 DEF RebuyInv, StoresOK
    <2>8. WaitedFor'
      BY <1>0, <2>4, WaitedKept DEF RebuyInv
    <2>9. BooksInv'
      BY <1>0, <2>3, <2>4, <2>5, BooksLost DEF RebuyInv
    <2> QED BY <2>4, <2>6, <2>7, <2>8, <2>9 DEF RebuyInv
  <1> QED BY <1>1, <1>2 DEF AskForOthers

\* One request more that main waits for.
LEMMA WaitingStep ==
    ASSUME RebuyInv, UNCHANGED <<stores, lost, setting>>,
           NEW a \in Hunters, NEW g, AgentOK(g), hunters' = [hunters EXCEPT ![a] = g],
           g.roams = hunters[a].roams, g.roam.rebuys = hunters[a].roam.rebuys,
           hunters[a].pc \in {"comparing", "scanning"},
           NEW r, posts' = posts \union {r}, r.from = a,
           \/ r.kind = "matchup" /\ g.pc = "reporting"
           \/ r.kind = "count" /\ g.pc = "finishing"
    PROVE  RebuyInv'
  <1>1. /\ Hunters' = Hunters /\ DOMAIN hunters' = Hunters
        /\ \A b \in Hunters : hunters'[b] = IF b = a THEN g ELSE hunters[b]
        /\ \A b \in Hunters : AgentOK(hunters'[b])
    BY AgentAfter
  <1>2. IsFiniteSet(posts') /\ lost' \in Nat
    BY FS_AddElement DEF RebuyInv, RequestsOK
  <1>3. RequestsOK'
    BY <1>2, RequestsGrow DEF RebuyInv, Kinds
  <1>4. StoresOK'
    BY DEF RebuyInv, StoresOK
  <1>5. WaitedFor'
    <2>1. \A p \in posts : p.kind \in Waited => p.from # a
      BY DEF RebuyInv, WaitedFor, Waited
    <2>2. \A p \in posts : p.from \in Hunters
      BY DEF RebuyInv, RequestsOK
    <2> QED BY <1>1, <2>1, <2>2 DEF RebuyInv, WaitedFor, Waited
  <1>6. BooksInv'
    BY <1>1, BooksKept DEF RebuyInv, Bookish
  <1> QED BY <1>1, <1>3, <1>4, <1>5, <1>6 DEF RebuyInv

LEMMA CompareBooks ==
    ASSUME RebuyInv, NEW a \in Hunters, Compare(a)
    PROVE  RebuyInv'
  <1>1. PICK b : /\ hunters' = [hunters EXCEPT ![a].pc = "reporting", ![a].others = @ \ {b}]
                 /\ \E body : posts' = posts \union {Request("matchup", a, body)}
    BY DEF Compare
  <1>2. PICK body : posts' = posts \union {Request("matchup", a, body)}
    BY <1>1
  <1>3. PICK r : r = Request("matchup", a, body)
    OBVIOUS
  <1>4. PICK g : g = [hunters[a] EXCEPT !.pc = "reporting", !.others = @ \ {b}]
    OBVIOUS
  <1>5. hunters' = [hunters EXCEPT ![a] = g]
    BY <1>1, <1>4
  <1>6. AgentOK(g) /\ g.roams = hunters[a].roams /\ g.roam = hunters[a].roam /\ g.pc = "reporting"
    BY <1>4 DEF RebuyInv, AgentOK
  <1>7. r.kind = "matchup" /\ r.from = a /\ posts' = posts \union {r}
    BY <1>2, <1>3 DEF Request
  <1>8. hunters[a].pc = "comparing" /\ UNCHANGED <<stores, lost, setting>>
    BY DEF Compare
  <1> QED BY <1>5, <1>6, <1>7, <1>8, WaitingStep

LEMMA FinishBooks ==
    ASSUME RebuyInv, NEW a \in Hunters, Finish(a)
    PROVE  RebuyInv'
  <1>0. hunters[a].pc = "scanning" /\ UNCHANGED <<stores, lost, setting>>
    BY DEF Finish
  <1>1. CASE hunters' = [hunters EXCEPT ![a].pc = "leaving"] /\ UNCHANGED posts
    <2>1. PICK g : g = [hunters[a] EXCEPT !.pc = "leaving"]
      OBVIOUS
    <2>2. hunters' = [hunters EXCEPT ![a] = g]
      BY <1>1, <2>1
    <2>3. AgentOK(g) /\ g.roams = hunters[a].roams /\ g.roam = hunters[a].roam /\ g.pc = "leaving"
      BY <2>1 DEF RebuyInv, AgentOK
    <2> QED BY <1>0, <1>1, <2>2, <2>3, QuietAgent DEF RebuyInv, RequestsOK
  <1>2. CASE /\ hunters' = [hunters EXCEPT ![a].pc = "finishing"]
             /\ posts' = posts \union {Request("count", a, 5 * hunters[a].total)}
    <2>1. PICK g : g = [hunters[a] EXCEPT !.pc = "finishing"]
      OBVIOUS
    <2>2. hunters' = [hunters EXCEPT ![a] = g]
      BY <1>2, <2>1
    <2>3. AgentOK(g) /\ g.roams = hunters[a].roams /\ g.roam = hunters[a].roam /\ g.pc = "finishing"
      BY <2>1 DEF RebuyInv, AgentOK
    <2>4. PICK r : r = Request("count", a, 5 * hunters[a].total)
      OBVIOUS
    <2>5. r.kind = "count" /\ r.from = a /\ posts' = posts \union {r}
      BY <1>2, <2>4 DEF Request
    <2> QED BY <1>0, <2>2, <2>3, <2>5, WaitingStep
  <1> QED BY <1>1, <1>2 DEF Finish

LEMMA SitDownBooks ==
    ASSUME RebuyInv, NEW a \in Hunters, SitDown(a)
    PROVE  RebuyInv'
  <1>1. PICK t : hunters' = [hunters EXCEPT ![a].pc = "playing", ![a].roams = @ + 1,
                                            ![a].roam = NewRoam(hunters[a], t), ![a].cheated = FALSE]
    BY DEF SitDown
  <1>2. PICK roam : roam = NewRoam(hunters[a], t)
    OBVIOUS
  <1>3. PICK g : g = [hunters[a] EXCEPT !.pc = "playing", !.roams = @ + 1, !.roam = roam, !.cheated = FALSE]
    OBVIOUS
  <1>4. hunters' = [hunters EXCEPT ![a] = g]
    BY <1>1, <1>2, <1>3
  <1>5. roam.rebuys = 0 /\ {"table", "hands", "played", "chips", "rebuys"} \subseteq DOMAIN roam
    BY <1>2 DEF NewRoam, NoRoam
  <1>6. AgentOK(g) /\ g.roams = hunters[a].roams + 1 /\ g.roam.rebuys = 0 /\ g.pc = "playing"
    BY <1>3, <1>5 DEF RebuyInv, AgentOK
  <1>7. hunters[a].pc = "scanning" /\ UNCHANGED <<posts, stores, lost, setting>>
    BY DEF SitDown, netVars
  <1>8. /\ Hunters' = Hunters /\ DOMAIN hunters' = Hunters
        /\ \A b \in Hunters : hunters'[b] = IF b = a THEN g ELSE hunters[b]
        /\ \A b \in Hunters : AgentOK(hunters'[b])
    BY <1>4, <1>6, <1>7, AgentAfter
  <1>9. RequestsOK' /\ StoresOK'
    BY <1>7, <1>8 DEF RebuyInv, RequestsOK, StoresOK
  <1>10. WaitedFor'
    BY <1>7, <1>8, WaitedKept DEF RebuyInv
  <1>11. ASSUME NEW b \in Hunters PROVE AccountOf(b)'
    <2>1. AccountOf(b)
      BY DEF RebuyInv, BooksInv
    <2>2. CASE b = a
      <3>1. Account(g, Under("rebuy", a), Settled(a), Entry(stores.rebuys, a, NoRebuys), lost)
        BY <1>6, <1>7, <2>1, <2>2, AccountSits DEF AccountOf
      <3>2. Under("rebuy", a)' = Under("rebuy", a) /\ Settled(a)' = Settled(a) /\ hunters'[a] = g
        BY <1>7, <1>8 DEF Under, Settled
      <3> QED BY <1>7, <2>2, <3>1, <3>2 DEF AccountOf
    <2>3. CASE b # a
      <3>1. AtRouter(b)' = AtRouter(b) /\ hunters'[b] = hunters[b]
        BY <1>7, <1>8, <2>3 DEF AtRouter
      <3> QED BY <1>7, <2>1, <3>1, OneKept
    <2> QED BY <2>2, <2>3
  <1> QED BY <1>8, <1>9, <1>10, <1>11 DEF RebuyInv, BooksInv
LEMMA RebuyBooks ==
    ASSUME RebuyInv, NEW a \in Hunters, onRebuy(a)
    PROVE  RebuyInv'
  <1>1. PICK n : n = hunters[a].roam.rebuys + 1
    OBVIOUS
  <1>2. PICK r : r = Request("rebuy", a, <<hunters[a].roams, n>>)
    OBVIOUS
  <1>3. PICK g : g = [hunters[a] EXCEPT !.roam.chips = TopUpChips, !.roam.rebuys = n]
    OBVIOUS
  <1>4. /\ hunters' = [hunters EXCEPT ![a] = g] /\ posts' = posts \union {r} /\ hunters[a].pc = "playing"
        /\ UNCHANGED <<stores, lost, setting>>
    BY <1>1, <1>2, <1>3 DEF onRebuy, Playing
  <1>5. r.kind = "rebuy" /\ r.from = a /\ r.body = <<hunters[a].roams, hunters[a].roam.rebuys + 1>>
    BY <1>1, <1>2 DEF Request
  <1>6. AgentOK(hunters[a])
    BY DEF RebuyInv
  <1>7. /\ AgentOK(g) /\ g.roams = hunters[a].roams /\ g.roam.rebuys = hunters[a].roam.rebuys + 1
        /\ g.pc = "playing"
    BY <1>1, <1>3, <1>4, <1>6 DEF AgentOK
  <1>8. /\ Hunters' = Hunters /\ DOMAIN hunters' = Hunters
        /\ \A b \in Hunters : hunters'[b] = IF b = a THEN g ELSE hunters[b]
        /\ \A b \in Hunters : AgentOK(hunters'[b])
    BY <1>4, <1>7, AgentAfter
  <1>9. IsFiniteSet(posts') /\ lost' \in Nat
    BY <1>4, FS_AddElement DEF RebuyInv, RequestsOK
  <1>10. RequestsOK'
    BY <1>4, <1>5, <1>9, RequestsGrow DEF RebuyInv, Kinds
  <1>11. StoresOK'
    BY <1>4 DEF RebuyInv, StoresOK
  <1>12. WaitedFor'
    BY <1>4, <1>5, <1>8, WaitedKept DEF RebuyInv, Waited
  <1>13. ASSUME NEW b \in Hunters PROVE AccountOf(b)'
    <2>1. AccountOf(b)
      BY DEF RebuyInv, BooksInv
    <2>2. CASE b = a
      <3>1. Account(g, Under("rebuy", a) \union {r}, Settled(a), Entry(stores.rebuys, a, NoRebuys), lost)
        BY <1>4, <1>5, <1>7, <2>1, <2>2, AccountBuys DEF AccountOf
      <3>2. Under("rebuy", a)' = Under("rebuy", a) \union {r} /\ Under("settlement", a)' = Under("settlement", a)
        BY <1>4, <1>5 DEF Under
      <3>3. Settled(a)' = Settled(a) /\ hunters'[a] = g
        BY <1>4, <1>8, <3>2 DEF Settled
      <3> QED BY <1>4, <2>2, <3>1, <3>2, <3>3 DEF AccountOf
    <2>3. CASE b # a
      <3>1. AtRouter(b)' = AtRouter(b) /\ hunters'[b] = hunters[b]
        BY <1>4, <1>8, <2>3 DEF AtRouter
      <3> QED BY <1>4, <1>5, <2>1, <2>3, <3>1, OneKept
    <2> QED BY <2>2, <2>3
  <1> QED BY <1>8, <1>10, <1>11, <1>12, <1>13 DEF RebuyInv, BooksInv

LEMMA LeaveBooks ==
    ASSUME RebuyInv, NEW a \in Hunters, Leave(a)
    PROVE  RebuyInv'
  <1>1. PICK s : s = Settlement(a)
    OBVIOUS
  <1>2. PICK r : r = Request("settlement", a, s)
    OBVIOUS
  <1>3. PICK pc : pc \in {"settling", "scanning"} /\ pc = IF a \in Apexes THEN "settling" ELSE "scanning"
    OBVIOUS
  <1>4. PICK g : g = [hunters[a] EXCEPT !.pc = pc, !.total = @ + hunters[a].roam.played]
    OBVIOUS
  <1>5. /\ hunters' = [hunters EXCEPT ![a] = g] /\ posts' = posts \union {r} /\ hunters[a].pc = "playing"
        /\ UNCHANGED <<stores, lost, setting>>
    BY <1>1, <1>2, <1>3, <1>4 DEF Leave
  <1>6. r.kind = "settlement" /\ r.from = a /\ r.body = s
    BY <1>2 DEF Request
  <1>7. s.apexId = a /\ s.roam = hunters[a].roams /\ s.rebuys = hunters[a].roam.rebuys
    BY <1>1 DEF Settlement
  <1>8. AgentOK(g) /\ g.roams = hunters[a].roams /\ g.roam = hunters[a].roam /\ g.pc # "playing"
    BY <1>3, <1>4 DEF RebuyInv, AgentOK
  <1>9. /\ Hunters' = Hunters /\ DOMAIN hunters' = Hunters
        /\ \A b \in Hunters : hunters'[b] = IF b = a THEN g ELSE hunters[b]
        /\ \A b \in Hunters : AgentOK(hunters'[b])
    BY <1>5, <1>8, AgentAfter
  <1>10. IsFiniteSet(posts') /\ lost' \in Nat
    BY <1>5, FS_AddElement DEF RebuyInv, RequestsOK
  <1>11. RequestsOK'
    BY <1>5, <1>6, <1>7, <1>10, RequestsGrow DEF RebuyInv, Kinds
  <1>12. StoresOK'
    BY <1>5 DEF RebuyInv, StoresOK
  <1>13. WaitedFor'
    BY <1>5, <1>6, <1>9, WaitedKept DEF RebuyInv, Waited
  <1>14. ASSUME NEW b \in Hunters PROVE AccountOf(b)'
    <2>1. AccountOf(b)
      BY DEF RebuyInv, BooksInv
    <2>2. CASE b = a
      <3>1. Account(g, Under("rebuy", a), Settled(a) \union {s}, Entry(stores.rebuys, a, NoRebuys), lost)
        BY <1>5, <1>7, <1>8, <2>1, <2>2, AccountSettles DEF AccountOf
      <3>2. Under("rebuy", a)' = Under("rebuy", a) /\ Under("settlement", a)' = Under("settlement", a) \union {r}
        BY <1>5, <1>6 DEF Under
      <3>3. Settled(a)' = Settled(a) \union {s} /\ hunters'[a] = g
        BY <1>5, <1>6, <1>9, <3>2 DEF Settled
      <3> QED BY <1>5, <2>2, <3>1, <3>2, <3>3 DEF AccountOf
    <2>3. CASE b # a
      <3>1. AtRouter(b)' = AtRouter(b) /\ hunters'[b] = hunters[b]
        BY <1>5, <1>9, <2>3 DEF AtRouter
      <3> QED BY <1>5, <1>6, <2>1, <2>3, <3>1, OneKept
    <2> QED BY <2>2, <2>3
  <1> QED BY <1>9, <1>11, <1>12, <1>13, <1>14 DEF RebuyInv, BooksInv

\* What exiting cuts off counts as lost.
LEMMA ExitBooks ==
    ASSUME RebuyInv, NEW a \in Hunters, Exit(a)
    PROVE  RebuyInv'
  <1>1. PICK cut \in SUBSET {p \in posts : p.from = a} : posts' = posts \ cut /\ lost' = lost + Cardinality(cut)
    BY DEF Exit
  <1>2. PICK g : g = [hunters[a] EXCEPT !.pc = "exited"]
    OBVIOUS
  <1>3. hunters' = [hunters EXCEPT ![a] = g] /\ hunters[a].pc = "leaving" /\ UNCHANGED <<stores, setting>>
    BY <1>2 DEF Exit
  <1>4. AgentOK(g) /\ g.roams = hunters[a].roams /\ g.roam = hunters[a].roam /\ g.pc = "exited"
    BY <1>2 DEF RebuyInv, AgentOK
  <1>5. cut \in SUBSET posts /\ IsFiniteSet(cut) /\ Cardinality(cut) \in Nat /\ (Cardinality(cut) = 0 => cut = {})
    <2>1. IsFiniteSet(cut)
      BY FS_Subset DEF RebuyInv, RequestsOK
    <2> QED BY <2>1, FS_CardinalityType, FS_EmptySet
  <1>6. posts' \subseteq posts /\ IsFiniteSet(posts') /\ lost' \in Nat /\ lost \in Nat
    <2>1. posts' \in SUBSET posts
      BY <1>1
    <2> QED BY <1>1, <1>5, <2>1, FS_Subset DEF RebuyInv, RequestsOK
  <1>7. /\ Hunters' = Hunters /\ DOMAIN hunters' = Hunters
        /\ \A b \in Hunters : hunters'[b] = IF b = a THEN g ELSE hunters[b]
        /\ \A b \in Hunters : AgentOK(hunters'[b])
    BY <1>3, <1>4, AgentAfter
  <1>8. RequestsOK'
    BY <1>3, <1>6, RequestsGrow DEF RebuyInv
  <1>9. StoresOK'
    BY <1>3 DEF RebuyInv, StoresOK
  <1>10. WaitedFor'
    BY <1>3, <1>6, <1>7, WaitedKept DEF RebuyInv
  <1>11. CASE Cardinality(cut) = 0
    <2>1. posts' = posts /\ lost' = lost
      BY <1>1, <1>5, <1>6, <1>11
    <2>2. BooksInv'
      BY <1>3, <1>4, <1>7, <2>1, BooksKept DEF RebuyInv
    <2> QED BY <1>7, <1>8, <1>9, <1>10, <2>2 DEF RebuyInv
  <1>12. CASE Cardinality(cut) # 0
    <2>1. lost' # 0
      BY <1>1, <1>5, <1>6, <1>12
    <2>2. BooksInv'
      BY <1>3, <1>4, <1>6, <1>7, <2>1, BooksLost DEF RebuyInv
    <2> QED BY <1>7, <1>8, <1>9, <1>10, <2>2 DEF RebuyInv
  <1> QED BY <1>11, <1>12
-------------------------------------------------------------------------------
(* Steps of the router, the floor and the shadow loops. *)

LEMMA EntryOfPut ==
    ASSUME NEW map, NEW key, NEW value, NEW k, NEW d
    PROVE  Entry(Put(map, key, value), k, d) = IF k = key THEN value ELSE Entry(map, k, d)
  BY DEF Entry, Put

\* What appending does to a sequence, whatever it is of.
Longer(r, q, e) ==
    /\ r \in Seq(Range(r)) /\ DOMAIN r = DOMAIN q \union {Len(q) + 1}
    /\ \A i \in DOMAIN q : r[i] = q[i]
    /\ r[Len(q) + 1] = e

LEMMA ListGrows ==
    ASSUME NEW q, q \in Seq(Range(q)), NEW e, NEW r, r = Append(q, e)
    PROVE  Longer(r, q, e)
  <1>1. q \in Seq(Range(q) \union {e})
    OBVIOUS
  <1>2. DOMAIN q = 1..Len(q) /\ Len(q) \in Nat
    OBVIOUS
  <1>3. r \in Seq(Range(q) \union {e}) /\ Len(r) = Len(q) + 1
    BY <1>1
  <1>4. (\A i \in 1..Len(q) : r[i] = q[i]) /\ r[Len(q) + 1] = e /\ DOMAIN r = 1..(Len(q) + 1)
    BY <1>1, <1>3
  <1>5. DOMAIN r = DOMAIN q \union {Len(q) + 1}
    BY <1>2, <1>4
  <1>6. Range(r) = Range(q) \union {e}
    BY <1>2, <1>4, <1>5 DEF Range
  <1> QED BY <1>2, <1>3, <1>4, <1>5, <1>6 DEF Longer

LEMMA StoresKept ==
    ASSUME NEW s, {"rebuys", "settlements"} \subseteq DOMAIN s, NEW h, NEW bots, NEW batch
    PROVE  /\ {"rebuys", "settlements"} \subseteq DOMAIN IngestHand(s, h, bots)
           /\ IngestHand(s, h, bots).rebuys = s.rebuys /\ IngestHand(s, h, bots).settlements = s.settlements
           /\ {"rebuys", "settlements"} \subseteq DOMAIN CellsPosted(s, batch)
           /\ CellsPosted(s, batch).rebuys = s.rebuys /\ CellsPosted(s, batch).settlements = s.settlements
  <1>1. /\ {"rebuys", "settlements"} \subseteq DOMAIN IngestHand(s, h, bots)
        /\ IngestHand(s, h, bots).rebuys = s.rebuys /\ IngestHand(s, h, bots).settlements = s.settlements
    BY DEF IngestHand
  <1>2. /\ {"rebuys", "settlements"} \subseteq DOMAIN CellsPosted(s, batch)
        /\ CellsPosted(s, batch).rebuys = s.rebuys /\ CellsPosted(s, batch).settlements = s.settlements
    BY DEF CellsPosted, AutoReport
  <1> QED BY <1>1, <1>2

\* No other request touches the router's settlements, or what it has of anybody's rebuys.
LEMMA TakenBooks ==
    ASSUME NEW p, p.kind \in Kinds \ Bookish, {"rebuys", "settlements"} \subseteq DOMAIN stores
    PROVE  /\ {"rebuys", "settlements"} \subseteq DOMAIN Taken(p) /\ Taken(p).settlements = stores.settlements
           /\ \A b \in Hunters : Entry(Taken(p).rebuys, b, NoRebuys) = Entry(stores.rebuys, b, NoRebuys)
  <1>1. CASE p.kind = "hand"
    BY <1>1, StoresKept DEF Taken, HandPosted
  <1>2. CASE p.kind \in {"cells", "policyCell"}
    BY <1>2, StoresKept DEF Taken
  <1>3. CASE p.kind \in {"matchup", "cheat", "count"}
    BY <1>3 DEF Taken, MatchupPosted, CheatPosted, TxCountHeard
  <1>4. CASE p.kind = "policy"
    <2>1. Taken(p) = PolicyPosted(stores, p.body)
      BY <1>4 DEF Taken
    <2> QED BY <2>1 DEF PolicyPosted
  <1>5. CASE p.kind = "register"
    <2>1. Taken(p) = ApexRegistered(stores, p.from)
      BY <1>5 DEF Taken
    <2>2. /\ {"rebuys", "settlements"} \subseteq DOMAIN Taken(p) /\ Taken(p).settlements = stores.settlements
          /\ Taken(p).rebuys = Put(stores.rebuys, p.from, Entry(stores.rebuys, p.from, NoRebuys))
      BY <2>1 DEF ApexRegistered
    <2> QED BY <2>2, EntryOfPut
  <1> QED BY <1>1, <1>2, <1>3, <1>4, <1>5 DEF Kinds, Bookish

\* Steps of the router alone.
LEMMA RouterBooks ==
    ASSUME RebuyInv, UNCHANGED <<hunters, posts, lost, setting>>, {"rebuys", "settlements"} \subseteq DOMAIN stores',
           stores'.settlements = stores.settlements, stores'.rebuys = stores.rebuys
    PROVE  RebuyInv'
  <1>1. Hunters' = Hunters
    BY DEF Hunters, Apexes, Rogues
  <1>2. RequestsOK' /\ StoresOK' /\ WaitedFor'
    BY <1>1 DEF RebuyInv, RequestsOK, StoresOK, WaitedFor
  <1>3. BooksInv'
    BY BooksKept DEF RebuyInv
  <1> QED BY <1>1, <1>2, <1>3 DEF RebuyInv
-------------------------------------------------------------------------------
(* Requests answered or lost. *)

LEMMA OnwardsKeeps ==
    ASSUME NEW h, NEW kind, NEW answered \in BOOLEAN, AgentOK(h),
           kind = "matchup" => h.pc = "reporting", kind = "count" => h.pc = "finishing"
    PROVE  /\ AgentOK(Onwards(h, kind, answered))
           /\ Onwards(h, kind, answered).roams = h.roams /\ Onwards(h, kind, answered).roam = h.roam
           /\ \/ Onwards(h, kind, answered).pc = h.pc
              \/ Onwards(h, kind, answered).pc # "playing" /\ h.pc # "playing"
           /\ kind \notin Waited => \/ Onwards(h, kind, answered).pc = h.pc
                                    \/ h.pc \in {"registering", "settling"}
  <1>1. ASSUME NEW pc, NEW g, g = [h EXCEPT !.pc = pc] \/ g = [h EXCEPT !.pc = pc, !.others = {}]
        PROVE  AgentOK(g) /\ g.roams = h.roams /\ g.roam = h.roam /\ g.pc = pc
    BY <1>1 DEF AgentOK
  <1>2. PICK g : g = Onwards(h, kind, answered)
    OBVIOUS
  <1>3. CASE kind = "register" /\ h.pc = "registering"
    <2>1. g = [h EXCEPT !.pc = "scanning"]
      BY <1>2, <1>3 DEF Onwards
    <2>2. AgentOK(g) /\ g.roams = h.roams /\ g.roam = h.roam /\ g.pc = "scanning"
      BY <1>1, <2>1
    <2> QED BY <1>2, <1>3, <2>2
  <1>4. CASE kind = "settlement" /\ h.pc = "settling"
    <2>1. g = [h EXCEPT !.pc = "asking"]
      BY <1>2, <1>4 DEF Onwards
    <2>2. AgentOK(g) /\ g.roams = h.roams /\ g.roam = h.roam /\ g.pc = "asking"
      BY <1>1, <2>1
    <2> QED BY <1>2, <1>4, <2>2
  <1>5. CASE kind = "matchup"
    <2>1. PICK pc \in {"comparing", "scanning"} : g = [h EXCEPT !.pc = pc] \/ g = [h EXCEPT !.pc = pc, !.others = {}]
      BY <1>2, <1>5 DEF Onwards
    <2>2. AgentOK(g) /\ g.roams = h.roams /\ g.roam = h.roam /\ g.pc = pc
      BY <1>1, <2>1
    <2> QED BY <1>2, <1>5, <2>2 DEF Waited
  <1>6. CASE kind = "count"
    <2>1. g = [h EXCEPT !.pc = "leaving"]
      BY <1>2, <1>6 DEF Onwards
    <2>2. AgentOK(g) /\ g.roams = h.roams /\ g.roam = h.roam /\ g.pc = "leaving"
      BY <1>1, <2>1
    <2> QED BY <1>2, <1>6, <2>2 DEF Waited
  <1>7. CASE /\ kind \notin {"matchup", "count"} /\ ~(kind = "register" /\ h.pc = "registering")
             /\ ~(kind = "settlement" /\ h.pc = "settling")
    <2>1. g = h
      BY <1>2, <1>7 DEF Onwards
    <2> QED BY <1>2, <2>1
  <1> QED BY <1>3, <1>4, <1>5, <1>6, <1>7

LEMMA ResolvedAgents ==
    ASSUME RebuyInv, UNCHANGED setting, lost' \in Nat, NEW p \in posts, NEW answered \in BOOLEAN, Resolve(p, answered)
    PROVE  /\ Hunters' = Hunters /\ DOMAIN hunters' = Hunters /\ \A b \in Hunters : AgentOK(hunters'[b])
           /\ \A b \in Hunters : /\ hunters'[b].roams = hunters[b].roams
                                 /\ hunters'[b].roam.rebuys = hunters[b].roam.rebuys
                                 /\ \/ hunters'[b].pc = hunters[b].pc
                                    \/ hunters'[b].pc # "playing" /\ hunters[b].pc # "playing"
           /\ \A q \in posts' : q \in posts \ {p} \/ q.kind = "policyCell"
           /\ posts \ {p} \subseteq posts'
           /\ RequestsOK' /\ WaitedFor'
  <1> DEFINE a == p.from
  <1>1. a \in Hunters /\ p.kind \in Kinds /\ Hunters' = Hunters /\ AgentOK(hunters[a])
    BY DEF RebuyInv, RequestsOK, Hunters, Apexes, Rogues
  <1>2. PICK g : g = Onwards(hunters[a], p.kind, answered)
    OBVIOUS
  <1>3. /\ AgentOK(g) /\ g.roams = hunters[a].roams /\ g.roam = hunters[a].roam
        /\ g.pc = hunters[a].pc \/ (g.pc # "playing" /\ hunters[a].pc # "playing")
        /\ p.kind \notin Waited => g.pc = hunters[a].pc \/ hunters[a].pc \in {"registering", "settling"}
    BY <1>1, <1>2, OnwardsKeeps DEF RebuyInv, WaitedFor
  <1>4. hunters' = hunters \/ hunters' = [hunters EXCEPT ![a] = g]
    BY <1>2 DEF Resolve
  <1>5. /\ DOMAIN hunters' = Hunters
        /\ \A b \in Hunters : b # a => hunters'[b] = hunters[b]
        /\ hunters'[a] = hunters[a] \/ hunters'[a] = g
    BY <1>1, <1>4 DEF RebuyInv
  <1>6. \A b \in Hunters : AgentOK(hunters'[b])
    BY <1>3, <1>5 DEF RebuyInv
  <1>7. \A b \in Hunters : /\ hunters'[b].roams = hunters[b].roams
                           /\ hunters'[b].roam.rebuys = hunters[b].roam.rebuys
                           /\ \/ hunters'[b].pc = hunters[b].pc
                              \/ hunters'[b].pc # "playing" /\ hunters[b].pc # "playing"
    BY <1>3, <1>5
  <1>8. PICK r : r = Request("policyCell", a, {<<"policy", a, p.body.version>>})
    OBVIOUS
  <1>9. r.kind = "policyCell" /\ r.from = a
    BY <1>8 DEF Request
  <1>10. posts' = posts \ {p} \/ posts' = (posts \ {p}) \union {r}
    BY <1>8 DEF Resolve, Following
  <1>11. \A q \in posts' : q \in posts \ {p} \/ (q = r /\ q.kind = "policyCell")
    BY <1>9, <1>10
  <1>12. IsFiniteSet(posts')
    <2>1. IsFiniteSet(posts \ {p})
      BY FS_RemoveElement DEF RebuyInv, RequestsOK
    <2>2. IsFiniteSet((posts \ {p}) \union {r})
      BY <2>1, FS_AddElement
    <2> QED BY <1>10, <2>1, <2>2
  <1>13. RequestsOK'
    BY <1>1, <1>9, <1>11, <1>12, RequestsGrow DEF RebuyInv, Kinds
  <1>14. WaitedFor'
    <2>1. CASE p.kind \notin Waited
      <3>1. \A b \in Hunters : hunters[b].pc \in {"reporting", "finishing"} => hunters'[b].pc = hunters[b].pc
        BY <1>3, <1>5, <2>1
      <3> QED BY <1>11, <3>1, WaitedKept DEF RebuyInv, Waited
    <2>2. CASE p.kind \in Waited
      <3>1. \A q \in posts' : q.kind \in Waited => q \in posts /\ q # p
        BY <1>11 DEF Waited
      <3>2. \A q \in posts : q.kind \in Waited /\ q # p => q.from # a
        BY <2>2 DEF RebuyInv, WaitedFor, Waited
      <3>3. \A q \in posts : q.from \in Hunters
        BY DEF RebuyInv, RequestsOK
      <3> QED BY <1>5, <3>1, <3>2, <3>3 DEF RebuyInv, WaitedFor, Waited
    <2> QED BY <2>1, <2>2
  <1>15. posts \ {p} \subseteq posts'
    BY <1>10
  <1> QED BY <1>1, <1>5, <1>6, <1>7, <1>11, <1>13, <1>14, <1>15

LEMMA FailBooks ==
    ASSUME RebuyInv, NEW p \in posts, Fail(p)
    PROVE  RebuyInv'
  <1>1. Resolve(p, FALSE) /\ UNCHANGED <<stores, setting>> /\ lost' \in Nat /\ lost' # 0
    <2>1. lost \in Nat
      BY DEF RebuyInv, RequestsOK
    <2>2. lost' = lost + 1
      BY DEF Fail
    <2>3. Resolve(p, FALSE) /\ UNCHANGED <<stores, setting>>
      BY DEF Fail
    <2>4. lost' \in Nat /\ lost' # 0
      BY <2>1, <2>2
    <2> QED BY <2>3, <2>4
  <1>2. /\ Hunters' = Hunters /\ DOMAIN hunters' = Hunters /\ \A b \in Hunters : AgentOK(hunters'[b])
        /\ \A b \in Hunters : /\ hunters'[b].roams = hunters[b].roams
                              /\ hunters'[b].roam.rebuys = hunters[b].roam.rebuys
                              /\ \/ hunters'[b].pc = hunters[b].pc
                                 \/ hunters'[b].pc # "playing" /\ hunters[b].pc # "playing"
        /\ \A q \in posts' : q \in posts \ {p} \/ q.kind = "policyCell"
        /\ RequestsOK' /\ WaitedFor'
    BY <1>1, ResolvedAgents
  <1>3. StoresOK'
    BY <1>1 DEF RebuyInv, StoresOK
  <1>4. BooksInv'
    BY <1>1, <1>2, BooksLost DEF RebuyInv, Bookish
  <1> QED BY <1>2, <1>3, <1>4 DEF RebuyInv

LEMMA ArriveBooks ==
    ASSUME RebuyInv, NEW p \in posts, Arrive(p)
    PROVE  RebuyInv'
  <1> DEFINE a == p.from
  <1>1. Resolve(p, TRUE) /\ UNCHANGED <<lost, setting>> /\ lost' \in Nat /\ stores' = Taken(p)
    BY DEF Arrive, RebuyInv, RequestsOK
  <1>2. /\ Hunters' = Hunters /\ DOMAIN hunters' = Hunters /\ \A b \in Hunters : AgentOK(hunters'[b])
        /\ \A b \in Hunters : /\ hunters'[b].roams = hunters[b].roams
                              /\ hunters'[b].roam.rebuys = hunters[b].roam.rebuys
                              /\ \/ hunters'[b].pc = hunters[b].pc
                                 \/ hunters'[b].pc # "playing" /\ hunters[b].pc # "playing"
        /\ \A q \in posts' : q \in posts \ {p} \/ q.kind = "policyCell"
        /\ posts \ {p} \subseteq posts'
        /\ RequestsOK' /\ WaitedFor'
    BY <1>1, ResolvedAgents
  <1>3. /\ p.kind \in Kinds /\ a \in Hunters /\ {"rebuys", "settlements"} \subseteq DOMAIN stores
        /\ stores.settlements \in Seq(Range(stores.settlements))
    BY DEF RebuyInv, RequestsOK, StoresOK
  <1>4. SUFFICES StoresOK' /\ BooksInv'
    BY <1>2 DEF RebuyInv
  <1>5. CASE p.kind \notin Bookish
    <2>1. /\ {"rebuys", "settlements"} \subseteq DOMAIN stores' /\ stores'.settlements = stores.settlements
          /\ \A b \in Hunters : Entry(stores'.rebuys, b, NoRebuys) = Entry(stores.rebuys, b, NoRebuys)
      BY <1>1, <1>3, <1>5, TakenBooks
    <2>2. StoresOK'
      BY <1>3, <2>1 DEF StoresOK
    <2>3. BooksInv'
      BY <1>1, <1>2, <1>5, <2>1, BooksKept DEF RebuyInv, Bookish
    <2> QED BY <2>2, <2>3
  <1>6. CASE p.kind = "rebuy"
    <2> DEFINE told == Entry(stores.rebuys, a, NoRebuys)
    <2>1. stores' = RebuyPosted(stores, a, RebuyCost)
      BY <1>1, <1>6 DEF Taken
    <2>2. PICK heard : heard = [count |-> told.count + 1, costSats |-> told.costSats + RebuyCost]
      OBVIOUS
    <2>3. /\ {"rebuys", "settlements"} \subseteq DOMAIN stores' /\ stores'.settlements = stores.settlements
          /\ stores'.rebuys = Put(stores.rebuys, a, heard)
      BY <1>3, <2>1, <2>2 DEF RebuyPosted
    <2>4. heard.count = told.count + 1 /\ heard.costSats = told.costSats + RebuyCost
      BY <2>2
    <2>5. \A b \in Hunters : Entry(stores'.rebuys, b, NoRebuys) = IF b = a THEN heard ELSE Entry(stores.rebuys, b, NoRebuys)
      BY <2>3, EntryOfPut
    <2>6. StoresOK'
      BY <1>3, <2>3 DEF StoresOK
    <2>7. ASSUME NEW b \in Hunters PROVE AccountOf(b)'
      <3>1. AccountOf(b) /\ AtRouter(b)' = AtRouter(b)
        BY <2>3 DEF RebuyInv, BooksInv, AtRouter
      <3>2. CASE b = a
        <4>1. p \in Under("rebuy", a)
          BY <1>6 DEF Under
        <4>2. Account(hunters'[a], Under("rebuy", a), Settled(a), told, lost)
          BY <1>2, <3>1, <3>2, AccountAway, AccountBusy DEF AccountOf
        <4>3. Account(hunters'[a], Under("rebuy", a) \ {p}, Settled(a), heard, lost)
          <5> HIDE DEF told
          <5> QED BY <2>4, <4>1, <4>2, AccountHeard
        <4>4. Under("rebuy", a)' = Under("rebuy", a) \ {p} /\ Under("settlement", a)' = Under("settlement", a)
          BY <1>2, <1>6 DEF Under
        <4>5. Settled(a)' = Settled(a)
          BY <3>1, <3>2, <4>4 DEF Settled, AtRouter
        <4> QED BY <1>1, <2>5, <3>2, <4>3, <4>4, <4>5 DEF AccountOf
      <3>3. CASE b # a
        BY <1>1, <1>2, <1>6, <2>5, <3>1, <3>3, OneKept DEF Bookish
      <3> QED BY <3>2, <3>3
    <2> QED BY <1>2, <2>6, <2>7 DEF BooksInv
  <1>7. CASE p.kind = "settlement"
    <2>1. stores' = SettlementPosted(stores, p.body) /\ p.body.apexId = a
      BY <1>1, <1>7 DEF Taken, RebuyInv, RequestsOK
    <2>2. PICK q : q = stores.settlements
      OBVIOUS
    <2>3. PICK r : r = Append(q, p.body)
      OBVIOUS
    <2>4. /\ {"rebuys", "settlements"} \subseteq DOMAIN stores' /\ stores'.settlements = r
          /\ stores'.rebuys = stores.rebuys
      BY <1>3, <2>1, <2>2, <2>3 DEF SettlementPosted
    <2>5. /\ r \in Seq(Range(r)) /\ DOMAIN r = DOMAIN q \union {Len(q) + 1}
          /\ (\A i \in DOMAIN q : r[i] = q[i]) /\ r[Len(q) + 1] = p.body
      <3>1. q \in Seq(Range(q))
        BY <1>3, <2>2
      <3>2. Longer(r, q, p.body)
        BY <2>3, <3>1, ListGrows
      <3> QED BY <3>2 DEF Longer
    <2>6. StoresOK'
      BY <2>4, <2>5 DEF StoresOK
    <2>7. \A b \in Hunters : AtRouter(b)' = AtRouter(b) \union (IF b = a THEN {p.body} ELSE {})
      <3> SUFFICES ASSUME NEW b \in Hunters
                   PROVE  {r[i] : i \in {j \in DOMAIN r : r[j].apexId = b}} =
                          {q[i] : i \in {j \in DOMAIN q : q[j].apexId = b}} \union (IF b = a THEN {p.body} ELSE {})
        BY <2>2, <2>4 DEF AtRouter
      <3> QED BY <2>1, <2>5
    <2>8. ASSUME NEW b \in Hunters PROVE AccountOf(b)'
      <3>1. AccountOf(b) /\ AtRouter(b)' = AtRouter(b) \union (IF b = a THEN {p.body} ELSE {})
        BY <2>7 DEF RebuyInv, BooksInv
      <3>2. CASE b = a
        <4>1. p \in Under("settlement", a)
          BY <1>7 DEF Under
        <4>2. Account(hunters'[a], Under("rebuy", a), Settled(a), Entry(stores.rebuys, a, NoRebuys), lost)
          BY <1>2, <3>1, <3>2, AccountAway, AccountBusy DEF AccountOf
        <4>3. Under("rebuy", a)' = Under("rebuy", a) /\ Under("settlement", a)' = Under("settlement", a) \ {p}
          BY <1>2, <1>7 DEF Under
        <4>4. Settled(a)' = AtRouter(a)' \union {q2.body : q2 \in Under("settlement", a)'}
          BY DEF Settled, AtRouter
        <4>5. Settled(a) = AtRouter(a) \union {q2.body : q2 \in Under("settlement", a)}
          BY DEF Settled, AtRouter
        <4>6. Settled(a)' = Settled(a)
          BY <3>1, <3>2, <4>1, <4>3, <4>4, <4>5
        <4> QED BY <1>1, <2>4, <3>2, <4>2, <4>3, <4>6 DEF AccountOf
      <3>3. CASE b # a
        <4>1. AtRouter(b)' = AtRouter(b)
          BY <3>1, <3>3
        <4> QED BY <1>1, <1>2, <1>7, <2>4, <3>1, <3>3, <4>1, OneKept DEF Bookish
      <3> QED BY <3>2, <3>3
    <2> QED BY <1>2, <2>6, <2>8 DEF BooksInv
  <1> QED BY <1>5, <1>6, <1>7 DEF Bookish
-------------------------------------------------------------------------------
(* Every step. *)

LEMMA RebuyStep == RebuyInv /\ [Next]_vars => RebuyInv'
  <1> SUFFICES ASSUME RebuyInv, [Next]_vars PROVE RebuyInv'
    OBVIOUS
  <1>0. {"rebuys", "settlements"} \subseteq DOMAIN stores
    BY DEF RebuyInv, StoresOK
  <1>1. ASSUME NEW t \in Tables, FloorPlays(t) PROVE RebuyInv'
    <2>1. PICK h : stores' = IngestHand(stores, h, h.acted)
      BY <1>1 DEF FloorPlays, HandHeard
    <2>2. UNCHANGED <<hunters, posts, lost, setting>>
      BY <1>1 DEF FloorPlays
    <2> QED BY <1>0, <2>1, <2>2, StoresKept, RouterBooks
  <1>2. ASSUME NEW a \in Hunters,
               \/ Register(a) \/ SitDown(a) \/ onRebuy(a) \/ onHandComplete(a) \/ emitCheatCell(a) \/ Leave(a)
               \/ AskForOthers(a) \/ Compare(a) \/ Compared(a) \/ Finish(a) \/ Exit(a)
        PROVE  RebuyInv'
    BY <1>2, RegisterBooks, SitDownBooks, RebuyBooks, HandBooks, CheatBooks, LeaveBooks, AskBooks, CompareBooks,
       ComparedBooks, FinishBooks, ExitBooks
  <1>3. ASSUME NEW a \in Apexes, Ponder(a) \/ Stumble(a) PROVE RebuyInv'
    BY <1>0, <1>3, RouterBooks DEF Ponder, Stumble, netVars
  <1>4. ASSUME NEW a \in Apexes, HotSwap(a) PROVE RebuyInv'
    <2>1. PICK body : posts' = posts \union {Request("policy", a, body)}
      BY <1>4 DEF HotSwap
    <2>2. PICK r : r = Request("policy", a, body)
      OBVIOUS
    <2>3. posts' = posts \union {r} /\ r.kind = "policy" /\ r.from = a /\ a \in Hunters
      BY <2>1, <2>2 DEF Request, Hunters
    <2>4. UNCHANGED <<hunters, stores, lost, setting>>
      BY <1>4 DEF HotSwap
    <2>5. IsFiniteSet(posts')
      BY <2>3, FS_AddElement DEF RebuyInv, RequestsOK
    <2>6. Hunters' = Hunters /\ UNCHANGED setting
      BY <1>4 DEF HotSwap, Hunters, Apexes, Rogues
    <2>7. RequestsOK'
      BY <2>3, <2>4, <2>5, <2>6, RequestsGrow DEF RebuyInv, RequestsOK, Kinds
    <2>8. WaitedFor'
      BY <2>3, <2>4, WaitedKept DEF RebuyInv, Waited
    <2>9. BooksInv'
      BY <2>3, <2>4, <2>6, BooksKept DEF RebuyInv, Bookish
    <2>10. StoresOK'
      BY <2>4 DEF RebuyInv, StoresOK
    <2> QED BY <2>4, <2>6, <2>7, <2>8, <2>9, <2>10 DEF RebuyInv
  <1>5. ASSUME NEW p \in posts, Arrive(p) \/ Fail(p) PROVE RebuyInv'
    BY <1>5, ArriveBooks, FailBooks
  <1>6. CASE ReportGenerated
    <2>1. UNCHANGED <<hunters, posts, lost, setting>> /\ stores' = [stores EXCEPT !.reporting = FALSE]
      BY <1>6 DEF ReportGenerated
    <2> QED BY <1>0, <2>1, RouterBooks
  <1>7. CASE UNCHANGED vars
    BY <1>0, <1>7, RouterBooks DEF vars, netVars
  <1> QED BY <1>1, <1>2, <1>3, <1>4, <1>5, <1>6, <1>7 DEF Next

\* What the router was told of an agent's rebuys one by one is what the settlements of its roams add up to,
\* in number and in cost, for any number of agents and roams and in whatever order requests arrive, as long as
\* none is lost or cut off (onRebuy and the settlement of main, and the router's two endpoints for them).
THEOREM RebuysAlwaysExplained == Spec => []RebuysExplained
  <1>1. RebuyInv => RebuysExplained
    <2> SUFFICES ASSUME RebuyInv, lost = 0, NEW a \in Hunters
                 PROVE  LET told == Entry(stores.rebuys, a, NoRebuys)
                            settled == MapThenSumSet(LAMBDA s : s.rebuys, Settled(a)) + InRoam(a)
                        IN  /\ told.count + Cardinality(Under("rebuy", a)) = settled
                            /\ told.costSats + Cardinality(Under("rebuy", a)) * RebuyCost = settled * RebuyCost
      BY DEF RebuysExplained
    <2> DEFINE told == Entry(stores.rebuys, a, NoRebuys)
    <2>1. Account(hunters[a], Under("rebuy", a), Settled(a), told, lost)
      BY DEF RebuyInv, BooksInv, AccountOf
    <2>2. PICK n \in Nat : n = Cardinality(Under("rebuy", a))
      BY <2>1, FS_CardinalityType DEF Account
    <2>3. told.count \in Nat /\ told.costSats = told.count * RebuyCost
      BY <2>1 DEF Account
    <2>4. told.count + n = Rebuys(Settled(a)) + InRoam(a)
      BY <2>1, <2>2 DEF Account, InPlay, InRoam
    <2>5. RebuyCost \in Nat
      BY HuntAssumption DEF HuntAssumption
    <2> HIDE DEF told
    <2>6. told.costSats + n * RebuyCost = (told.count + n) * RebuyCost
      BY <2>2, <2>3, <2>5
    <2>7. Rebuys(Settled(a)) = MapThenSumSet(LAMBDA s : s.rebuys, Settled(a))
      BY DEF Rebuys
    <2> QED BY <2>2, <2>4, <2>6, <2>7 DEF told
  <1> QED BY <1>1, RebuyInit, RebuyStep, PTL DEF Spec
===============================================================================
