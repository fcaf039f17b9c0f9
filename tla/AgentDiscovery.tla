----------------------------- MODULE AgentDiscovery -----------------------------
(***************************************************************************)
(* AgentDiscoveryService of src/src/agent/agent-discovery.ts: agents are   *)
(* registered, and calls of autonomousMatchAll pair them off.  Every       *)
(* announcement on the chain is awaited, so calls overlap; a failed one    *)
(* is only logged.                                                         *)
(***************************************************************************)
EXTENDS Integers, Sequences, SequencesExt, FiniteSetsExt

CONSTANTS
    stakeTolerance,     \* factor around the preferred stake
    Stakes,             \* preferred stakes agents may come with
    Jitter,             \* random part of a candidate's score, 50 in the code
    MaxAgents, MaxCalls \* bounds: registrations, and calls of autonomousMatchAll

ASSUME DiscoveryAssumption ==
    /\ {stakeTolerance, Jitter} \subseteq Nat \ {0}
    /\ Stakes \subseteq Nat /\ {MaxAgents, MaxCalls} \subseteq Nat

VARIABLES
    agentCounter,   \* agents are known by the counter their key is derived from
    stake,          \* their preferredStakeSats, a sequence
    registry,       \* registered agents, those whose announcement has been answered
    matched,        \* agents with matched set
    matches,        \* MatchResults: [a, b, stake]
    calls           \* calls of autonomousMatchAll: known (the registry they read), the rest of its agents
                    \* in any order, awaiting: <<>> or the match whose confirmation is on its way

vars == <<agentCounter, stake, registry, matched, matches, calls>>

Init ==
    /\ agentCounter = 0 /\ stake = <<>> /\ registry = {}
    /\ matched = {} /\ matches = {} /\ calls = <<>>

minStake(a) == stake[a] \div stakeTolerance
maxStake(a) == stake[a] * stakeTolerance
overlapMin(a, b) == Max({minStake(a), minStake(b)})
overlapMax(a, b) == Min({maxStake(a), maxStake(b)})

\* registerAgent up to its announcement; the agent enters the registry with the answer.
registerAgent(preferred) ==
    /\ agentCounter < MaxAgents
    /\ agentCounter' = agentCounter + 1
    /\ stake' = Append(stake, preferred)
    /\ UNCHANGED <<registry, matched, matches, calls>>

Announced(a) ==
    /\ a \notin registry
    /\ registry' = registry \union {a}
    /\ UNCHANGED <<agentCounter, stake, matched, matches, calls>>

Distance(a, b) == Max({stake[a] - stake[b], stake[b] - stake[a]})

\* Mutant: ranges that only touch do not overlap.
Apart(a, b) == overlapMin(a, b) >= overlapMax(a, b)

Incompatible(a, b) == overlapMin(a, b) > overlapMax(a, b)

\* Mutant: agents already matched are not left out.
AnyOther(a) == registry \ {a}

Available(a) == registry \ (matched \union {a})

\* findOpponent: any candidate the jitter may put first.
Opponents(a) ==
    LET candidates == {c \in Available(a) : ~Incompatible(a, c)}
        closest == Min({Distance(a, c) : c \in candidates})
    IN  {c \in candidates : Distance(a, c) < closest + Jitter}

negotiateStake(a, b) ==
    Max({overlapMin(a, b), Min({overlapMax(a, b), (stake[a] + stake[b]) \div 2})})

Call(known, rest) == [known |-> known, rest |-> rest, awaiting |-> <<>>]

\* autonomousMatchAll reads the registry and shuffles the unmatched.
autonomousMatchAll ==
    /\ Len(calls) < MaxCalls
    /\ calls' = Append(calls, Call(registry, registry \ matched))
    /\ UNCHANGED <<agentCounter, stake, registry, matched, matches>>

\* The next agent of call n: skipped if matched meanwhile or without a candidate, else matched.
NextAgent(n) ==
    /\ calls[n].awaiting = <<>>
    /\ \E a \in calls[n].rest :
         LET after == [calls EXCEPT ![n].rest = @ \ {a}]
         IN  IF a \in matched \/ Opponents(a) = {} THEN calls' = after /\ UNCHANGED matched
             ELSE \E b \in Opponents(a) :
                    /\ matched' = matched \union {a, b}
                    /\ calls' = [after EXCEPT ![n].awaiting =
                                   <<[a |-> a, b |-> b, stake |-> negotiateStake(a, b)]>>]
    /\ UNCHANGED <<agentCounter, stake, registry, matches>>

\* The confirmation was answered, or failed.
Confirmed(n) ==
    /\ calls[n].awaiting # <<>>
    /\ matches' = matches \union Range(calls[n].awaiting)
    /\ calls' = [calls EXCEPT ![n].awaiting = <<>>]
    /\ UNCHANGED <<agentCounter, stake, registry, matched>>

Next ==
    \/ \E preferred \in Stakes : registerAgent(preferred)
    \/ \E a \in 1..agentCounter : Announced(a)
    \/ autonomousMatchAll
    \/ \E n \in DOMAIN calls : NextAgent(n) \/ Confirmed(n)

Spec == Init /\ [][Next]_vars
-------------------------------------------------------------------------------
(* Properties *)

Within(s, a) == minStake(a) <= s /\ s <= maxStake(a)

\* However calls overlap, an agent is matched at most once, and at a stake both accept (matchAgents,
\* findOpponent, negotiateStake).
OneMatchEach ==
    /\ \A m \in matches : Within(m.stake, m.a) /\ Within(m.stake, m.b)
    /\ \A m, o \in matches : m # o => {m.a, m.b} \intersect {o.a, o.b} = {}

\* When a call is through, no two agents it knew are left that would accept each other
\* (autonomousMatchAll, findOpponent).
NobodyLeftOver ==
    \A n \in DOMAIN calls : calls[n].rest = {} =>
        \A a, b \in calls[n].known \ matched : a # b =>
            ~ \E s \in 1..maxStake(a) : Within(s, a) /\ Within(s, b)
===============================================================================
