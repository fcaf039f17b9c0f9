-------------------------- MODULE AgentDiscoveryProofs --------------------------
(***************************************************************************)
(* That discovery matches each agent at most once, at a stake both accept, *)
(* and leaves no two that would accept each other, for any number of       *)
(* agents, stakes and overlapping calls.                                   *)
(***************************************************************************)
EXTENDS AgentDiscovery, SequenceTheorems, WellFoundedInduction, TLAPS

-------------------------------------------------------------------------------
(* The larger and the smaller of two numbers. *)

LEMMA MaxOfTwo ==
    ASSUME NEW x \in Int, NEW y \in Int
    PROVE  Max({x, y}) \in {x, y} /\ Max({x, y}) >= x /\ Max({x, y}) >= y
  <1>1. \E m \in {x, y} : \A n \in {x, y} : m >= n
    OBVIOUS
  <1> QED BY <1>1 DEF Max

LEMMA MinOfTwo ==
    ASSUME NEW x \in Int, NEW y \in Int
    PROVE  Min({x, y}) \in {x, y} /\ Min({x, y}) <= x /\ Min({x, y}) <= y
  <1>1. \E m \in {x, y} : \A n \in {x, y} : m <= n
    OBVIOUS
  <1> QED BY <1>1 DEF Min

\* The bounds of a range are numbers.
LEMMA RangeBounds ==
    ASSUME NEW a, stake[a] \in Nat
    PROVE  minStake(a) \in Int /\ maxStake(a) \in Int
  BY DiscoveryAssumption DEF DiscoveryAssumption, minStake, maxStake

\* Two agents that are not incompatible both accept the stake negotiated (findOpponent, negotiateStake).
LEMMA NegotiatedFits ==
    ASSUME NEW a, NEW b, stake[a] \in Nat, stake[b] \in Nat, ~Incompatible(a, b)
    PROVE  /\ negotiateStake(a, b) \in Int
           /\ Within(negotiateStake(a, b), a) /\ Within(negotiateStake(a, b), b)
  <1>1. {minStake(a), maxStake(a), minStake(b), maxStake(b)} \subseteq Int
    BY RangeBounds
  <1> DEFINE low == overlapMin(a, b)
             high == overlapMax(a, b)
             middle == (stake[a] + stake[b]) \div 2
  <1>2. low \in Int /\ low >= minStake(a) /\ low >= minStake(b)
    BY <1>1, MaxOfTwo DEF overlapMin
  <1>3. high \in Int /\ high <= maxStake(a) /\ high <= maxStake(b)
    BY <1>1, MinOfTwo DEF overlapMax
  <1>4. low <= high
    BY <1>2, <1>3 DEF Incompatible
  <1>5. middle \in Int
    OBVIOUS
  <1> HIDE DEF low, high, middle
  <1>6. Min({high, middle}) \in Int /\ Min({high, middle}) <= high
    BY <1>3, <1>5, MinOfTwo
  <1>7. /\ Max({low, Min({high, middle})}) \in {low, Min({high, middle})}
        /\ Max({low, Min({high, middle})}) >= low
    BY <1>2, <1>6, MaxOfTwo
  <1>8. negotiateStake(a, b) = Max({low, Min({high, middle})})
    BY DEF negotiateStake, low, high, middle
  <1> QED BY <1>1, <1>2, <1>3, <1>4, <1>6, <1>7, <1>8 DEF Within
-------------------------------------------------------------------------------
(* The invariant. *)

Match == [a : Nat, b : Nat, stake : Int]
CallType == [known : SUBSET Nat, rest : SUBSET Nat, awaiting : {<<>>} \union {<<m>> : m \in Match}]

DiscoveryTypeOK ==
    /\ agentCounter \in Nat /\ stake \in Seq(Nat) /\ Len(stake) = agentCounter
    /\ registry \subseteq 1..agentCounter /\ matched \subseteq registry
    /\ matches \subseteq Match
    /\ calls \in Seq(CallType)
    /\ \A n \in DOMAIN calls : calls[n].rest \subseteq registry

Strangers(m, o) == {m.a, m.b} \intersect {o.a, o.b} = {}
Fits(m) == {m.a, m.b} \subseteq matched /\ Within(m.stake, m.a) /\ Within(m.stake, m.b)

Waits(n) == n \in DOMAIN calls /\ calls[n].awaiting # <<>>
Awaited(n) == calls[n].awaiting[1]

\* Agents are marked before their match is stored, so matches on their way count as well.
PromisesKept ==
    /\ \A m \in matches : Fits(m)
    /\ \A m, o \in matches : m # o => Strangers(m, o)
    /\ \A n \in DOMAIN calls : Waits(n) => Fits(Awaited(n)) /\ \A m \in matches : Strangers(m, Awaited(n))
    /\ \A n, k \in DOMAIN calls : Waits(n) /\ Waits(k) /\ n # k => Strangers(Awaited(n), Awaited(k))

DiscoveryInv == DiscoveryTypeOK /\ PromisesKept

LEMMA DiscoveryInit == Init => DiscoveryInv
  BY DEF Init, DiscoveryInv, DiscoveryTypeOK, PromisesKept, Waits

LEMMA CallShape ==
    ASSUME DiscoveryTypeOK, NEW n \in DOMAIN calls
    PROVE  /\ calls[n] \in CallType /\ calls[n].rest \subseteq registry
           /\ calls[n].awaiting = <<>> \/ \E m \in Match : calls[n].awaiting = <<m>>
  <1>1. calls[n] \in CallType
    BY DEF DiscoveryTypeOK
  <1>2. calls[n].awaiting \in {<<>>} \union {<<m>> : m \in Match}
    BY <1>1 DEF CallType
  <1> QED BY <1>1, <1>2 DEF DiscoveryTypeOK

\* One call moves on, to a record c that has no more agents left than before.
LEMMA CallMoves ==
    ASSUME DiscoveryTypeOK, NEW n \in DOMAIN calls, NEW c \in CallType, c.rest \subseteq calls[n].rest,
           calls' = [calls EXCEPT ![n] = c], UNCHANGED registry
    PROVE  /\ calls' \in Seq(CallType) /\ DOMAIN calls' = DOMAIN calls
           /\ calls'[n] = c /\ \A k \in DOMAIN calls \ {n} : calls'[k] = calls[k]
           /\ \A k \in DOMAIN calls' : calls'[k].rest \subseteq registry'
  <1>1. calls \in Seq(CallType)
    BY DEF DiscoveryTypeOK
  <1>2. calls' \in Seq(CallType) /\ DOMAIN calls' = DOMAIN calls
    BY <1>1
  <1>3. calls'[n] = c /\ \A k \in DOMAIN calls \ {n} : calls'[k] = calls[k]
    BY <1>1
  <1> QED BY <1>2, <1>3 DEF DiscoveryTypeOK

\* What a match needs does not depend on agents that register later.
LEMMA StillFits ==
    ASSUME DiscoveryTypeOK, NEW preferred, NEW m \in Match, Fits(m), stake' = Append(stake, preferred),
           UNCHANGED matched
    PROVE  Fits(m)'
  <1>1. m.a \in 1..Len(stake) /\ m.b \in 1..Len(stake)
    BY DEF DiscoveryTypeOK, Fits
  <1>2. stake'[m.a] = stake[m.a] /\ stake'[m.b] = stake[m.b]
    BY <1>1 DEF DiscoveryTypeOK
  <1> QED BY <1>2 DEF Fits, Within, minStake, maxStake

LEMMA RegisterKeeps ==
    ASSUME DiscoveryInv, NEW preferred \in Stakes, registerAgent(preferred)
    PROVE  DiscoveryInv'
  <1>1. preferred \in Nat
    BY DiscoveryAssumption DEF DiscoveryAssumption
  <1>2. DiscoveryTypeOK'
    BY <1>1 DEF DiscoveryInv, DiscoveryTypeOK, registerAgent
  <1>3. \A m \in Match : Fits(m) => Fits(m)'
    BY StillFits DEF DiscoveryInv, registerAgent
  <1>4. \A n \in DOMAIN calls : Waits(n) => Awaited(n) \in Match
    BY CallShape DEF DiscoveryInv, Waits, Awaited
  <1>5. PromisesKept'
    BY <1>3, <1>4 DEF DiscoveryInv, DiscoveryTypeOK, PromisesKept, registerAgent, Waits, Awaited, Strangers
  <1> QED BY <1>2, <1>5 DEF DiscoveryInv

LEMMA AnnouncedKeeps ==
    ASSUME DiscoveryInv, NEW a \in 1..agentCounter, Announced(a)
    PROVE  DiscoveryInv'
  <1>1. DiscoveryTypeOK'
    BY DEF DiscoveryInv, DiscoveryTypeOK, Announced
  <1>2. PromisesKept'
    BY DEF DiscoveryInv, PromisesKept, Announced, Waits, Awaited, Strangers, Fits, Within, minStake, maxStake
  <1> QED BY <1>1, <1>2 DEF DiscoveryInv

LEMMA MatchAllKeeps ==
    ASSUME DiscoveryInv, autonomousMatchAll
    PROVE  DiscoveryInv'
  <1> DEFINE c == Call(registry, registry \ matched)
  <1>1. c \in CallType /\ c.awaiting = <<>> /\ c.rest \subseteq registry
    BY DEF DiscoveryInv, DiscoveryTypeOK, Call, CallType
  <1> HIDE DEF c
  <1>2. calls' = Append(calls, c) /\ calls \in Seq(CallType)
    BY DEF autonomousMatchAll, DiscoveryInv, DiscoveryTypeOK, c
  <1>3. /\ calls' \in Seq(CallType) /\ DOMAIN calls' = DOMAIN calls \union {Len(calls) + 1}
        /\ \A n \in DOMAIN calls : calls'[n] = calls[n]
        /\ calls'[Len(calls) + 1] = c
    BY <1>1, <1>2
  <1>4. DiscoveryTypeOK'
    BY <1>1, <1>3 DEF DiscoveryInv, DiscoveryTypeOK, autonomousMatchAll
  <1>5. \A n \in DOMAIN calls' : Waits(n)' => n \in DOMAIN calls /\ Waits(n) /\ Awaited(n)' = Awaited(n)
    BY <1>1, <1>3 DEF Waits, Awaited
  <1>6. \A m : Fits(m) => Fits(m)'
    BY DEF autonomousMatchAll, Fits, Within, minStake, maxStake
  <1>7. PromisesKept'
    BY <1>5, <1>6 DEF DiscoveryInv, PromisesKept, autonomousMatchAll, Strangers
  <1> QED BY <1>4, <1>7 DEF DiscoveryInv

\* Whom findOpponent returns is registered, unmatched, another agent, and compatible.
LEMMA OpponentFound ==
    ASSUME NEW a, NEW b \in Opponents(a)
    PROVE  b \in registry \ (matched \union {a}) /\ ~Incompatible(a, b)
  BY DEF Opponents, Available

LEMMA NextAgentKeeps ==
    ASSUME DiscoveryInv, NEW n \in DOMAIN calls, NextAgent(n)
    PROVE  DiscoveryInv'
  <1>1. PICK a \in calls[n].rest :
          LET after == [calls EXCEPT ![n].rest = @ \ {a}]
          IN  IF a \in matched \/ Opponents(a) = {} THEN calls' = after /\ UNCHANGED matched
              ELSE \E b \in Opponents(a) :
                     /\ matched' = matched \union {a, b}
                     /\ calls' = [after EXCEPT ![n].awaiting =
                                    <<[a |-> a, b |-> b, stake |-> negotiateStake(a, b)]>>]
    BY DEF NextAgent
  <1>2. calls[n] \in CallType /\ a \in registry /\ a \in Nat /\ calls[n].awaiting = <<>>
    <2>1. DiscoveryTypeOK /\ calls[n].awaiting = <<>>
      BY DEF DiscoveryInv, NextAgent
    <2>2. calls[n] \in CallType /\ a \in registry
      BY <2>1, CallShape
    <2> QED BY <2>1, <2>2 DEF DiscoveryTypeOK
  <1>3. UNCHANGED <<agentCounter, stake, registry, matches>>
    BY DEF NextAgent
  <1>4. CASE a \in matched \/ Opponents(a) = {}
    <2>1. calls' = [calls EXCEPT ![n].rest = @ \ {a}] /\ UNCHANGED matched
      BY <1>1, <1>4
    <2> DEFINE c == [calls[n] EXCEPT !.rest = @ \ {a}]
    <2>c. c \in CallType /\ c.rest \subseteq calls[n].rest /\ c.awaiting = calls[n].awaiting
      BY <1>2 DEF CallType
    <2>d. calls' = [calls EXCEPT ![n] = c]
      BY <2>1
    <2> HIDE DEF c
    <2>2. /\ calls' \in Seq(CallType) /\ DOMAIN calls' = DOMAIN calls
          /\ \A k \in DOMAIN calls : calls'[k].awaiting = calls[k].awaiting
          /\ \A k \in DOMAIN calls' : calls'[k].rest \subseteq registry'
      BY <1>3, <2>c, <2>d, CallMoves DEF DiscoveryInv
    <2>3. DiscoveryTypeOK'
      BY <1>3, <2>1, <2>2 DEF DiscoveryInv, DiscoveryTypeOK
    <2>4. PromisesKept'
      BY <1>3, <2>1, <2>2, SMTT(30) DEF DiscoveryInv, PromisesKept, Waits, Awaited, Strangers, Fits, Within, minStake, maxStake
    <2> QED BY <2>3, <2>4 DEF DiscoveryInv
  <1>5. CASE ~(a \in matched \/ Opponents(a) = {})
    <2>1. PICK b \in Opponents(a) :
            /\ matched' = matched \union {a, b}
            /\ calls' = [[calls EXCEPT ![n].rest = @ \ {a}] EXCEPT ![n].awaiting =
                           <<[a |-> a, b |-> b, stake |-> negotiateStake(a, b)]>>]
      BY <1>1, <1>5
    <2>n. PICK new : new = [a |-> a, b |-> b, stake |-> negotiateStake(a, b)]
      OBVIOUS
    <2>2. b \in registry /\ b \notin matched /\ a \notin matched /\ a # b /\ ~Incompatible(a, b)
      BY <1>5, OpponentFound
    <2>3. a \in 1..Len(stake) /\ b \in 1..Len(stake) /\ stake[a] \in Nat /\ stake[b] \in Nat
      BY <1>2, <2>2 DEF DiscoveryInv, DiscoveryTypeOK
    <2>4. new \in Match /\ new.a = a /\ new.b = b /\ Within(new.stake, a) /\ Within(new.stake, b)
      BY <2>2, <2>3, <2>n, NegotiatedFits DEF Match
    <2> DEFINE c == [calls[n] EXCEPT !.rest = @ \ {a}, !.awaiting = <<new>>]
    <2>c. c \in CallType /\ c.rest \subseteq calls[n].rest /\ c.awaiting = <<new>>
      BY <1>2, <2>4 DEF CallType
    <2>d. calls' = [calls EXCEPT ![n] = c]
      BY <1>2, <2>1, <2>n DEF CallType, DiscoveryInv, DiscoveryTypeOK
    <2> HIDE DEF c
    <2>5. /\ calls' \in Seq(CallType) /\ DOMAIN calls' = DOMAIN calls
          /\ calls'[n].awaiting = <<new>>
          /\ \A k \in DOMAIN calls' : calls'[k].rest \subseteq registry'
          /\ \A k \in DOMAIN calls \ {n} : calls'[k] = calls[k]
      BY <1>3, <2>c, <2>d, CallMoves DEF DiscoveryInv
    <2>6. DiscoveryTypeOK'
      BY <1>2, <1>3, <2>1, <2>2, <2>5 DEF DiscoveryInv, DiscoveryTypeOK
    <2>7. \A m : Fits(m) => Fits(m)' /\ Strangers(m, new)
      <3>1. \A m : Fits(m) => Fits(m)'
        BY <1>3, <2>1 DEF Fits, Within, minStake, maxStake
      <3>2. \A m : Fits(m) => Strangers(m, new)
        BY <2>2, <2>4 DEF Fits, Strangers
      <3> QED BY <3>1, <3>2
    <2>8. Fits(new)'
      BY <1>3, <2>1, <2>4 DEF Fits, Within, minStake, maxStake
    <2>9. Waits(n)' /\ Awaited(n)' = new /\ \A k \in DOMAIN calls \ {n} : Waits(k)' => Waits(k) /\ Awaited(k)' = Awaited(k)
      BY <2>5 DEF Waits, Awaited
    <2>10. \A m, o : Strangers(m, o)' = Strangers(m, o) /\ Strangers(m, o) = Strangers(o, m)
      BY DEF Strangers
    <2>11. PromisesKept'
      <3>1. PromisesKept /\ matches' = matches /\ DOMAIN calls' = DOMAIN calls
        BY <1>3, <2>5 DEF DiscoveryInv
      <3>2. \A m \in matches' : Fits(m)'
        BY <3>1, <2>7 DEF PromisesKept
      <3>3. \A m, o \in matches' : m # o => Strangers(m, o)'
        BY <3>1, <2>10 DEF PromisesKept
      <3>4. \A k \in DOMAIN calls' : Waits(k)' =>
              Fits(Awaited(k))' /\ \A m \in matches' : Strangers(m, Awaited(k))'
        <4>1. ASSUME NEW k \in DOMAIN calls, Waits(k)', k = n
              PROVE  Fits(Awaited(k))' /\ \A m \in matches : Strangers(m, Awaited(k))'
          BY <4>1, <3>1, <2>7, <2>8, <2>9 DEF PromisesKept, Fits, Strangers, Within, minStake, maxStake
        <4>2. ASSUME NEW k \in DOMAIN calls, Waits(k)', k # n
              PROVE  Fits(Awaited(k))' /\ \A m \in matches : Strangers(m, Awaited(k))'
          <5>1. Waits(k) /\ Awaited(k)' = Awaited(k)
            BY <4>2, <2>9
          <5>2. Fits(Awaited(k)) /\ \A m \in matches : Strangers(m, Awaited(k))
            BY <5>1, <3>1 DEF PromisesKept
          <5> QED BY <1>3, <2>1, <5>1, <5>2 DEF Fits, Strangers, Within, minStake, maxStake
        <4> QED BY <3>1, <4>1, <4>2
      <3>5. \A j, k \in DOMAIN calls' : Waits(j)' /\ Waits(k)' /\ j # k => Strangers(Awaited(j), Awaited(k))'
        <4>1. ASSUME NEW k \in DOMAIN calls \ {n}, Waits(k)'
              PROVE  Strangers(Awaited(k), new)
          BY <4>1, <3>1, <2>7, <2>9 DEF PromisesKept
        <4> QED BY <4>1, <3>1, <2>9 DEF PromisesKept, Strangers
      <3> QED BY <3>2, <3>3, <3>4, <3>5 DEF PromisesKept
    <2> QED BY <2>6, <2>11 DEF DiscoveryInv
  <1> QED BY <1>4, <1>5

LEMMA ConfirmedKeeps ==
    ASSUME DiscoveryInv, NEW n \in DOMAIN calls, Confirmed(n)
    PROVE  DiscoveryInv'
  <1>1. calls \in Seq(CallType) /\ calls[n] \in CallType /\ Waits(n)
    BY DEF DiscoveryInv, DiscoveryTypeOK, Confirmed, Waits
  <1>2. PICK m \in Match : calls[n].awaiting = <<m>>
    BY <1>1 DEF CallType, Waits
  <1>3. Awaited(n) = m /\ matches' = matches \union {m}
    BY <1>2 DEF Awaited, Confirmed, Range
  <1> DEFINE c == [calls[n] EXCEPT !.awaiting = <<>>]
  <1>c. c \in CallType /\ c.rest \subseteq calls[n].rest /\ c.awaiting = <<>>
    BY <1>1 DEF CallType
  <1>d. calls' = [calls EXCEPT ![n] = c] /\ UNCHANGED registry
    BY DEF Confirmed
  <1> HIDE DEF c
  <1>4. /\ calls' \in Seq(CallType) /\ DOMAIN calls' = DOMAIN calls /\ calls'[n].awaiting = <<>>
        /\ \A k \in DOMAIN calls' : calls'[k].rest \subseteq registry'
        /\ \A k \in DOMAIN calls \ {n} : calls'[k] = calls[k]
    BY <1>c, <1>d, CallMoves DEF DiscoveryInv
  <1>5. UNCHANGED <<agentCounter, stake, registry, matched>>
    BY DEF Confirmed
  <1>6. DiscoveryTypeOK'
    BY <1>3, <1>4, <1>5 DEF DiscoveryInv, DiscoveryTypeOK
  <1>7. ~Waits(n)' /\ \A k \in DOMAIN calls \ {n} : Waits(k)' => Waits(k) /\ Awaited(k)' = Awaited(k)
    BY <1>4 DEF Waits, Awaited
  <1>8. \A o, q : Strangers(o, q)' = Strangers(o, q) /\ Strangers(o, q) = Strangers(q, o)
    BY DEF Strangers
  <1>9. \A o : Fits(o)' = Fits(o)
    BY <1>5 DEF Fits, Within, minStake, maxStake
  <1>10. PromisesKept'
    BY <1>1, <1>3, <1>4, <1>7, <1>8, <1>9 DEF DiscoveryInv, PromisesKept
  <1> QED BY <1>6, <1>10 DEF DiscoveryInv

LEMMA DiscoveryStep == DiscoveryInv /\ [Next]_vars => DiscoveryInv'
  <1> SUFFICES ASSUME DiscoveryInv, [Next]_vars PROVE DiscoveryInv'
    OBVIOUS
  <1>1. ASSUME NEW preferred \in Stakes, registerAgent(preferred) PROVE DiscoveryInv'
    BY <1>1, RegisterKeeps
  <1>2. ASSUME NEW a \in 1..agentCounter, Announced(a) PROVE DiscoveryInv'
    BY <1>2, AnnouncedKeeps
  <1>3. CASE autonomousMatchAll
    BY <1>3, MatchAllKeeps
  <1>4. ASSUME NEW n \in DOMAIN calls, NextAgent(n) PROVE DiscoveryInv'
    BY <1>4, NextAgentKeeps
  <1>5. ASSUME NEW n \in DOMAIN calls, Confirmed(n) PROVE DiscoveryInv'
    BY <1>5, ConfirmedKeeps
  <1>6. CASE UNCHANGED vars
    BY <1>6 DEF vars, DiscoveryInv, DiscoveryTypeOK, PromisesKept, Waits, Awaited, Strangers, Fits, Within, minStake, maxStake
  <1> QED BY <1>1, <1>2, <1>3, <1>4, <1>5, <1>6 DEF Next

\* However many calls overlap, an agent is in one match at most, and at a stake within both agents'
\* ranges (matchAgents marks both before it awaits; findOpponent; negotiateStake).
THEOREM MatchedOnce == Spec => []OneMatchEach
  <1>1. DiscoveryInv => OneMatchEach
    BY DEF DiscoveryInv, PromisesKept, OneMatchEach, Fits, Strangers
  <1> QED BY <1>1, DiscoveryInit, DiscoveryStep, PTL DEF Spec
-------------------------------------------------------------------------------
(* That nobody is left over: whom a call has dealt with is matched, or was    *)
(* refused by all that are unmatched among those the call knows.              *)

\* A set of numbers that is not empty has a least one.
LEMMA LeastNat == ASSUME NEW T \in SUBSET Nat, T # {} PROVE \E x \in T : \A y \in T : y >= x
  <1> DEFINE R == {ss \in Nat \X Nat : ss[1] < ss[2]}
  <1>1. \E x \in T : \A y \in T : ~(<<y, x>> \in R)
    <2>1. IsWellFoundedOn(R, Nat)
      BY NatLessThanWellFounded DEF OpToRel
    <2> HIDE DEF R
    <2> QED BY <2>1, WFMin
  <1>2. \A x, y \in Nat : y < x => <<y, x>> \in R
    OBVIOUS
  <1> HIDE DEF R
  <1>3. PICK x \in T : \A y \in T : ~(<<y, x>> \in R)
    BY <1>1
  <1>4. \A y \in T : y \in Nat /\ x \in Nat /\ ~(y < x)
    BY <1>2, <1>3
  <1>5. \A y \in T : y >= x
    BY <1>4
  <1> QED BY <1>5

LEMMA DistanceNat ==
    ASSUME NEW a, NEW b, stake[a] \in Nat, stake[b] \in Nat
    PROVE  Distance(a, b) \in Nat
  <1> DEFINE x == stake[a] - stake[b]
             y == stake[b] - stake[a]
  <1>1. x \in Int /\ y \in Int /\ (x >= 0 \/ y >= 0)
    OBVIOUS
  <1> HIDE DEF x, y
  <1>2. Max({x, y}) \in {x, y} /\ Max({x, y}) >= x /\ Max({x, y}) >= y
    BY <1>1, MaxOfTwo
  <1>3. Distance(a, b) = Max({x, y})
    BY DEF Distance, x, y
  <1> QED BY <1>1, <1>2, <1>3

\* findOpponent returns somebody whenever anybody is compatible: the closest candidate, at the least.
LEMMA OpponentExists ==
    ASSUME DiscoveryTypeOK, NEW a \in registry, NEW c \in Available(a), ~Incompatible(a, c)
    PROVE  Opponents(a) # {}
  <1> DEFINE candidates == {d \in Available(a) : ~Incompatible(a, d)}
             distances == {Distance(a, d) : d \in candidates}
  <1>1. \A d \in registry : stake[d] \in Nat
    BY DEF DiscoveryTypeOK
  <1>2. candidates \subseteq registry /\ c \in candidates
    BY DEF Available
  <1>3. distances \in SUBSET Nat /\ distances # {}
    BY <1>1, <1>2, DistanceNat
  <1> HIDE DEF distances
  <1>4. PICK x \in distances : \A y \in distances : y >= x
    BY <1>3, LeastNat
  <1>5. Min(distances) \in distances /\ \A y \in distances : Min(distances) <= y
    <2>1. \E m \in distances : \A y \in distances : m <= y
      BY <1>3, <1>4
    <2> QED BY <2>1 DEF Min
  <1>6. PICK d \in candidates : Distance(a, d) = Min(distances)
    BY <1>5 DEF distances
  <1>7. Distance(a, d) < Min(distances) + Jitter
    <2>1. Jitter \in Nat \ {0} /\ Min(distances) \in Nat
      BY <1>3, <1>5, DiscoveryAssumption DEF DiscoveryAssumption
    <2> QED BY <1>6, <2>1
  <1> QED BY <1>7 DEF Opponents, distances

\* What a call has dealt with so far.
Refused(n) == \A a \in calls[n].known \ (calls[n].rest \union matched), b \in calls[n].known \ matched :
                 a # b => Incompatible(a, b)

RefusedInv == \A n \in DOMAIN calls : calls[n].known \subseteq registry /\ Refused(n)

LEMMA NextAgentRefused ==
    ASSUME DiscoveryTypeOK, RefusedInv, NEW n \in DOMAIN calls, NextAgent(n)
    PROVE  RefusedInv'
  <1>0. UNCHANGED <<stake, registry>>
    BY DEF NextAgent
  <1>1. calls \in Seq(CallType) /\ calls[n] \in CallType
    BY DEF DiscoveryTypeOK
  <1>2. PICK a \in calls[n].rest :
          LET after == [calls EXCEPT ![n].rest = @ \ {a}]
          IN  IF a \in matched \/ Opponents(a) = {} THEN calls' = after /\ UNCHANGED matched
              ELSE \E b \in Opponents(a) :
                     /\ matched' = matched \union {a, b}
                     /\ calls' = [after EXCEPT ![n].awaiting =
                                    <<[a |-> a, b |-> b, stake |-> negotiateStake(a, b)]>>]
    BY DEF NextAgent
  <1>3. /\ DOMAIN calls' = DOMAIN calls
        /\ \A k \in DOMAIN calls \ {n} : calls'[k] = calls[k]
        /\ calls'[n].known = calls[n].known /\ calls'[n].rest = calls[n].rest \ {a}
    <2>1. PICK after : after = [calls EXCEPT ![n].rest = @ \ {a}]
      OBVIOUS
    <2>2. /\ after \in Seq(CallType) /\ DOMAIN after = DOMAIN calls
          /\ \A k \in DOMAIN calls \ {n} : after[k] = calls[k]
          /\ after[n].known = calls[n].known /\ after[n].rest = calls[n].rest \ {a}
      BY <1>1, <2>1 DEF CallType
    <2>3. calls' = after \/ \E m : calls' = [after EXCEPT ![n].awaiting = <<m>>]
      BY <1>2, <2>1
    <2>4. ASSUME NEW m, calls' = [after EXCEPT ![n].awaiting = <<m>>]
          PROVE  /\ DOMAIN calls' = DOMAIN after /\ \A k \in DOMAIN calls \ {n} : calls'[k] = after[k]
                 /\ calls'[n].known = after[n].known /\ calls'[n].rest = after[n].rest
      <3>1. after[n] \in CallType /\ n \in DOMAIN after
        BY <2>2
      <3> QED BY <2>4, <3>1 DEF CallType
    <2> QED BY <2>2, <2>3, <2>4
  <1>4. matched \subseteq matched' /\ (a \in matched' \/ Opponents(a) = {})
    BY <1>2
  <1>5. \A b, c : Incompatible(b, c)' = Incompatible(b, c)
    BY <1>0 DEF Incompatible, overlapMin, overlapMax, minStake, maxStake
  <1>6. ASSUME NEW k \in DOMAIN calls PROVE Refused(k)'
    <2> SUFFICES ASSUME NEW b \in calls'[k].known \ (calls'[k].rest \union matched'),
                        NEW c \in calls'[k].known \ matched', b # c
                 PROVE  Incompatible(b, c)
      BY <1>5 DEF Refused
    <2>1. CASE b \notin calls[k].rest
      BY <1>3, <1>4, <2>1 DEF RefusedInv, Refused
    <2>2. CASE b \in calls[k].rest
      <3>1. k = n /\ b = a
        BY <1>3, <2>2
      <3>2. c \in Available(a) /\ a \in registry
        BY <1>3, <1>4, <3>1 DEF RefusedInv, Available
      <3> QED BY <1>4, <3>1, <3>2, OpponentExists
    <2> QED BY <2>1, <2>2
  <1> QED BY <1>0, <1>3, <1>6 DEF RefusedInv

LEMMA RefusedStep == DiscoveryTypeOK /\ RefusedInv /\ [Next]_vars => RefusedInv'
  <1> SUFFICES ASSUME DiscoveryTypeOK, RefusedInv, [Next]_vars PROVE RefusedInv'
    OBVIOUS
  <1>1. ASSUME NEW preferred \in Stakes, registerAgent(preferred) PROVE RefusedInv'
    <2>1. UNCHANGED <<registry, matched, calls>> /\ stake' = Append(stake, preferred)
      BY <1>1 DEF registerAgent
    <2>2. \A a \in registry : stake'[a] = stake[a]
      BY <2>1 DEF DiscoveryTypeOK
    <2>3. \A a, b \in registry : Incompatible(a, b)' = Incompatible(a, b)
      BY <2>2 DEF Incompatible, overlapMin, overlapMax, minStake, maxStake
    <2> QED BY <2>1, <2>3 DEF RefusedInv, Refused
  <1>2. ASSUME NEW a \in 1..agentCounter, Announced(a) PROVE RefusedInv'
    BY <1>2 DEF Announced, RefusedInv, Refused, Incompatible, overlapMin, overlapMax, minStake, maxStake
  <1>3. CASE autonomousMatchAll
    <2>1. /\ UNCHANGED <<stake, registry, matched>>
          /\ calls' = Append(calls, Call(registry, registry \ matched))
      BY <1>3 DEF autonomousMatchAll
    <2>2. /\ DOMAIN calls' = DOMAIN calls \union {Len(calls) + 1}
          /\ \A n \in DOMAIN calls : calls'[n] = calls[n]
          /\ calls'[Len(calls) + 1] = Call(registry, registry \ matched)
      BY <2>1 DEF DiscoveryTypeOK
    <2>3. \A a, b : Incompatible(a, b)' = Incompatible(a, b)
      BY <2>1 DEF Incompatible, overlapMin, overlapMax, minStake, maxStake
    <2> QED BY <2>1, <2>2, <2>3 DEF RefusedInv, Refused, Call
  <1>4. ASSUME NEW n \in DOMAIN calls, NextAgent(n) PROVE RefusedInv'
    BY <1>4, NextAgentRefused
  <1>5. ASSUME NEW n \in DOMAIN calls, Confirmed(n) PROVE RefusedInv'
    <2>1. UNCHANGED <<stake, registry, matched>> /\ calls' = [calls EXCEPT ![n].awaiting = <<>>]
      BY <1>5 DEF Confirmed
    <2>2. /\ DOMAIN calls' = DOMAIN calls
          /\ \A k \in DOMAIN calls : calls'[k].known = calls[k].known /\ calls'[k].rest = calls[k].rest
      <3>1. calls \in Seq(CallType) /\ calls[n] \in CallType
        BY DEF DiscoveryTypeOK
      <3> QED BY <2>1, <3>1 DEF CallType
    <2>3. \A a, b : Incompatible(a, b)' = Incompatible(a, b)
      BY <2>1 DEF Incompatible, overlapMin, overlapMax, minStake, maxStake
    <2> QED BY <2>1, <2>2, <2>3 DEF RefusedInv, Refused
  <1>6. CASE UNCHANGED vars
    BY <1>6 DEF vars, RefusedInv, Refused, Incompatible, overlapMin, overlapMax, minStake, maxStake
  <1> QED BY <1>1, <1>2, <1>3, <1>4, <1>5, <1>6 DEF Next

\* Two agents that are incompatible have no stake within both ranges.
LEMMA NothingInCommon ==
    ASSUME NEW a, NEW b, stake[a] \in Nat, stake[b] \in Nat, Incompatible(a, b), NEW s \in Int
    PROVE  ~(Within(s, a) /\ Within(s, b))
  <1>1. /\ minStake(a) \in Int /\ maxStake(a) \in Int
        /\ minStake(b) \in Int /\ maxStake(b) \in Int
    BY RangeBounds
  <1>2. overlapMin(a, b) \in {minStake(a), minStake(b)} /\ overlapMax(a, b) \in {maxStake(a), maxStake(b)}
    BY <1>1, MaxOfTwo, MinOfTwo DEF overlapMin, overlapMax
  <1> QED BY <1>1, <1>2 DEF Within, Incompatible

\* However calls of autonomousMatchAll overlap, one that is through leaves no two agents it knew
\* unmatched that would accept each other (findOpponent tries all that are available).
THEOREM NobodyIsLeftOver == Spec => []NobodyLeftOver
  <1>1. ASSUME DiscoveryTypeOK, RefusedInv PROVE NobodyLeftOver
    <2> SUFFICES ASSUME NEW n \in DOMAIN calls, calls[n].rest = {},
                        NEW a \in calls[n].known \ matched, NEW b \in calls[n].known \ matched, a # b,
                        NEW s \in 1..maxStake(a)
                 PROVE  ~(Within(s, a) /\ Within(s, b))
      BY DEF NobodyLeftOver
    <2>1. Incompatible(a, b) /\ a \in registry /\ b \in registry
      BY <1>1 DEF RefusedInv, Refused
    <2>2. stake[a] \in Nat /\ stake[b] \in Nat
      BY <1>1, <2>1 DEF DiscoveryTypeOK
    <2>3. s \in Int
      BY <2>2, RangeBounds
    <2> QED BY <2>1, <2>2, <2>3, NothingInCommon
  <1>2. Init => RefusedInv
    BY DEF Init, RefusedInv
  <1>3. DiscoveryInv => DiscoveryTypeOK
    BY DEF DiscoveryInv
  <1> QED BY <1>1, <1>2, <1>3, DiscoveryInit, DiscoveryStep, RefusedStep, PTL DEF Spec
===============================================================================
