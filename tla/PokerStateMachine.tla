---------------------------- MODULE PokerStateMachine ----------------------------
(***************************************************************************)
(* The wallet's chain of hand tokens, PokerStateMachine of                 *)
(* src/src/agent/poker-state-machine.ts, one machine per seat in           *)
(* peer-to-peer mode: a token is locked to one player's key, who spends it *)
(* into the next.  A seat has two keys: it signs with the one its wallet   *)
(* derives for the protocol, but the other seat knows only its identity    *)
(* key and locks to that.  The transactions of both wallets form one       *)
(* ledger, those the network refuses included; a token is known by its     *)
(* place there.                                                            *)
(***************************************************************************)
EXTENDS Integers, Sequences

CONSTANTS
    MaxFaults,      \* bound: sound wallet calls that fail, and answers without a transaction
    Faulty          \* bound: the seats whose wallet does so

Seats == {0, 1}
Opponent(s) == 1 - s

\* The keys: derived with counterparty self, and the wallet's own, which the opponent is configured with.
Protocol(s) == [of |-> s, kind |-> "protocol"]
Identity(s) == [of |-> s, kind |-> "identity"]

VARIABLES
    tokens,     \* the ledger: [hand, version, by, lockedTo, spends, valid], spends = 0 for a birth;
                \* valid tells whether the network takes it
    machine,    \* per seat: liveUtxo (<<>> or <<[id, lockedTo, version]>>) and cellVersion
    faults      \* bound: how many so far

machineVars == <<tokens, machine, faults>>

MachineInit ==
    /\ tokens = <<>>
    /\ machine = [s \in Seats |-> [live |-> <<>>, cellVersion |-> 0]]
    /\ faults = 0

\* What a wallet call does: it answers, answers without the transaction's BEEF, or throws.
Answers == {"ok", "nobeef", "throws"}
Answered(s, answer, sound) ==
    LET fault == answer = "nobeef" \/ (answer = "throws" /\ sound)
    IN  /\ fault => s \in Faulty /\ faults < MaxFaults
        /\ faults' = faults + (IF fault THEN 1 ELSE 0)

canISpend(s) == machine[s].live # <<>> /\ machine[s].live[1].lockedTo = Protocol(s)

\* Whether the signature of createSignature unlocks the token, and the network knows it.
Unlocks(s, id) == tokens[id].valid /\ tokens[id].lockedTo = Protocol(s)

Token(hand, version, s, to, spends, valid) ==
    [hand |-> hand, version |-> version, by |-> s, lockedTo |-> to, spends |-> spends, valid |-> valid]
Live(id, to, version) == <<[id |-> id, lockedTo |-> to, version |-> version]>>

\* createHandToken: without BEEF the token is on the chain, but the machine forgets it.
createHandToken(s, hand, to, answer) ==
    /\ Answered(s, answer, TRUE)
    /\ tokens' = IF answer = "throws" THEN tokens ELSE Append(tokens, Token(hand, 1, s, to, 0, TRUE))
    /\ machine' = [machine EXCEPT ![s] =
         [live |-> IF answer = "ok" THEN Live(Len(tokens) + 1, to, 1) ELSE <<>>, cellVersion |-> 1]]

\* transition, when this seat believes it can spend: the version moves before the wallet is asked; the
\* new token is live whether or not its BEEF came back, unless the hand ends with it.  A wallet that is
\* asked to spend what its signature does not unlock may throw, or answer all the same.
transition(s, hand, to, answer, ends) ==
    LET v == machine[s].cellVersion + 1
        live == machine[s].live
        sound == Unlocks(s, live[1].id)
    IN  /\ canISpend(s)
        /\ Answered(s, answer, sound)
        /\ tokens' = IF answer = "throws" THEN tokens
                     ELSE Append(tokens, Token(hand, v, s, to, live[1].id, sound))
        /\ machine' = [machine EXCEPT ![s] =
             [live |-> IF answer = "throws" THEN live ELSE IF ends THEN <<>> ELSE Live(Len(tokens) + 1, to, v),
              cellVersion |-> v]]

\* Mutant: the version of the token received is not taken over.
acceptUncounted(s, id, version) == machine' = [machine EXCEPT ![s].live = Live(id, Protocol(s), version)]

\* acceptIncomingBeef believes what the opponent's move says of its token, and takes it to be locked to
\* the key this seat signs with, whatever its script says.
acceptIncomingBeef(s, id, version) ==
    machine' = [machine EXCEPT ![s] = [live |-> Live(id, Protocol(s), version), cellVersion |-> version]]

\* endHand spends the token into one locked to the spender, if it can, and forgets the hand's token.
endHand(s, hand, answer) ==
    IF canISpend(s) THEN transition(s, hand, Protocol(s), answer, TRUE)
    ELSE /\ answer = "ok" /\ machine' = [machine EXCEPT ![s].live = <<>>]
         /\ UNCHANGED <<tokens, faults>>
=================================================================================
