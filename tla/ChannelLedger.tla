----------------------------- MODULE ChannelLedger -----------------------------
(***************************************************************************)
(* What the payment hub promises, without its queues and counters: one     *)
(* append-only ledger per open channel, whose entries are numbered from 1  *)
(* and carry a running total, and a close that no entry can follow.        *)
(***************************************************************************)
EXTENDS Integers, Sequences

CONSTANTS Players, Amounts

VARIABLES open, closed, ledger

ledgerVars == <<open, closed, ledger>>

Total(entries) == IF entries = <<>> THEN 0 ELSE entries[Len(entries)].cumulativeSatoshis

Init ==
    /\ open = {}
    /\ closed = {}
    /\ ledger = [p \in Players |-> <<>>]

Open ==
    /\ open = {} /\ closed = {}
    /\ open' \in (SUBSET Players) \ {{}}
    /\ UNCHANGED <<closed, ledger>>

Transfer(p, sats) ==
    /\ p \in open
    /\ sats >= 0
    /\ ledger' = [ledger EXCEPT ![p] = Append(@, [tick |-> Len(@) + 1,
                                                  cumulativeSatoshis |-> Total(@) + sats])]
    /\ UNCHANGED <<open, closed>>

Close ==
    /\ open # {}
    /\ closed' = open
    /\ open' = {}
    /\ UNCHANGED ledger

Next == Open \/ Close \/ \E p \in Players, sats \in Amounts : Transfer(p, sats)

Spec == Init /\ [][Next]_ledgerVars
===============================================================================
