---------------------------- MODULE MCBroadcastEngine ----------------------------
(* Small wallets: a funding transaction of one or two outputs and splits worth a few calls each. *)
EXTENDS BroadcastEngine

\* A transition is larger than a creation and costs more than the floor, as 146 and 135 sats do.
Fees == [create |-> 2, transition |-> 4, opreturn |-> 2, fund |-> 3]

OwnOnly == <<Output("own", 22)>>

Setting(mode, kinds) == [mode |-> mode, canCrash |-> FALSE, lossy |-> FALSE, persistent |-> FALSE,
                         sweeps |-> TRUE, kinds |-> kinds, funding |-> OwnOnly, lives |-> 1]
Kept(mode, sats, unreliable) ==
    [Setting(mode, {"create"}) EXCEPT !.persistent = TRUE, !.sweeps = FALSE, !.lives = 2,
        !.funding = <<Output("own", sats)>>, !.canCrash = unreliable, !.lossy = unreliable]

\* One process that sweeps at its end, and wallets whose files outlive theirs.
Wallets == {Setting("batch", {"create", "transition"}), Setting("batch", {"opreturn"}),
            Setting("arc", {"create", "transition", "opreturn", "fund"}), Kept("batch", 15, FALSE), Kept("mapi", 9, TRUE)}
================================================================================
