--------------------------- MODULE MCTablePaymentHub ---------------------------
(* The hub on its own: two players, seated or strangers that it is asked about, overlapping calls. *)
EXTENDS TablePaymentHub

MCAmounts == {-1, 0, 1, 3}
===============================================================================
