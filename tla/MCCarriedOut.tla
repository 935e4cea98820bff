----------------------------- MODULE MCCarriedOut -----------------------------
(* Links and names of CarriedOut for TLC. *)
EXTENDS CarriedOut, TLC

CONSTANTS l1, l2, l3

MCNames == {Eth(0), Eth(1), Eth(2), Side(1, 0)}

=============================================================================
