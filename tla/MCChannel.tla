------------------------------ MODULE MCChannel ------------------------------
(* Clock values that stand still, advance, jump and go back (the int       *)
(* conversion of curTick wraps).                                           *)
EXTENDS Channel

MCClocks == {-7, 0, 1, 2, 9}
=============================================================================
