------------------------------ MODULE MCStock ------------------------------
(* Model values for Stock. *)
EXTENDS Stock, TLC

CONSTANTS alice, bob, dish, shop, r1, r2

TwoUsers  == {alice, bob}
OneDish   == {dish}
OneStore  == {shop}
AtOnce    == {r1, r2}

\* One column at a time, the date of freezing never.
OneColumn == {{"qty"}, {"shared"}, {"freezer"}}

Symmetry  == Permutations(TwoUsers) \cup Permutations(AtOnce)
=============================================================================
