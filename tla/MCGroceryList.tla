--------------------------- MODULE MCGroceryList ---------------------------
(* Model values for GroceryList. *)
EXTENDS GroceryList, TLC

CONSTANTS alice, bob, milk, rice, r1, r2

TwoUsers == {alice, bob}
TwoItems == {milk, rice}
OneItem  == {milk}
AtOnce   == {r1, r2}

People   == Permutations(TwoUsers) \cup Permutations(AtOnce)
Symmetry == People \cup Permutations(TwoItems)
=============================================================================
