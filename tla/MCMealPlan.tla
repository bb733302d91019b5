----------------------------- MODULE MCMealPlan -----------------------------
(* Model values for MealPlan. *)
EXTENDS MealPlan, TLC

CONSTANTS p1, p2, mon, extra, onion, lentils, r1, r2

TwoPlans   == {p1, p2}
OneDay     == {mon}
OneExtra   == {extra}
TwoNeeded  == {onion, lentils}
Planned    == [e \in Entries |-> IF e \in Manual THEN {} ELSE Ingredients]
AtOnce     == {r1, r2}

Symmetry ==
  Permutations(TwoPlans) \cup Permutations(TwoNeeded) \cup Permutations(AtOnce)
=============================================================================
