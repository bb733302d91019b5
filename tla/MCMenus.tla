------------------------------ MODULE MCMenus ------------------------------
(* Model values for Menus. *)
EXTENDS Menus, TLC

CONSTANTS ann, soup, quick, vegan, dinner, sunday, r1, r2

OneUser   == {ann}
OneRecipe == {soup}
TwoTags   == {quick, vegan}
TwoMenus  == {dinner, sunday}
AtOnce    == {r1, r2}

\* Recipes that lack one tag or another.
NotAll == {[all |-> FALSE, rules |-> {[tag |-> t, contains |-> FALSE] : t \in TwoTags}]}

Symmetry == Permutations(TwoMenus) \cup Permutations(TwoTags) \cup Permutations(AtOnce)
=============================================================================
