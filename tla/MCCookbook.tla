----------------------------- MODULE MCCookbook -----------------------------
(* Model values for Cookbook. *)
EXTENDS Cookbook, TLC

CONSTANTS ann, ben, soup, site, r1, r2

TwoUsers  == {ann, ben}
OneRecipe == {soup}
OneSite   == {site}
AtOnce    == {r1, r2}
OneImport == {r1}

Symmetry == Permutations(Users)
=============================================================================
