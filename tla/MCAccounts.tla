----------------------------- MODULE MCAccounts -----------------------------
(* Model values for Accounts. *)
EXTENDS Accounts, TLC

CONSTANTS sarah, alex, carol, r1, r2

Household  == {sarah, alex, carol}
AtOnce     == {r1, r2}
SarahAndAlex == {sarah, alex}
OnlyAlex   == {alex}
OneThenTwo == <<1, 2>>

Symmetry == Permutations(AtOnce)
=============================================================================
