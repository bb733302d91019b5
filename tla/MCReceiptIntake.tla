-------------------------- MODULE MCReceiptIntake --------------------------
(* Model values for ReceiptIntake. *)
EXTENDS ReceiptIntake

CONSTANTS photo, text

OnePhoto  == {photo}
OneText   == {text}
=============================================================================
