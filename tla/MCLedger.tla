------------------------------ MODULE MCLedger ------------------------------
(* Instances of BatchLedger for TLC. *)
EXTENDS BatchLedger
=============================================================================
