------------------------------- MODULE MCSetup ------------------------------
(* Small instance of Setup. *)
EXTENDS Setup

TwoDetectors == {1, 2}
=============================================================================
