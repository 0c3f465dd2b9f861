------------------------------- MODULE MCScan -------------------------------
(* Small instance of Scan. *)
EXTENDS Scan

ThreeInputs == {1, 2, 3}
OneOutput == {4}
=============================================================================
