------------------------------ MODULE MCAccess ------------------------------
(* Small instance of Access. *)
EXTENDS Access
=============================================================================
