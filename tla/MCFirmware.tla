----------------------------- MODULE MCFirmware -----------------------------
(* Small instance of Firmware. *)
EXTENDS Firmware
=============================================================================
