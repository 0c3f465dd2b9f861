--------------------------- MODULE MCRetainedState ---------------------------
(* Small instances of RetainedState: one zone and one sensor. *)
EXTENDS RetainedState

AreaModes == {"unscharf", "intern"}
OneZone   == <<"z1">>
OneSensor == <<"s1">>
=============================================================================
