---------------------------- MODULE MCHaDeletions ----------------------------
(* Small instances of HaDeletions: a journal shorter than what can be removed. *)
EXTENDS HaDeletions

CONSTANTS door, motion, smoke, i1, i2, i3

SomeConfigs == {{}, {motion}, {smoke}, {door, motion}}
=============================================================================
