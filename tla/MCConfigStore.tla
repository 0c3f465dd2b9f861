---------------------------- MODULE MCConfigStore ----------------------------
(* Small instances of ConfigStore: configurations of one and of two chunks. *)
EXTENDS ConfigStore

CONSTANTS small, middle, large, none

ThreeConfigs == {small, middle, large}
Chunks       == [c \in Configs |-> IF c = small THEN 1 ELSE 2]
FitJson      == {small, middle} \cap Configs
SomethingOld == {none, small}
=============================================================================
