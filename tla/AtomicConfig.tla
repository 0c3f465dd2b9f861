---------------------------- MODULE AtomicConfig ----------------------------
(***************************************************************************)
(* What the chunked configuration store promises its callers: one stored   *)
(* configuration that a save replaces as a whole or not at all, whatever   *)
(* fails on the way.                                                       *)
(*                                                                         *)
(* The promise has one exception, and it is stated here rather than hidden *)
(* in the detailed module: a save that cannot read which configuration is  *)
(* current ("blind") may destroy it.                                       *)
(***************************************************************************)
CONSTANTS Configs, NoConfig, Broken

VARIABLES stored, saving, blind

vars == <<stored, saving, blind>>

Init ==
  /\ stored \in Configs \cup {NoConfig}
  /\ saving = NoConfig
  /\ blind = FALSE

Begin ==
  /\ saving = NoConfig
  /\ saving' \in Configs
  /\ blind' \in BOOLEAN
  /\ UNCHANGED stored

\* The only step of an ordinary save that shows.
Commit ==
  /\ saving # NoConfig
  /\ stored' = saving
  /\ saving' = NoConfig
  /\ blind' = FALSE

\* Before it, only a blind save disturbs what is stored.
Touch == stored' \in IF blind THEN {stored, Broken, saving} ELSE {stored}

Work == saving # NoConfig /\ Touch /\ UNCHANGED <<saving, blind>>

\* An error was returned, or the power failed.
Abort ==
  /\ saving # NoConfig
  /\ Touch
  /\ saving' = NoConfig
  /\ blind' = FALSE

Next == Begin \/ Work \/ Commit \/ Abort

Spec == Init /\ [][Next]_vars
=============================================================================
