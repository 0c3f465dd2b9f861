----------------------------- MODULE MCCommandTx -----------------------------
(* Small instances of CommandTx: one unit of time is one poll interval. *)
EXTENDS CommandTx, TLC

Cmd(k) == [kind |-> k, area |-> 1]

\* One command behind each readiness gate, one behind none and behind the
\* remote-control switch, and the one that yields.
MixedCommands == {Cmd("ArmHome"), Cmd("ArmAway"), Cmd("Disarm"), Cmd("SetTime")}
ArmCommands   == {Cmd("ArmHome"), Cmd("Disarm")}
OneArea == {1}
Identities == Permutations(TxId)
=============================================================================
