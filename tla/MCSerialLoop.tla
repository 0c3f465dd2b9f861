---------------------------- MODULE MCSerialLoop ----------------------------
(* Small instances of SerialLoop. *)
EXTENDS SerialLoop, TLC

Disarm  == {[kind |-> "Disarm", area |-> 1]}
OneArea == {1}
Identities == Permutations(TxId)
NothingReady == {NotReady}
=============================================================================
