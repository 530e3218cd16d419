----------------------------- MODULE MCPrimary -----------------------------
(***************************************************************************)
(* A fid verifies an address with one signer, makes it the primary address *)
(* with another, and the first signer is removed.                          *)
(***************************************************************************)
EXTENDS Account, TLC

SignerEvent(kind, k, b) ==
    [type |-> "signer", kind |-> kind, fid |-> 1, key |-> k, block |-> b, log |-> 0]

UserMsg(store, op, k, v, o, s) ==
    [store |-> store, op |-> op, fid |-> 1, key |-> k, value |-> v,
     order |-> o, signer |-> s]

MCVerified == {
    [genesis |-> <<[type |-> "id", kind |-> "Register", fid |-> 1, key |-> None,
                    block |-> 1, log |-> 0],
                   SignerEvent("Add", "k1", 1), SignerEvent("Add", "k2", 2)>>,
     system  |-> {SignerEvent("Remove", "k2", 3)},
     user    |-> {UserMsg("verification", "add", "a", "", 1, "k2"),
                  UserMsg("verification", "remove", "a", "", 2, "k1"),
                  UserMsg("userdata", "add", "primary", "a", 1, "k1")},
     version |-> "V5", blocks |-> 4, size |-> 1]}

=============================================================================
