-------------------------- MODULE MCShardValidator --------------------------
EXTENDS ShardValidator

Msg(kd, k, t, h, s) ==
    [kind |-> kd, key |-> k, ts |-> t, hash |-> h, signer |-> s,
     type |-> "any", target |-> "any", targets |-> {}]

A1 == Msg("add",    "k1", 1, 1, "s1")
A2 == Msg("add",    "k1", 2, 2, "s1")
B2 == Msg("add",    "k2", 2, 4, "s2")

MCMessages == {A1, A2, B2}

Txn(s, msgs) == [removal |-> s, msgs |-> msgs]

\* Two transactions with one root and different events; one that stores two
\* messages of which the batch of the next block can replace the older while
\* it is pruned; and a message that is revoked and merged again.
MCTxns == {
    Txn(None, <<A2>>),
    Txn(None, <<A1, A2>>),
    Txn("s2", <<A1, B2>>),
    Txn(None, <<B2>>)}

\* A replay of it uses two event ids.
MCBadTxns == {Txn(None, <<A1, A2>>)}
=============================================================================
