---------------------------- MODULE MCTransfers ----------------------------
EXTENDS Mempool, TLC

\* Transfers of usernames to a fid of each of the two shards.
MCMessage == {[kind |-> "fname", fid |-> f, ts |-> 1, id |-> i] :
                  f \in {"f1", "f2"}, i \in {1}}
MCRoute == [f \in {"f1", "f2"} |-> IF f = "f1" THEN 1 ELSE 2]
MCConfigs == {[capacity |-> 0, unlimited |-> TRUE, rateLimits |-> FALSE,
               nodes |-> {"v1"}, messages |-> MCMessage, shards |-> {1, 2},
               submits |-> 2, chunks |-> 1]}

=============================================================================
