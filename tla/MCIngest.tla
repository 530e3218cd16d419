------------------------------ MODULE MCIngest ------------------------------
(***************************************************************************)
(* Everything that brings messages into a node: the mempools with the      *)
(* channels around them, the two connectors and the gossip task.  The      *)
(* parts share no state in the model, so each behaviour runs one of them:  *)
(* their state spaces add up instead of multiplying.                       *)
(***************************************************************************)
EXTENDS Mempool, TLC

VARIABLES
    part,          \* the part that runs
    o_startBlock, o_stopBlock, o_head, o_cursor, o_phase, o_from, o_final,
    o_contract, o_fetched, o_live, o_delivered, o_handed, o_failed,
    o_faults,
    f_startFrom, f_stopAt, f_latest, f_cursor, f_position, f_phase, f_page,
    f_last, f_handed, f_restarts,
    g_role, g_topics, g_dials, g_conns, g_bootstraps, g_told, g_channels,
    g_statuses, g_closes

oVars == <<o_startBlock, o_stopBlock, o_head, o_cursor, o_phase, o_from,
           o_final, o_contract, o_fetched, o_live, o_delivered, o_handed,
           o_failed, o_faults>>
fVars == <<f_startFrom, f_stopAt, f_latest, f_cursor, f_position, f_phase,
           f_page, f_last, f_handed, f_restarts>>
gVars == <<g_role, g_topics, g_dials, g_conns, g_bootstraps, g_told,
           g_channels, g_statuses, g_closes>>

\* The messages: two user messages of one fid, its two purchases of storage
\* and a transfer of a username of a fid of the other shard.
M(k, f, t, i) == [kind |-> k, fid |-> f, ts |-> t, id |-> i]
MCMessage == {
    M("user", "f1", 1, 1), M("compact", "f1", 1, 2),
    M("rent", "f1", 1, 3), M("rent", "f1", 2, 5), M("fname", "f2", 2, 4)}
MCRoute == [f \in {"f1", "f2"} |-> IF f = "f1" THEN 1 ELSE 2]
MCQuota == <<1, 2>>

C(cap, limits, ns, kinds, ss, subs, chs) ==
    [capacity |-> cap, unlimited |-> cap = 0, rateLimits |-> limits,
     nodes |-> ns, messages |-> {m \in MCMessage : m.kind \in kinds},
     shards |-> ss, submits |-> subs, chunks |-> chs]

\* The ring of channels with two nodes and enough messages to fill it; rate
\* limits and purchases; a read node in front of a validator; transfers.
MCConfigs == {
    C(0, FALSE, {"v1", "r1"}, {"user", "compact"}, {}, 5, 0),
    C(0, TRUE, {"v1"}, {"user", "rent"}, {1}, 2, 2),
    C(0, FALSE, {"v1", "r1"}, {"user"}, {1}, 2, 1),
    C(2, FALSE, {"v1"}, {"fname", "user"}, {1, 2}, 2, 1)}

\* Logs of two contracts, two of them in one block, one that a retry by fid
\* does not ask for and one of an unknown topic.
L(b, i, c, t) == [block |-> b, index |-> i, contract |-> c, topic |-> t, fid |-> "f1"]
MCLog == {
    L(2, 1, 1, "Rent"), L(2, 2, 2, "Register"), L(3, 1, 2, "AdminReset"),
    L(4, 1, 1, "Other")}

MCAnnounced == [peer : {"p2"}, sameNetwork : BOOLEAN, sameVersion : BOOLEAN]

Onchain == INSTANCE OnchainConnector WITH
    Log <- MCLog, NumContracts <- 2, FirstBlock <- 1, BatchSize <- 1,
    Starts <- {0, None}, Stops <- {3, None}, Fid <- {"f1"}, MaxBlock <- 4,
    MaxFaults <- 2,
    startBlock <- o_startBlock, stopBlock <- o_stopBlock, head <- o_head,
    cursor <- o_cursor, phase <- o_phase, from <- o_from, final <- o_final,
    contract <- o_contract, fetched <- o_fetched, live <- o_live,
    delivered <- o_delivered, handed <- o_handed, failed <- o_failed,
    faults <- o_faults

Fname == INSTANCE FnameConnector WITH
    MaxId <- 4, Malformed <- {2}, PageSize <- 2, Starts <- {0, 1, None},
    Stops <- {4, None}, MaxRestarts <- 2,
    startFrom <- f_startFrom, stopAt <- f_stopAt, latest <- f_latest,
    cursor <- f_cursor, position <- f_position, phase <- f_phase,
    page <- f_page, last <- f_last, handed <- f_handed,
    restarts <- f_restarts

Peers == INSTANCE Gossip WITH
    Peer <- {"p1", "p2"}, Bootstrap <- {"p1"}, Announced <- MCAnnounced,
    Autodiscovery <- TRUE, Request <- {1}, MaxConns <- 2, MaxCloses <- 2,
    role <- g_role, topics <- g_topics, dials <- g_dials, conns <- g_conns,
    bootstraps <- g_bootstraps, told <- g_told, channels <- g_channels,
    statuses <- g_statuses, closes <- g_closes

ASSUME Onchain!OnchainConstants /\ Fname!FnameConstants /\ Peers!GossipConstants

allVars == <<part, vars, oVars, fVars, gVars>>

\* The parts that do not run keep one initial state.
MCInit ==
    /\ part \in {"mempool", "onchain", "fname", "gossip"}
    /\ Init /\ Onchain!Init /\ Fname!Init /\ Peers!Init
    /\ part # "mempool" => config = CHOOSE c \in Configs : TRUE
    /\ part # "onchain" => o_startBlock = None /\ o_stopBlock = None
    /\ part # "fname" => f_startFrom = None /\ f_stopAt = None
    /\ part # "gossip" => g_role = "validator"

MCNext ==
    /\ UNCHANGED part
    /\ \/ part = "mempool" /\ Next /\ UNCHANGED <<oVars, fVars, gVars>>
       \/ part = "onchain" /\ Onchain!Next /\ UNCHANGED <<vars, fVars, gVars>>
       \/ part = "fname" /\ Fname!Next /\ UNCHANGED <<vars, oVars, gVars>>
       \/ part = "gossip" /\ Peers!Next /\ UNCHANGED <<vars, oVars, fVars>>

\* The fairness of each part, where it runs.
MCFairness ==
    /\ Fairness
    /\ WF_allVars(/\ part = "onchain" /\ Onchain!Step
                  /\ UNCHANGED <<part, vars, fVars, gVars>>)
    /\ SF_allVars(/\ part = "onchain"
                  /\ \E ok \in BOOLEAN : Onchain!StreamEvent(ok)
                  /\ UNCHANGED <<part, vars, fVars, gVars>>)
    /\ WF_allVars(/\ part = "gossip" /\ Peers!ReconnectTick
                  /\ UNCHANGED <<part, vars, oVars, fVars>>)
    /\ SF_allVars(/\ part = "gossip" /\ Peers!DialSucceeds("p1")
                  /\ UNCHANGED <<part, vars, oVars, fVars>>)

MCSpec == MCInit /\ [][MCNext]_allVars /\ MCFairness

\* No event is left behind by the connector's resume point (see
\* OnchainConnector: record_block_number).
CursorCovers == Onchain!CursorCovers

\* Every event of the chain is handed on or fails (see OnchainConnector: run).
EventsSettle == part = "onchain" => Onchain!EventsSettle

\* No transfer is left behind by the fetcher's resume point (see
\* FnameConnector: record_username_proof).
FnameCursorCovers == Fname!FnameCursorCovers

\* The actors count on connected peers only (see Gossip: ConnectionClosed).
ActorsHearOfPeers == Peers!ActorsHearOfPeers

\* A node gets back to its bootstrap peers (see Gossip:
\* check_and_reconnect_to_bootstrap_peers).
StaysConnected == part = "gossip" => Peers!StaysConnected

=============================================================================
