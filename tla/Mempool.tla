------------------------------ MODULE Mempool ------------------------------
(***************************************************************************)
(* The mempools of validators and read nodes (src/src/mempool/mempool.rs)  *)
(* with everything that feeds and empties them: submissions over RPC       *)
(* (network/server.rs), the connectors, the gossip task and the main loop  *)
(* that hands gossiped messages on (network/gossip.rs, main.rs), the       *)
(* engine that pulls messages into a proposal (storage/store/engine.rs)    *)
(* and the broadcast of decided chunks.                                    *)
(*                                                                         *)
(* The tasks of a node are connected in a ring of bounded channels:        *)
(*   mempool --gossip_tx--> gossip --system_tx--> main loop --mempool_tx-->*)
(* mempool.  A task that awaits room in a channel does nothing else.       *)
(* Consensus, the network and the engine's verdict on a message are        *)
(* nondeterministic; messages of the network are lost and reordered.       *)
(***************************************************************************)
EXTENDS Integers, Sequences, FiniteSets, SequencesExt, FiniteSetsExt

CONSTANTS
    Validators, ReadNodes,
    NumShards,          \* num_shards; shards are 1..NumShards
    Fid,
    RouteFid,           \* ShardRouter::route_fid, as a function of the fid
    Message,
    MaxMessagesPerBlock,
    ShardRoutingFix,    \* the feature UsernameShardRoutingFix is enabled
    Quota,              \* the quota for a number of storage units
    QueueSize,          \* room in mempool_tx
    GossipSize,         \* room in gossip_tx
    SystemSize,         \* room in system_tx
    DecisionSize,       \* room in the broadcast of decided chunks
    Configs,            \* the configurations to check
    None

Nodes  == Validators \union ReadNodes
Shards == 1..NumShards

\* A user message with a primary key ("user"), a link compact state
\* ("compact", no primary key), a storage rent event ("rent") or a username
\* transfer ("fname").  ts and id order the messages of a kind.
ASSUME MempoolAssumption ==
    /\ Validators \intersect ReadNodes = {}
    /\ NumShards \in Nat \ {0}
    /\ RouteFid \in [Fid -> Shards]
    /\ Message \subseteq [kind : {"user", "compact", "rent", "fname"},
                          fid : Fid, ts : Nat, id : Nat]
    /\ None \notin Message
    /\ Configs \subseteq [capacity : Nat, unlimited : BOOLEAN,
                          rateLimits : BOOLEAN, nodes : SUBSET Nodes,
                          messages : SUBSET Message, shards : SUBSET Shards,
                          submits : Nat, chunks : Nat]

IsUser(m) == m.kind \in {"user", "compact"}

\* The order of MempoolKey: validator messages first, then the time, then
\* the identity.
KeyBefore(a, b) ==
    \/ ~IsUser(a) /\ IsUser(b)
    \/ /\ IsUser(a) <=> IsUser(b)
       /\ \/ a.ts < b.ts
          \/ a.ts = b.ts /\ a.id < b.id

VARIABLES
    config,        \* capacity_per_shard, allow_unlimited_mempool_size and
                   \* enable_rate_limits, with the nodes that run, the
                   \* messages that exist, the shards whose chunks are
                   \* decided and bounds on submissions and chunks
    messages,      \* messages[n]: the shards with an entry, and its messages
    limiters,      \* limiters[n]: the fids with a rate limiter
    requests,      \* mempool_rx of each node
    sending,       \* the message the mempool awaits room in gossip_tx for
    gossip_tx,
    holding,       \* the message the gossip task awaits room in system_tx for
    system_tx,
    network,       \* network[n]: gossip on its way to n
    pulls,         \* messages_request_rx; live: the engine still waits
    proposal,      \* what the engine of n builds the next chunk of a shard of
    chain,         \* the decided chunks of each shard
    height,        \* the chunks of a shard that a node has committed
    decisions,     \* shard_decision_rx
    lagged,        \* a decision was dropped before the mempool received it
    submitted,     \* history: messages a node got other than by gossip
    broadcast      \* history: how often it was put into gossip_tx

poolVars  == <<messages, limiters>>
ringVars  == <<requests, sending, gossip_tx, holding, system_tx, network>>
blockVars == <<pulls, proposal, chain, height, decisions, lagged>>
histVars  == <<submitted, broadcast>>
vars == <<config, poolVars, ringVars, blockVars, histVars>>

\* The messages of the shard in the stores of n, and the storage units that
\* a fid has rented according to them.
Merged(n, s) == UNION {chain[s][h].merged : h \in 1..height[n][s]}
Units(n, f) ==
    Cardinality({m \in Merged(n, RouteFid[f]) : m.kind = "rent" /\ m.fid = f})

Init ==
    /\ config \in Configs
    /\ messages = [n \in Validators |-> [s \in {} |-> {}]]
    /\ limiters = [n \in Validators |-> [f \in {} |-> 0]]
    /\ requests = [n \in Nodes |-> << >>]
    /\ sending = [n \in Nodes |-> None]
    /\ gossip_tx = [n \in Nodes |-> << >>]
    /\ holding = [n \in Nodes |-> None]
    /\ system_tx = [n \in Nodes |-> << >>]
    /\ network = [n \in Nodes |-> {}]
    /\ pulls = [n \in Validators |-> << >>]
    /\ proposal = [n \in Validators |-> [s \in Shards |-> None]]
    /\ chain = [s \in Shards |-> << >>]
    /\ height = [n \in Nodes |-> [s \in Shards |-> 0]]
    /\ decisions = [n \in Validators |-> << >>]
    /\ lagged = [n \in Validators |-> FALSE]
    /\ submitted = [n \in Nodes |-> [m \in Message |-> 0]]
    /\ broadcast = [n \in Nodes |-> [m \in Message |-> 0]]

-----------------------------------------------------------------------------
(***************************************************************************)
(* Validity: duplicates and rate limits.                                   *)
(***************************************************************************)

\* With a bug: nothing is looked up.
AlwaysNew(n, m) == FALSE

\* message_already_exists: only messages with a primary key are looked up.
AlreadyExists(n, m) == m.kind = "user" /\ m \in Merged(n, RouteFid[m.fid])

\* get_rate_limiter_for_fid: a cached limiter, else one for the storage of
\* the fid, else none.
LimiterFor(n, lim, f) ==
    IF f \in DOMAIN lim THEN lim[f]
    ELSE IF Units(n, f) = 0 THEN None
    ELSE [quota |-> Quota[Units(n, f)], tokens |-> Quota[Units(n, f)]]

\* consume_for_fid: whether the fid may send, and the limiters afterwards.
ConsumeForFid(n, lim, f) ==
    LET l == LimiterFor(n, lim, f)
    IN  IF l = None THEN [ok |-> FALSE, limiters |-> lim]
        ELSE LET ok == l.tokens > 0
                 left == IF ok THEN [l EXCEPT !.tokens = @ - 1] ELSE l
             IN  [ok |-> ok,
                  limiters |-> [g \in DOMAIN lim \union {f} |->
                                    IF g = f THEN left ELSE lim[g]]]

\* message_is_valid.
MessageIsValid(n, lim, m) ==
    IF AlreadyExists(n, m) THEN [ok |-> FALSE, limiters |-> lim]
    ELSE IF IsUser(m) /\ config.rateLimits THEN ConsumeForFid(n, lim, m.fid)
    ELSE [ok |-> TRUE, limiters |-> lim]

\* insert_into_shard, up to the gossip: pool is a pair of messages[n] and
\* limiters[n].
InsertIntoShard(n, pool, s, m) ==
    LET entry == IF s \in DOMAIN pool.messages THEN pool.messages[s] ELSE {}
        valid == MessageIsValid(n, pool.limiters, m)
    IN  IF m \in entry THEN [pool EXCEPT !.ok = FALSE]
        ELSE IF ~valid.ok
        THEN [pool EXCEPT !.ok = FALSE, !.limiters = valid.limiters]
        ELSE [ok |-> TRUE, limiters |-> valid.limiters,
              messages |-> [t \in DOMAIN pool.messages \union {s} |->
                                IF t = s THEN entry \union {m}
                                ELSE pool.messages[t]]]

\* The shards that get a copy of a transfer: the loop in insert.
CopyShards(m) ==
    IF m.kind = "fname" /\ ShardRoutingFix
    THEN (1..(NumShards - 1)) \ {RouteFid[m.fid]}
    ELSE {}

\* insert: the result is that of the original shard.
Insert(n, m) ==
    LET pool == [ok |-> TRUE, messages |-> messages[n], limiters |-> limiters[n]]
        original == InsertIntoShard(n, pool, RouteFid[m.fid], m)
        Copy(p, s) == InsertIntoShard(n, p, s, m)
        copies == FoldSet(LAMBDA s, p : Copy(p, s), original, CopyShards(m))
    IN  [copies EXCEPT !.ok = original.ok]

-----------------------------------------------------------------------------
(***************************************************************************)
(* The mempool task.                                                       *)
(***************************************************************************)

\* The task is not inside the await of gossip_message.
Idle(n) == sending[n] = None

\* With a bug: messages from gossip are broadcast again.
GossipAll(n, m, source) ==
    IF IsUser(m)
    THEN /\ sending' = [sending EXCEPT ![n] = m]
         /\ broadcast' = [broadcast EXCEPT ![n][m] = @ + 1]
    ELSE UNCHANGED <<sending, broadcast>>

\* gossip_message: user messages, unless they came by gossip.
GossipMessage(n, m, source) ==
    IF IsUser(m) /\ source # "Gossip"
    THEN /\ sending' = [sending EXCEPT ![n] = m]
         /\ broadcast' = [broadcast EXCEPT ![n][m] = @ + 1]
    ELSE UNCHANGED <<sending, broadcast>>

\* ReadNodeMempool::run: one request.
ReadNodeAddMessage(n) ==
    /\ n \in ReadNodes
    /\ Idle(n)
    /\ requests[n] # << >>
    /\ requests' = [requests EXCEPT ![n] = Tail(@)]
    /\ LET r == Head(requests[n])
       IN  IF AlreadyExists(n, r.msg) THEN UNCHANGED <<sending, broadcast>>
           ELSE GossipMessage(n, r.msg, r.source)
    /\ UNCHANGED <<config, poolVars, gossip_tx, holding, system_tx, network, blockVars,
                   submitted>>

\* The tick of run takes requests while there is capacity, which counts the
\* shards that have an entry.
HasCapacity(n) ==
    config.unlimited \/ Cardinality(DOMAIN messages[n]) < config.capacity

\* Mempool::run: one request of the tick.
AddMessage(n) ==
    /\ n \in Validators
    /\ Idle(n)
    /\ requests[n] # << >>
    /\ HasCapacity(n)
    /\ requests' = [requests EXCEPT ![n] = Tail(@)]
    /\ LET r == Head(requests[n])
           pool == Insert(n, r.msg)
       IN  /\ messages' = [messages EXCEPT ![n] = pool.messages]
           /\ limiters' = [limiters EXCEPT ![n] = pool.limiters]
           /\ IF pool.ok THEN GossipMessage(n, r.msg, r.source)
              ELSE UNCHANGED <<sending, broadcast>>
    /\ UNCHANGED <<config, gossip_tx, holding, system_tx, network, blockVars, submitted>>

\* The await of gossip_message ends: there is room in gossip_tx.
SendToGossip(n) ==
    /\ sending[n] # None
    /\ Len(gossip_tx[n]) < GossipSize
    /\ gossip_tx' = [gossip_tx EXCEPT ![n] = Append(@, sending[n])]
    /\ sending' = [sending EXCEPT ![n] = None]
    /\ UNCHANGED <<config, poolVars, requests, holding, system_tx, network, blockVars,
                   histVars>>

\* One turn of the loop of pull_messages: the first message is taken out and
\* checked again, and kept if it is still valid.
PullOne(n, acc, m) ==
    LET valid == MessageIsValid(n, acc.limiters, m)
    IN  IF Cardinality(acc.pulled) >= MaxMessagesPerBlock THEN acc
        ELSE [limiters |-> valid.limiters,
              rest |-> acc.rest \ {m},
              pulled |-> IF valid.ok THEN acc.pulled \union {m} ELSE acc.pulled]

\* create_transactions_from_mempool: user messages of fids with storage.
WithStorage(n, ms) == {m \in ms : IsUser(m) => Units(n, m.fid) > 0}

\* pull_messages of the mempool.  The messages are lost when the engine no
\* longer waits for them.
PullMessages(n) ==
    /\ Idle(n)
    /\ pulls[n] # << >>
    /\ pulls' = [pulls EXCEPT ![n] = Tail(@)]
    /\ LET s == Head(pulls[n]).shard
           entry == IF s \in DOMAIN messages[n] THEN messages[n][s] ELSE {}
           result == FoldLeft(LAMBDA acc, m : PullOne(n, acc, m),
                              [limiters |-> limiters[n], rest |-> entry, pulled |-> {}],
                              SetToSortSeq(entry, KeyBefore))
       IN  /\ messages' = [messages EXCEPT ![n] =
                               [t \in DOMAIN @ |->
                                    IF t = s THEN result.rest ELSE @[t]]]
           /\ limiters' = [limiters EXCEPT ![n] = result.limiters]
           /\ proposal' = IF Head(pulls[n]).live
                          THEN [proposal EXCEPT ![n][s] =
                                    WithStorage(n, result.pulled)]
                          ELSE proposal
    /\ UNCHANGED <<config, ringVars, chain, height, decisions, lagged, histVars>>

\* With a bug: a limiter outlives a purchase of storage.
KeepLimiters(n, chunk) == limiters[n]

\* The limiters after a decided chunk: a fid that rents storage loses its
\* limiter, so that the next one has the new quota.
InvalidateLimiters(n, chunk) ==
    [f \in {g \in DOMAIN limiters[n] :
                ~\E m \in chunk.msgs : m.kind = "rent" /\ m.fid = g}
        |-> limiters[n][f]]

\* A decided chunk of a shard that has an entry.
HandleDecision(n) ==
    /\ Idle(n)
    /\ decisions[n] # << >>
    /\ decisions' = [decisions EXCEPT ![n] = Tail(@)]
    /\ LET s == Head(decisions[n]).shard
           chunk == chain[s][Head(decisions[n]).height]
       IN  IF s \in DOMAIN messages[n]
           THEN /\ messages' = [messages EXCEPT ![n][s] = @ \ chunk.msgs]
                /\ limiters' = [limiters EXCEPT ![n] = InvalidateLimiters(n, chunk)]
           ELSE UNCHANGED poolVars
    /\ UNCHANGED <<config, ringVars, pulls, proposal, chain, height, lagged, histVars>>

\* Time passes: a limiter gets a token back, or leaves the cache (idle, or
\* least recently used).
Refill(n, f) ==
    /\ f \in DOMAIN limiters[n]
    /\ limiters[n][f].tokens < limiters[n][f].quota
    /\ limiters' = [limiters EXCEPT ![n][f].tokens = @ + 1]
    /\ UNCHANGED <<config, messages, ringVars, blockVars, histVars>>

Evict(n, f) ==
    /\ f \in DOMAIN limiters[n]
    /\ limiters' = [limiters EXCEPT ![n] =
                        [g \in DOMAIN @ \ {f} |-> @[g]]]
    /\ UNCHANGED <<config, messages, ringVars, blockVars, histVars>>

-----------------------------------------------------------------------------
(***************************************************************************)
(* Feeding the mempool.                                                    *)
(***************************************************************************)

Enqueue(n, m, source) ==
    requests' = [requests EXCEPT ![n] = Append(@, [msg |-> m, source |-> source])]

SumOver(F(_), S) == FoldSet(LAMBDA x, acc : F(x) + acc, 0, S)

Submitted(n, m) ==
    /\ SumOver(LAMBDA k : SumOver(LAMBDA j : submitted[k][j], Message), Nodes)
         < config.submits
    /\ submitted' = [submitted EXCEPT ![n][m] = @ + 1]

\* submit_message_internal: simulate_message refuses a merged message, and
\* try_send refuses when the queue is full.
SubmitMessage(n, m) ==
    /\ IsUser(m)
    /\ ~AlreadyExists(n, m)
    /\ Len(requests[n]) < QueueSize
    /\ Submitted(n, m)
    /\ Enqueue(n, m, "RPC")
    /\ UNCHANGED <<config, poolVars, sending, gossip_tx, holding, system_tx, network,
                   blockVars, broadcast>>

\* A connector of a validator hands on an event or a transfer; its send
\* awaits room in the queue.
ConnectorSend(n, m) ==
    /\ n \in Validators
    /\ ~IsUser(m)
    /\ Len(requests[n]) < QueueSize
    /\ Submitted(n, m)
    /\ Enqueue(n, m, "Local")
    /\ UNCHANGED <<config, poolVars, sending, gossip_tx, holding, system_tx, network,
                   blockVars, broadcast>>

\* The gossip task takes an event from gossip_tx and publishes it to the
\* validators, who alone subscribe to the topic.  Any of them may miss it.
Publish(n) ==
    /\ holding[n] = None
    /\ gossip_tx[n] # << >>
    /\ gossip_tx' = [gossip_tx EXCEPT ![n] = Tail(@)]
    /\ \E reached \in SUBSET ((Validators \intersect config.nodes) \ {n}) :
           network' = [p \in Nodes |->
                           IF p \in reached
                           THEN network[p] \union {Head(gossip_tx[n])}
                           ELSE network[p]]
    /\ UNCHANGED <<config, poolVars, requests, sending, holding, system_tx, blockVars,
                   histVars>>

\* The gossip task receives a message and awaits room in system_tx.
ReceiveGossip(n) ==
    /\ holding[n] = None
    /\ \E m \in network[n] :
           /\ network' = [network EXCEPT ![n] = @ \ {m}]
           /\ holding' = [holding EXCEPT ![n] = m]
    /\ UNCHANGED <<config, poolVars, requests, sending, gossip_tx, system_tx, blockVars,
                   histVars>>

SendToSystem(n) ==
    /\ holding[n] # None
    /\ Len(system_tx[n]) < SystemSize
    /\ system_tx' = [system_tx EXCEPT ![n] = Append(@, holding[n])]
    /\ holding' = [holding EXCEPT ![n] = None]
    /\ UNCHANGED <<config, poolVars, requests, sending, gossip_tx, network, blockVars,
                   histVars>>

\* With a bug: the main loop awaits room in the queue of the mempool.
ForwardWhenRoom(n) ==
    /\ system_tx[n] # << >>
    /\ Len(requests[n]) < QueueSize
    /\ system_tx' = [system_tx EXCEPT ![n] = Tail(@)]
    /\ Enqueue(n, Head(system_tx[n]), "Gossip")
    /\ UNCHANGED <<config, poolVars, sending, gossip_tx, holding, network, blockVars,
                   histVars>>

\* The main loop hands a message on with try_send: it is dropped when the
\* queue of the mempool is full.
ForwardToMempool(n) ==
    /\ system_tx[n] # << >>
    /\ system_tx' = [system_tx EXCEPT ![n] = Tail(@)]
    /\ IF Len(requests[n]) < QueueSize
       THEN Enqueue(n, Head(system_tx[n]), "Gossip")
       ELSE UNCHANGED requests
    /\ UNCHANGED <<config, poolVars, sending, gossip_tx, holding, network, blockVars,
                   histVars>>

-----------------------------------------------------------------------------
(***************************************************************************)
(* The engine and consensus.                                               *)
(***************************************************************************)

\* pull_messages of the engine: one proposal of a shard at a time.
RequestMessages(n, s) ==
    /\ proposal[n][s] = None
    /\ \A i \in DOMAIN pulls[n] : pulls[n][i].shard # s
    /\ height[n][s] = Len(chain[s])
    /\ SumOver(LAMBDA t : Len(chain[t]), Shards) < config.chunks
    /\ pulls' = [pulls EXCEPT ![n] = Append(@, [shard |-> s, live |-> TRUE])]
    /\ UNCHANGED <<config, poolVars, ringVars, proposal, chain, height, decisions,
                   lagged, histVars>>

\* The engine does not get the messages in time and proceeds with none.
PullTimeout(n, i) ==
    /\ i \in DOMAIN pulls[n]
    /\ pulls[n][i].live
    /\ pulls' = [pulls EXCEPT ![n][i].live = FALSE]
    /\ proposal' = [proposal EXCEPT ![n][pulls[n][i].shard] = {}]
    /\ UNCHANGED <<config, poolVars, ringVars, chain, height, decisions, lagged, histVars>>

\* A chunk is decided.  Validator messages and some of the user messages are
\* merged; proposals for its height are dropped.
DecideChunk(s, ms) ==
    /\ SumOver(LAMBDA t : Len(chain[t]), Shards) < config.chunks
    /\ \E bad \in SUBSET {m \in ms : IsUser(m)} :
           chain' = [chain EXCEPT ![s] =
                         Append(@, [msgs |-> ms, merged |-> ms \ bad])]
    /\ proposal' = [n \in Validators |-> [proposal[n] EXCEPT ![s] = None]]
    /\ UNCHANGED <<config, poolVars, ringVars, pulls, height, decisions, lagged, histVars>>

\* The proposal of a validator is decided.
Decide(n, s) == proposal[n][s] # None /\ DecideChunk(s, proposal[n][s])

\* A proposal of a validator outside the model, with one message, is.
DecideOther(s, m) ==
    /\ RouteFid[m.fid] = s
    /\ DecideChunk(s, {m})

\* A proposal is not decided.
Abandon(n, s) ==
    /\ proposal[n][s] # None
    /\ proposal' = [proposal EXCEPT ![n][s] = None]
    /\ UNCHANGED <<config, poolVars, ringVars, pulls, chain, height, decisions, lagged,
                   histVars>>

\* A node commits the next chunk; a validator broadcasts it to its mempool,
\* and the oldest decision is dropped when the broadcast is full.
Commit(n, s) ==
    /\ height[n][s] < Len(chain[s])
    /\ height' = [height EXCEPT ![n][s] = @ + 1]
    /\ IF n \in Validators
       THEN LET full == Len(decisions[n]) = DecisionSize
                kept == IF full THEN Tail(decisions[n]) ELSE decisions[n]
                decision == [shard |-> s, height |-> height[n][s] + 1]
            IN  /\ decisions' = [decisions EXCEPT ![n] = Append(kept, decision)]
                /\ lagged' = [lagged EXCEPT ![n] = @ \/ full]
       ELSE UNCHANGED <<decisions, lagged>>
    /\ UNCHANGED <<config, poolVars, ringVars, pulls, proposal, chain, histVars>>

Next ==
    \/ \E n \in config.nodes, m \in config.messages :
           SubmitMessage(n, m) \/ ConnectorSend(n, m)
    \/ \E n \in config.nodes :
           \/ ReadNodeAddMessage(n) \/ AddMessage(n)
           \/ SendToGossip(n) \/ Publish(n)
           \/ ReceiveGossip(n) \/ SendToSystem(n) \/ ForwardToMempool(n)
    \/ \E n \in Validators \intersect config.nodes :
           \/ PullMessages(n) \/ HandleDecision(n)
           \/ \E f \in Fid : Refill(n, f) \/ Evict(n, f)
           \/ \E s \in config.shards : RequestMessages(n, s) \/ Decide(n, s)
                              \/ Abandon(n, s)
           \/ \E i \in DOMAIN pulls[n] : PullTimeout(n, i)
    \/ \E s \in config.shards, m \in config.messages : DecideOther(s, m)
    \/ \E n \in config.nodes, s \in config.shards : Commit(n, s)

Spec == Init /\ [][Next]_vars

\* The tasks of the ring keep running.
Fairness ==
    \A n \in Nodes :
        /\ WF_vars(SendToGossip(n))
        /\ WF_vars(Publish(n))
        /\ WF_vars(SendToSystem(n))
        /\ WF_vars(ForwardToMempool(n))

FairSpec == Spec /\ Fairness

-----------------------------------------------------------------------------
(***************************************************************************)
(* Properties.                                                             *)
(***************************************************************************)

Limiter == [quota : Nat, tokens : Nat]

TypeOK ==
    /\ \A n \in Validators :
           /\ DOMAIN messages[n] \subseteq Shards
           /\ \A s \in DOMAIN messages[n] : messages[n][s] \subseteq Message
           /\ DOMAIN limiters[n] \subseteq Fid
           /\ \A f \in DOMAIN limiters[n] :
                  /\ limiters[n][f] \in Limiter
                  /\ limiters[n][f].tokens <= limiters[n][f].quota
    /\ \A n \in Nodes :
           /\ Len(requests[n]) <= QueueSize
           /\ Len(gossip_tx[n]) <= GossipSize
           /\ Len(system_tx[n]) <= SystemSize
           /\ sending[n] \in Message \union {None}
           /\ holding[n] \in Message \union {None}
           /\ network[n] \subseteq Message

\* A message that a proposer takes from its mempool is not one that its own
\* stores already hold, although the mempool may have missed the decision
\* that merged it: pull_messages checks again.
PulledNotMerged ==
    [][\A n \in Validators, s \in Shards :
          proposal'[n][s] \notin {None, proposal[n][s]} =>
              \A m \in proposal'[n][s] :
                  m.kind = "user" => m \notin Merged(n, RouteFid[m.fid])]_vars

\* The limiter of a fid has the quota of the storage the fid has: a purchase
\* invalidates it, unless the decision is still queued or was dropped by the
\* broadcast.
LimiterFresh ==
    \A n \in Validators : \A f \in DOMAIN limiters[n] :
        \/ limiters[n][f].quota = Quota[Units(n, f)]
        \/ lagged[n]
        \/ \E i \in DOMAIN decisions[n] :
               LET d == decisions[n][i]
               IN  \E m \in chain[d.shard][d.height].msgs :
                       m.kind = "rent" /\ m.fid = f

\* A node broadcasts a message at most once for each time it was submitted to
\* that node: what arrives by gossip is never broadcast again
\* (gossip_message), so gossip between mempools dies out.
RebroadcastBounded ==
    \A n \in Nodes, m \in Message : broadcast[n][m] <= submitted[n][m]

\* The ring of channels never locks up: a mempool that awaits room in
\* gossip_tx, and a gossip task that awaits room in system_tx, get it,
\* because the main loop never waits for the mempool.
BlockedSendsEnd ==
    \A n \in Nodes : []<>(sending[n] = None /\ holding[n] = None)

\* The comment in insert: a transfer in the mempool is in the entry of every
\* shard, so that each shard can track it.
TransfersReachAllShards ==
    \A n \in Validators, m \in Message :
        /\ m.kind = "fname"
        /\ \E s \in DOMAIN messages[n] : m \in messages[n][s]
        /\ \A s \in Shards : chain[s] = << >> /\ proposal[n][s] = None
        /\ pulls[n] = << >>
        => \A s \in Shards : s \in DOMAIN messages[n] /\ m \in messages[n][s]

=============================================================================
