--------------------------- MODULE ShardValidator ---------------------------
(***************************************************************************)
(* One validator of a shard: the Host actor (malachite/host.rs), the       *)
(* ShardValidator (consensus/validator.rs), the ShardProposer              *)
(* (consensus/proposer.rs), the node's own stored proposals                *)
(* (storage/store/node_local_state.rs), and the ShardEngine under them.    *)
(*                                                                         *)
(* The consensus library is external.  It is modelled by what the Host     *)
(* sees of it: rounds of the current height start in order, it asks the    *)
(* node for a value in the rounds the node proposes, hands over proposals  *)
(* that arrive from peers or from sync (any number of times, also for a    *)
(* later height), and reports the value that was decided once it knows it. *)
(* The other validators are one peer that follows the decided chain.       *)
(*                                                                         *)
(* A commit makes two durable writes, the batch and then the chunk; a      *)
(* crash can fall between any two steps.                                   *)
(***************************************************************************)
EXTENDS ShardEngine

CONSTANTS
    Txns,          \* what the mempools hand to a proposer
    BadTxns,       \* those of them in proposals whose root does not check
    Times,         \* the timestamps of proposals, in seconds
    OwnRounds,     \* the rounds this node proposes
    MaxHeight,     \* bound on the heights decided
    MaxRound,      \* bound on the rounds of a height
    MaxSeq,        \* bound on the event ids used by validations in a round
    MaxCrashes     \* bound on the crashes of the node

ASSUME ValidatorAssumption ==
    /\ Txns \subseteq Transaction
    /\ BadTxns \subseteq Txns
    /\ Times \subseteq Nat
    /\ MaxHeight \in Nat
    /\ MaxRound \in Nat
    /\ MaxSeq \in Nat
    /\ OwnRounds \subseteq 0..MaxRound
    /\ MaxCrashes \in Nat

NilRound == -1

VARIABLES
    engine,
    chunks,        \* the shard store: the chunks committed, by height
    proposed,      \* ProposedValues: the proposals, unique by shard hash
    local,         \* the node's own proposals, in the local state store
    \* the consensus library, as the Host sees it
    height, round,
    asked,         \* own values returned to it at this height: [round, hash]
    \* the commit in progress
    step,          \* "idle", "stored" (batch), "put" (chunk), "panicked"
    current,       \* the chunk being committed
    \* the network
    offers,        \* the proposals published
    decided,       \* the chunks decided
    canon,         \* canon[h]: the state after the first h - 1 of them
    crashes

nodeVars == <<engine, chunks, proposed, local>>
consVars == <<height, round, asked>>
commitVars == <<step, current>>
netVars  == <<offers, decided, canon>>
vars == <<nodeVars, consVars, commitVars, netVars, crashes>>

\* A chunk proposed at height h.  own: by this node.
Chunk(h, r, ts, root, txn, own) ==
    [height |-> h, round |-> r, ts |-> ts, root |-> root, txn |-> txn, own |-> own]

\* The shard hash is the hash of the header: it does not cover the
\* transactions.  The parent hash is that of the decided parent.
ShardHash(c) == <<c.height, c.ts, c.root>>

\* get_confirmed_height.
ConfirmedHeight == Len(chunks)

\* add_proposed_value of ProposedValues: the last one with a hash is kept.
AddProposed(P, c) == {p \in P : ShardHash(p) # ShardHash(c)} \cup {c}

Init ==
    /\ engine = NewEngine
    /\ chunks = << >>
    /\ proposed = {}
    /\ local = {}
    /\ height = 1
    /\ round = NilRound
    /\ asked = {}
    /\ step = "idle"
    /\ current = None
    /\ offers = {}
    /\ decided = << >>
    /\ canon = <<EmptyAccount>>
    /\ crashes = 0

-----------------------------------------------------------------------------
(***************************************************************************)
(* The network.                                                            *)
(***************************************************************************)

\* A peer proposes in a round of its own, on the decided chain.  A peer
\* whose state or clock differs proposes a root that does not check.
PeerPropose(r, txn, ts, good) ==
    LET h == Len(decided) + 1
        root == IF good THEN Root(Replay(canon[h], txn).account) ELSE None
    IN  /\ good \/ txn \in BadTxns
        /\ h <= MaxHeight
        /\ r \in (0..MaxRound) \ OwnRounds
        /\ \A p \in offers : p.height = h => p.round # r
        /\ offers' = offers \cup {Chunk(h, r, ts, root, txn, FALSE)}
        /\ UNCHANGED <<nodeVars, consVars, commitVars, decided, canon, crashes>>

\* The validators decide a proposal whose root checks.
PeersDecide(p) ==
    LET h == Len(decided) + 1
        a == Replay(canon[h], p.txn).account
    IN  /\ p.height = h
        /\ Root(a) = p.root
        /\ decided' = Append(decided, p)
        /\ canon' = Append(canon, a)
        /\ UNCHANGED <<nodeVars, consVars, commitVars, offers, crashes>>

-----------------------------------------------------------------------------
(***************************************************************************)
(* The Host's messages.                                                    *)
(***************************************************************************)

\* StartedRound: start_round of the validator, the proposer, the engine.
StartedRound ==
    /\ step = "idle"
    /\ height <= MaxHeight
    /\ round < MaxRound
    /\ round' = round + 1
    /\ engine' = StartRound(engine, height)
    /\ UNCHANGED <<chunks, proposed, local, height, asked, commitVars, netVars,
                   crashes>>

\* With a bug: the local state store is not asked.
StoredProposalIgnored == {}

\* get_proposal of the local state store.
StoredProposal == {q \in local : q.height = height /\ q.round = round}

\* GetValue: a proposal stored for the round is used again; it is neither
\* added to the proposed values nor replayed.
ReuseProposal(p) ==
    /\ p \in StoredProposal
    /\ asked' = asked \cup {[round |-> round, hash |-> ShardHash(p)]}
    /\ UNCHANGED <<nodeVars, offers>>

\* Otherwise propose_value builds one, and it is stored before it is sent.
NewProposal(txn, ts) ==
    LET e == ProposeStateChange(engine, txn)
        p == Chunk(height, round, ts, e.pending.root, txn, TRUE)
    IN  /\ StoredProposal = {}
        /\ engine' = e
        /\ proposed' = AddProposed(proposed, p)
        /\ local' = local \cup {p}
        /\ asked' = asked \cup {[round |-> round, hash |-> ShardHash(p)]}
        /\ offers' = offers \cup {p}
        /\ UNCHANGED chunks

GetValue ==
    /\ step = "idle"
    /\ round \in OwnRounds
    /\ \A a \in asked : a.round # round
    /\ \/ \E p \in local : ReuseProposal(p)
       \/ \E txn \in Txns, ts \in Times : NewProposal(txn, ts)
    /\ UNCHANGED <<height, round, commitVars, decided, canon, crashes>>

\* ReceivedProposalPart and ProcessSyncedValue: add_proposed_value.  Only
\* a proposal for the next height is validated.
ReceiveProposal(p) ==
    /\ step = "idle"
    /\ p.height >= height
    /\ engine.seq <= MaxSeq
    /\ proposed' = AddProposed(proposed, p)
    /\ engine' = IF p.height = ConfirmedHeight + 1
                 THEN ValidateStateChange(engine, p)
                 ELSE engine
    /\ UNCHANGED <<chunks, local, consVars, commitVars, netVars, crashes>>

\* With a bug: any proposal of the height is taken for the decided one.
FoundByHeight == {p \in proposed : p.height = height}

\* The proposed value with the hash of the decided one.
Found == {p \in proposed : ShardHash(p) = ShardHash(decided[height])}

\* Decided can be reported: the height is decided, a round has started, and
\* the library has the value.
DecisionReady ==
    /\ step = "idle"
    /\ round # NilRound
    /\ height <= Len(decided)
    /\ \/ Found # {}
       \/ \E a \in asked : a.hash = ShardHash(decided[height])

\* Decided, the value is not among the proposed ones: the height is
\* restarted.
RestartHeight ==
    /\ DecisionReady
    /\ Found = {}
    /\ round' = NilRound
    /\ asked' = {}
    /\ UNCHANGED <<nodeVars, height, commitVars, netVars, crashes>>

\* Decided: ShardProposer::decide up to the write of the batch.  A replay
\* with another root panics.
DecideStore(p) ==
    LET f == ForCommit(engine, p)
        match == UsesCached(engine, p) \/ f.txn.root = p.root
    IN  /\ DecisionReady
        /\ p \in Found
        /\ engine' = IF match THEN CommitBatch(f.engine, f.txn) ELSE f.engine
        /\ step' = IF match THEN "stored" ELSE "panicked"
        /\ current' = p
        /\ UNCHANGED <<chunks, proposed, local, consVars, netVars, crashes>>

\* put_shard_chunk.
DecidePut ==
    /\ step = "stored"
    /\ chunks' = Append(chunks, current)
    /\ step' = "put"
    /\ UNCHANGED <<engine, proposed, local, consVars, current, netVars, crashes>>

\* The rest of decide: proposals up to the height are dropped from memory,
\* the node's own at the height from the local state store, and the next
\* height is started.
DecideEnd ==
    /\ step = "put"
    /\ proposed' = {p \in proposed : p.height > height}
    /\ local' = {p \in local : p.height # height}
    /\ height' = height + 1
    /\ round' = NilRound
    /\ asked' = {}
    /\ step' = "idle"
    /\ current' = None
    /\ UNCHANGED <<engine, chunks, netVars, crashes>>

\* A crash and the restart: ConsensusReady starts the height after the
\* confirmed one.
Crash ==
    /\ crashes < MaxCrashes
    /\ step # "panicked"
    /\ crashes' = crashes + 1
    /\ engine' = Reopened(engine)
    /\ proposed' = {}
    /\ height' = ConfirmedHeight + 1
    /\ round' = NilRound
    /\ asked' = {}
    /\ step' = "idle"
    /\ current' = None
    /\ UNCHANGED <<chunks, local, netVars>>

Host ==
    \/ StartedRound
    \/ GetValue
    \/ \E p \in offers : ReceiveProposal(p)
    \/ RestartHeight
    \/ \E p \in proposed : DecideStore(p)
    \/ DecidePut
    \/ DecideEnd

Next ==
    \/ \E r \in 0..MaxRound, txn \in Txns, ts \in Times, good \in BOOLEAN :
            PeerPropose(r, txn, ts, good)
    \/ \E p \in offers : PeersDecide(p)
    \/ Host
    \/ Crash

Spec == Init /\ [][Next]_vars

-----------------------------------------------------------------------------
(***************************************************************************)
(* Properties.                                                             *)
(***************************************************************************)

TypeOK ==
    /\ engine.db \in Account
    /\ height \in 1..(MaxHeight + 1)
    /\ round \in NilRound..MaxRound
    /\ step \in {"idle", "stored", "put", "panicked"}
    /\ \A p \in proposed \cup local : p.height \in 1..MaxHeight
    /\ crashes \in 0..MaxCrashes

\* The node's state is that of a decided prefix: of the chunks it has
\* stored or, between the two writes of a commit and after a crash there,
\* of one more.  Rounds, repeated and invalid proposals, cached batches and
\* crashes never leave it in a state that no decided chain leads to.
StateOfDecidedPrefix ==
    \/ engine.db = canon[Len(chunks) + 1]
    \/ /\ Len(decided) > Len(chunks)
       /\ engine.db = canon[Len(chunks) + 2]

\* The chunk stored at a height has the header that was decided, and its
\* shard root is the root of the state after it.
StoredChunksDecided ==
    /\ Len(chunks) <= Len(decided)
    /\ \A h \in DOMAIN chunks :
          /\ ShardHash(chunks[h]) = ShardHash(decided[h])
          /\ chunks[h].root = Root(canon[h + 1])

\* The node never signs off two values in one round of a height, whatever
\* crashes and restarted heights make it propose again.
NoEquivocation ==
    \A p, q \in offers : p.own /\ q.own /\ p.height = q.height /\ p.round = q.round
                            => p = q

\* The panic of commit_shard_chunk is reached only by committing again,
\* after a crash between the two writes, a chunk whose replay prunes: the
\* cached batch, a replay and, without pruning, a second replay all lead to
\* the root that was decided.
PanicOnlyOnPrunedAgain ==
    step = "panicked" =>
        /\ engine.db = canon[height + 1]
        /\ \E i \in DOMAIN Replay(canon[height], current.txn).events :
              Replay(canon[height], current.txn).events[i].type = "prune"

\* The hub events stored for a block have its height: an event id "encodes
\* block height ordering" (events.md).
EventHeights ==
    [][\A e \in engine'.hub \ engine.hub : e.height = height]_vars

\* "If state roots match, the events should match" (engine.rs): the events
\* stored for a height are those of a replay of the chunk decided there.
\* The code does not ensure it.
EventsMatch ==
    \A h \in DOMAIN chunks :
        LET replayed == Replay(canon[h], decided[h].txn).events
        IN  {e \in engine.hub : e.height = h /\ e.seq > 0}
                = {HubEvent(h, i, replayed[i]) : i \in DOMAIN replayed}
=============================================================================
