-------------------------- MODULE BlockConsensus --------------------------
(***************************************************************************)
(* Blocks of shard 0: BlockProposer (src/src/consensus/proposer.rs) and    *)
(* BlockEngine (storage/store/engine.rs) on every validator, behind        *)
(* ShardValidator and Host (consensus/validator.rs, malachite/host.rs).  A *)
(* block at a height witnesses the chunk of every shard at that height, so *)
(* its proposer waits for the shards until a timeout.                      *)
(*                                                                         *)
(* Rounds, votes and certificates belong to the consensus library: a block *)
(* may be decided once more than two thirds of the validators found the    *)
(* proposal valid in its round.  The channel for new blocks is absent in   *)
(* the node (main.rs passes None), so publish_new_block does nothing.      *)
(***************************************************************************)
EXTENDS Integers, Sequences, FiniteSets, SequencesExt, FiniteSetsExt

CONSTANTS
    Validators,      \* every node that runs the block shard
    ValidatorSets,   \* the configured sets, in the order of the file:
                     \* [effectiveAt, validators (sorted), shardIds]
    Times,           \* times a proposer may read from its clock
    Scenarios,       \* the shards and bounds of an execution: [shards,
                     \* heights, rounds, crashes, putErrors]
    None

\* What the constants are.
BlockConstants ==
    /\ \A c \in Scenarios :
           /\ IsFiniteSet(c.shards) /\ 0 \notin c.shards
           /\ c.heights \in Nat
    /\ Len(ValidatorSets) > 0
    /\ \A i \in DOMAIN ValidatorSets :
           Range(ValidatorSets[i].validators) \subseteq Validators

VARIABLES
    scenario,    \* one of Scenarios, chosen at the start
    chunks,      \* chunks[v][s]: the height of v's shard store s
    blocks,      \* blocks[v]: the blocks in v's BlockStore
    proposed,    \* proposed[v]: proposed_blocks, by hash
    local,       \* local[v]: v's own proposals in LocalStateStore
    height,      \* height[v]: the height consensus works on at v
    asked,       \* asked[v]: the last round v was asked a value for
    collecting,  \* collecting[v]: v awaits the chunks of the shards
    round,       \* round[h]: the round of the height
    sent,        \* proposals on the network
    votes,       \* who found which proposal valid
    decided,     \* decided[h]: the block with a certificate, or None
    crashes, putErrors

nodeVars == <<blocks, proposed, local, height, asked, collecting>>
netVars  == <<round, sent, votes, decided>>
vars == <<scenario, chunks, nodeVars, netVars, crashes, putErrors>>

Shards  == scenario.shards
Heights == 1..scenario.heights

-----------------------------------------------------------------------------
\* StoredValidatorSets::get_validator_set for shard 0: the first set unless
\* a later entry of the shard is in effect.
GetValidatorSet(h) ==
    FoldLeft(LAMBDA result, config :
                 IF /\ 0 \in config.shardIds
                    /\ config.effectiveAt <= h
                    /\ config.effectiveAt > result.effectiveAt
                 THEN config ELSE result,
             ValidatorSets[1], ValidatorSets).validators

\* No height has a lone validator, which would decide what it proposes
\* without anybody looking at it.
SeveralValidators ==
    \A c \in Scenarios : \A h \in 1..c.heights :
        LET set == Range(GetValidatorSet(h))
        IN  IsFiniteSet(set) /\ Cardinality(set) > 1

SelectProposer(h, r) ==
    LET set == GetValidatorSet(h)
    IN  set[((h - 1 + r) % Len(set)) + 1]

IsQuorum(Q, h) ==
    LET set == Range(GetValidatorSet(h))
    IN  3 * Cardinality(Q \intersect set) > 2 * Cardinality(set)

\* BlockStore: the last block, and the confirmed height taken from it.
StoredHeights(v) == {b.height : b \in blocks[v]}
ConfirmedHeight(v) == Max({0} \union StoredHeights(v))
LastBlock(v) == CHOOSE b \in blocks[v] : b.height = ConfirmedHeight(v)

\* The hash of a block covers all of its fields.
Hash(b) == <<"block", b>>
GenesisHash == <<"genesis">>

\* With a bug: the first block has the parent of an empty store.
ParentOrZero(v, h) == IF blocks[v] = {} THEN <<"zero">> ELSE Hash(LastBlock(v))

ParentHash(v, h) ==
    IF h = 1 THEN GenesisHash
    ELSE IF blocks[v] = {} THEN <<"zero">> ELSE Hash(LastBlock(v))

Proposal(v, witnesses, t) ==
    [height |-> height[v], round |-> round[height[v]], proposer |-> v,
     block |-> [height |-> height[v], time |-> t,
                parent |-> ParentHash(v, height[v]),
                witnesses |-> witnesses]]

AddProposed(P, p) == {q \in P : q.block # p.block} \union {p}

-----------------------------------------------------------------------------
Init ==
    /\ scenario \in Scenarios
    /\ chunks = [v \in Validators |-> [s \in Shards |-> 0]]
    /\ blocks = [v \in Validators |-> {}]
    /\ proposed = [v \in Validators |-> {}]
    /\ local = [v \in Validators |-> {}]
    /\ height = [v \in Validators |-> 1]
    /\ asked = [v \in Validators |-> -1]
    /\ collecting = [v \in Validators |-> FALSE]
    /\ round = [h \in Heights |-> 0]
    /\ sent = {} /\ votes = {}
    /\ decided = [h \in Heights |-> None]
    /\ crashes = 0 /\ putErrors = 0

\* A shard of v commits its next chunk.
CommitChunk(v, s) ==
    /\ chunks[v][s] < scenario.heights
    /\ chunks' = [chunks EXCEPT ![v][s] = @ + 1]
    /\ UNCHANGED <<scenario, nodeVars, netVars, crashes, putErrors>>

\* The host replies with the value, which counts as valid for its proposer,
\* and publishes the proposal.
Publish(v, p) ==
    /\ sent' = sent \union {p}
    /\ votes' = votes \union {<<v, p>>}
    /\ UNCHANGED <<round, decided>>

\* HostMsg::GetValue: an own proposal of the round in the local state is
\* used again as it is; it is not added to proposed_blocks.  Otherwise the
\* handler starts to collect and handles nothing else until it is done.
GetValue(v) ==
    LET h == height[v]
        stored == {p \in local[v] : p.height = h /\ p.round = round[h]}
    IN  /\ h \in Heights /\ ~collecting[v] /\ decided[h] = None
        /\ SelectProposer(h, round[h]) = v
        /\ asked[v] < round[h]
        /\ asked' = [asked EXCEPT ![v] = round[h]]
        /\ \/ /\ stored = {}
              /\ collecting' = [collecting EXCEPT ![v] = TRUE]
              /\ UNCHANGED netVars
           \/ /\ \E p \in stored : Publish(v, p)
              /\ UNCHANGED collecting
        /\ UNCHANGED <<scenario, chunks, blocks, proposed, local, height,
                       crashes, putErrors>>

\* The rest of propose_value: the block is built, kept and stored as the
\* proposal of the round asked for.
Propose(v, witnesses) ==
    \E t \in Times :
        LET p == [Proposal(v, witnesses, t) EXCEPT !.round = asked[v]]
        IN  /\ collecting[v]
            /\ collecting' = [collecting EXCEPT ![v] = FALSE]
            /\ proposed' = [proposed EXCEPT ![v] = AddProposed(@, p)]
            /\ local' = [local EXCEPT ![v] = @ \union {p}]
            /\ Publish(v, p)
            /\ UNCHANGED <<scenario, chunks, blocks, height, asked, crashes, putErrors>>

Witnesses(h) == {<<s, h>> : s \in Shards}
HasChunks(v, h) == \A s \in Shards : chunks[v][s] >= h

\* collect_confirmed_shard_witnesses polls until every shard has the chunk.
Collected(v) == HasChunks(v, height[v]) /\ Propose(v, Witnesses(height[v]))

\* ... or until the deadline: then no witness is used.  The last round
\* stands for one whose deadline is late enough.
WitnessTimeout(v) ==
    /\ ~HasChunks(v, height[v])
    /\ asked[v] < scenario.rounds
    /\ Propose(v, {})

\* With a bug: the witnesses are not counted; the block must be a stored one.
ValidWithoutCount(v, p) == p.block.height = ConfirmedHeight(v) + 1
ValidIfConfirmed(v, p) ==
    /\ p.block.height = ConfirmedHeight(v)
    /\ Cardinality(p.block.witnesses) = Cardinality(Shards)

\* BlockProposer::add_proposed_value.  Neither the parent nor the chunks the
\* witnesses name are compared with those of the validator.
Valid(v, p) ==
    /\ p.block.height = ConfirmedHeight(v) + 1
    /\ Cardinality(p.block.witnesses) = Cardinality(Shards)

\* ReceivedProposalPart, and ProcessSyncedValue for a decided one.
ReceiveProposal(v, p) ==
    /\ ~collecting[v] /\ p \in sent
    /\ p.proposer # v \/ decided[p.height] = p.block
    /\ Valid(v, p)
    /\ p \notin proposed[v] \/ <<v, p>> \notin votes
    /\ proposed' = [proposed EXCEPT ![v] = AddProposed(@, p)]
    /\ votes' = IF height[v] = p.height THEN votes \union {<<v, p>>} ELSE votes
    /\ UNCHANGED <<scenario, chunks, blocks, local, height, asked, collecting,
                   round, sent, decided, crashes, putErrors>>

-----------------------------------------------------------------------------
\* The consensus library.
Decide(p) ==
    /\ p \in sent /\ decided[p.height] = None
    /\ IsQuorum({v \in Validators : <<v, p>> \in votes}, p.height)
    /\ decided' = [decided EXCEPT ![p.height] = p.block]
    /\ UNCHANGED <<scenario, chunks, nodeVars, round, sent, votes, crashes, putErrors>>

NextRound(h) ==
    /\ decided[h] = None /\ round[h] < scenario.rounds
    /\ \E v \in Validators : height[v] = h
    /\ round' = [round EXCEPT ![h] = @ + 1]
    /\ UNCHANGED <<scenario, chunks, nodeVars, sent, votes, decided, crashes, putErrors>>

-----------------------------------------------------------------------------
HasDecision(v) ==
    height[v] \in Heights /\ decided[height[v]] # None /\ ~collecting[v]

\* HostMsg::Decided with a known proposal.  commit_block only logs an error
\* of put_block; everything after it happens in any case.
Commit(v, stored) ==
    LET h == height[v]
    IN  /\ HasDecision(v)
        /\ \E p \in proposed[v] : p.block = decided[h]
        /\ blocks' = IF stored
                     THEN [blocks EXCEPT ![v] =
                               {b \in @ : b.height # h} \union {decided[h]}]
                     ELSE blocks
        /\ putErrors' = IF stored THEN putErrors ELSE putErrors + 1
        /\ proposed' = [proposed EXCEPT ![v] = {p \in @ : p.height > h}]
        /\ local' = [local EXCEPT ![v] = {p \in @ : p.height # h}]
        /\ height' = [height EXCEPT ![v] = h + 1]
        /\ asked' = [asked EXCEPT ![v] = -1]
        /\ UNCHANGED <<scenario, chunks, collecting, netVars, crashes>>

CommitStored(v) == Commit(v, TRUE)
CommitFails(v)  == putErrors < scenario.putErrors /\ Commit(v, FALSE)

\* HostMsg::Decided for a value that is not known here: the height starts
\* again and the value has to come through sync.
RestartHeight(v) ==
    /\ HasDecision(v)
    /\ \A p \in proposed[v] : p.block # decided[height[v]]
    /\ asked[v] # -1
    /\ asked' = [asked EXCEPT ![v] = -1]
    /\ UNCHANGED <<scenario, chunks, blocks, proposed, local, height, collecting,
                   netVars, crashes, putErrors>>

\* The node stops and starts: consensus resumes after the last stored block.
Crash(v) ==
    /\ crashes < scenario.crashes
    /\ crashes' = crashes + 1
    /\ proposed' = [proposed EXCEPT ![v] = {}]
    /\ collecting' = [collecting EXCEPT ![v] = FALSE]
    /\ asked' = [asked EXCEPT ![v] = -1]
    /\ height' = [height EXCEPT ![v] = ConfirmedHeight(v) + 1]
    /\ UNCHANGED <<scenario, chunks, blocks, local, netVars, putErrors>>

Next ==
    \/ \E v \in Validators :
           \/ \E s \in Shards : CommitChunk(v, s)
           \/ GetValue(v) \/ Collected(v) \/ WitnessTimeout(v)
           \/ \E p \in sent : ReceiveProposal(v, p)
           \/ CommitStored(v) \/ CommitFails(v) \/ RestartHeight(v) \/ Crash(v)
    \/ \E p \in sent : Decide(p)
    \/ \E h \in Heights : NextRound(h)

Spec == Init /\ [][Next]_vars

-----------------------------------------------------------------------------
\* Every stored block is the decided one and witnesses the chunk of every
\* shard at its height, although proposers give up on slow shards and
\* validators never look at their own chunks (proposer.rs, lines 400, 544).
WitnessesComplete ==
    \A v \in Validators : \A b \in blocks[v] :
        /\ b = decided[b.height]
        /\ b.witnesses = Witnesses(b.height)
        /\ \A s \in Shards : \E w \in Validators : chunks[w][s] >= b.height

\* Blocks refer to the block decided before them and are stored without a
\* gap, over crashes and rounds, as long as no put_block fails: nothing
\* checks the parent of a proposal (proposer.rs, lines 438 and 499).
BlocksChained ==
    putErrors = 0 =>
        \A v \in Validators :
            /\ StoredHeights(v) = 1..ConfirmedHeight(v)
            /\ \A b \in blocks[v] :
                   b.parent = IF b.height = 1 THEN GenesisHash
                                              ELSE Hash(decided[b.height - 1])

\* Once the shards have reached a height on all validators, the block of
\* that height is decided and stored by all of them, whatever proposers
\* timed out before (proposer.rs, line 394); a failed put_block may end it.
BlocksFollowShards ==
    \A h \in 1..Max({c.heights : c \in Scenarios}) :
        (h \in Heights /\ \A v \in Validators : HasChunks(v, h))
            ~> \/ putErrors > 0
               \/ \A v \in Validators : h \in StoredHeights(v)
=============================================================================
