------------------------------ MODULE MCChain ------------------------------
(***************************************************************************)
(* Blocks above the shards' chunks, and what a node keeps of the past.     *)
(* The two parts share no state in the model: each behaviour runs one.     *)
(***************************************************************************)
EXTENDS BlockConsensus, TLC

VARIABLES
    part,          \* the part that runs
    h_scenario, h_now, h_height, h_writing, h_times, h_chunks, h_chunkIndex,
    h_blocks, h_blockIndex, h_events, h_lock, h_job, h_reader, h_restarts

hVars == <<h_scenario, h_now, h_height, h_writing, h_times, h_chunks,
           h_chunkIndex, h_blocks, h_blockIndex, h_events, h_lock, h_job,
           h_reader, h_restarts>>

\* A third validator joins with the second height.
MCSets == <<
    [effectiveAt |-> 0, validators |-> <<"v1", "v2">>, shardIds |-> {0, 1}],
    [effectiveAt |-> 2, validators |-> <<"v1", "v2", "v3">>, shardIds |-> {0, 1}]>>

B(ss, hs, rs, cs, es) ==
    [shards |-> ss, heights |-> hs, rounds |-> rs, crashes |-> cs, putErrors |-> es]

\* Two shards of different speed; two heights and two rounds; a crash and a
\* write that fails.
MCBlockScenarios == {
    B({1, 2}, 1, 1, 0, 0), B({1}, 2, 1, 0, 0), B({1}, 2, 0, 1, 1)}

H(js, es, bs, rs, ns) ==
    [jobs |-> js, events |-> es, blocks |-> bs, readers |-> rs, restarts |-> ns]

\* Both jobs at once; pages of a subscriber while events are pruned; the block
\* store and a restart.
MCHistoryScenarios == {
    H({"b", "e"}, 1, FALSE, FALSE, 0), H({"e"}, 2, FALSE, TRUE, 0),
    H({"b"}, 1, TRUE, FALSE, 1)}

Past == INSTANCE History WITH
    AllJobs <- {"b", "e"}, BlockJobs <- {"b"}, BlockRetention <- 1,
    EventRetention <- 1, PageSize <- 1, MaxHeight <- 3, MaxTime <- 4,
    Scenarios <- MCHistoryScenarios,
    scenario <- h_scenario, now <- h_now, height <- h_height,
    writing <- h_writing, times <- h_times, chunks <- h_chunks,
    chunkIndex <- h_chunkIndex, blocks <- h_blocks,
    blockIndex <- h_blockIndex, events <- h_events, lock <- h_lock,
    job <- h_job, reader <- h_reader, restarts <- h_restarts

ASSUME BlockConstants /\ SeveralValidators /\ Past!HistoryConstants

allVars == <<part, vars, hVars>>

MCInit ==
    /\ part \in {"blocks", "history"}
    /\ Init /\ Past!Init
    /\ part # "blocks" => scenario = CHOOSE c \in MCBlockScenarios : TRUE
    /\ part # "history" => h_scenario = CHOOSE c \in MCHistoryScenarios : TRUE

MCNext ==
    /\ UNCHANGED part
    /\ \/ part = "blocks" /\ Next /\ UNCHANGED hVars
       \/ part = "history" /\ Past!Next /\ UNCHANGED vars

\* The handlers of the actors run; consensus reaches a decision or another
\* round.
BlockFairness ==
    /\ \A v \in Validators :
           /\ WF_vars(part = "blocks" /\ (GetValue(v) \/ Collected(v)))
           /\ WF_vars(part = "blocks" /\ (\E p \in sent : ReceiveProposal(v, p)))
           /\ WF_vars(part = "blocks" /\ (CommitStored(v) \/ RestartHeight(v)))
    /\ WF_vars(part = "blocks" /\ (\E p \in sent : Decide(p)))
    /\ WF_vars(part = "blocks" /\ (\E h \in Heights : NextRound(h)))

\* A commit and a job end once they started.  The jobs run at different hours
\* of the day (main.rs, lines 165 and 178), so each finds the lock free again
\* and again, and then starts and checks it.
HistoryFairness ==
    /\ WF_hVars(part = "history" /\ (Past!EmitEvents \/ Past!PutShardChunk))
    /\ \A j \in {"b", "e"} :
           /\ WF_hVars(part = "history" /\ (\/ Past!PruneBlocks(j) \/ Past!CheckLock(j)
                                   \/ Past!TakeLock(j) \/ Past!PrunePage(j)
                                   \/ Past!ReleaseLock(j)))
           /\ SF_hVars(part = "history" /\ (~h_lock /\ Past!CheckLock(j)))
           /\ SF_hVars(part = "history" /\ (/\ ~h_lock /\ j \in h_scenario.jobs
                                   /\ Past!StartJob(j)))

MCSpec == MCInit /\ [][MCNext]_allVars /\ BlockFairness /\ HistoryFairness

\* The shards are followed by blocks (see BlockConsensus:
\* collect_confirmed_shard_witnesses).
MCBlocksFollowShards == part = "blocks" => BlocksFollowShards

\* What is within the retention is kept (see History: prune_until).
RetentionKept == Past!RetentionKept

\* A subscriber reads the past in order and without holes (see History:
\* get_events).
SubscriberMissesOnlyGap == Past!SubscriberMissesOnlyGap

\* Old events go (see History: prune_events_until).
OldEventsPruned == part = "history" => Past!OldEventsPruned

=============================================================================
