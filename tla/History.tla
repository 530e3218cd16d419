------------------------------ MODULE History ------------------------------
(***************************************************************************)
(* What a node keeps of the past and serves from it: the chunks of a shard *)
(* (storage/store/shard.rs), the blocks (storage/store/block.rs), the hub  *)
(* events (storage/store/account/event.rs), each with the pages of         *)
(* storage/db/rocksdb.rs; the pruning jobs (src/src/jobs) with the lock of *)
(* Stores (storage/store/stores.rs); and a subscriber that reads the past  *)
(* in pages and then follows the live events (network/server.rs).          *)
(*                                                                         *)
(* A commit writes the events of the block, sends them to subscribers and  *)
(* writes the chunk, in this order (engine.rs).                            *)
(***************************************************************************)
EXTENDS Integers, Sequences, FiniteSets, SequencesExt, FiniteSetsExt

CONSTANTS
    AllJobs,                        \* instances of the pruning jobs
    BlockJobs,                      \* those of block_pruning_job
    BlockRetention, EventRetention, \* seconds
    PageSize,
    MaxHeight, MaxTime,
    Scenarios,   \* [jobs, events, blocks, readers, restarts]: the jobs, the
                 \* events per block, whether there are a block store and a
                 \* subscriber, the restarts
    None

\* What the constants are.
HistoryConstants ==
    /\ BlockJobs \subseteq AllJobs
    /\ \A c \in Scenarios : c.events > 0 /\ c.jobs \subseteq AllJobs
    /\ PageSize > 0
    /\ EventRetention <= BlockRetention

VARIABLES
    scenario,   \* one of Scenarios
    now,        \* the clock
    height,     \* the last chunk
    writing,    \* step of commit_and_emit_events
    times,      \* times[h]: timestamp of the chunk, times of unwritten are 0
    chunks, chunkIndex,    \* the chunk store and its index by timestamp
    blocks, blockIndex,    \* the block store and its index by timestamp
    events,     \* ids of the stored events
    lock,       \* prune_lock
    job,        \* job[j]: [pc, cutoff, stop]
    reader,     \* the subscriber: [pc, past, live, opened]
    restarts

storeVars == <<height, writing, times, chunks, chunkIndex, blocks, blockIndex, events>>
vars == <<scenario, now, storeVars, lock, job, reader, restarts>>

-----------------------------------------------------------------------------
Jobs == scenario.jobs
EventsPerBlock == scenario.events

\* make_event_id: ids are ordered by height, then by sequence number.
EventId(h, seq) == h * EventsPerBlock + seq
EventsOf(h) == {EventId(h, seq) : seq \in 0..EventsPerBlock - 1}
HeightOf(e) == e \div EventsPerBlock

FirstOf(S, n) == LET s == SetToSortSeq(S, <) IN SubSeq(s, 1, IF Len(s) < n THEN Len(s) ELSE n)

\* The index has one entry per timestamp, the first that was put.
IndexPut(index, t, h) ==
    IF \E x \in index : x[1] = t THEN index ELSE index \union {<<t, h>>}

\* With a bug: the time is not looked at.
NextHeightOnly(index, stored, cutoff) ==
    IF index = {} THEN None ELSE Max({x[2] : x \in index})

\* get_next_height_by_timestamp with get_next_by_index: the entry at or after
\* the time; entries of pruned heights remain and make it fail.
NextHeightByTimestamp(index, stored, cutoff) ==
    LET later == {x \in index : x[1] >= cutoff}
        first == CHOOSE x \in later : \A y \in later : x[1] <= y[1]
    IN  IF later = {} \/ first[2] \notin stored THEN None ELSE first[2]

\* delete_page: the first keys below the stop key.
PageBelow(stored, stop) == Range(FirstOf({x \in stored : x < stop}, PageSize))

-----------------------------------------------------------------------------
IdleJob == [pc |-> "idle", cutoff |-> 0, stop |-> None]
NoReader == [pc |-> "none", past |-> <<>>, live |-> <<>>, opened |-> 0]

Init ==
    /\ scenario \in Scenarios
    /\ now = BlockRetention + EventRetention
    /\ height = 0 /\ writing = "idle"
    /\ times = [h \in 1..MaxHeight |-> 0]
    /\ chunks = {} /\ chunkIndex = {} /\ blocks = {} /\ blockIndex = {} /\ events = {}
    /\ lock = FALSE
    /\ job = [j \in AllJobs |-> IdleJob]
    /\ reader = NoReader
    /\ restarts = 0

Tick ==
    /\ now < MaxTime
    /\ now' = now + 1
    /\ UNCHANGED <<scenario, storeVars, lock, job, reader, restarts>>

\* commit_and_emit_events: the batch with the events.
WriteEvents ==
    /\ writing = "idle" /\ height < MaxHeight
    /\ events' = events \union EventsOf(height + 1)
    /\ times' = [times EXCEPT ![height + 1] = now]
    /\ writing' = "emit"
    /\ UNCHANGED <<scenario, now, height, chunks, chunkIndex, blocks, blockIndex, lock, job,
                   reader, restarts>>

\* ... the events go to the subscribers that follow,
EmitEvents ==
    /\ writing = "emit"
    /\ writing' = "put"
    /\ reader' = IF reader.pc = "live"
                 THEN [reader EXCEPT !.live = @ \o SetToSortSeq(EventsOf(height + 1), <)]
                 ELSE reader
    /\ UNCHANGED <<scenario, now, height, times, chunks, chunkIndex, blocks, blockIndex, events,
                   lock, job, restarts>>

\* ... and put_shard_chunk.
PutShardChunk ==
    /\ writing = "put"
    /\ writing' = "idle" /\ height' = height + 1
    /\ chunks' = chunks \union {height + 1}
    /\ chunkIndex' = IndexPut(chunkIndex, times[height + 1], height + 1)
    /\ UNCHANGED <<scenario, now, times, blocks, blockIndex, events, lock, job, reader, restarts>>

\* put_block of the block that witnesses the next chunk; its own time is read
\* when it is proposed.
PutBlock ==
    LET h == Max({0} \union blocks) + 1
    IN  /\ scenario.blocks /\ h <= height
        /\ blocks' = blocks \union {h}
        /\ blockIndex' = IndexPut(blockIndex, now, h)
        /\ UNCHANGED <<scenario, now, height, writing, times, chunks, chunkIndex, events, lock,
                       job, reader, restarts>>

-----------------------------------------------------------------------------
\* get_next_height_by_timestamp of the block store and of the chunk store.
NextBlockHeight(cutoff) == NextHeightByTimestamp(blockIndex, blocks, cutoff)
NextChunkHeight(cutoff) == NextHeightByTimestamp(chunkIndex, chunks, cutoff)

\* One page of prune_until of each store and of prune_events_util.
BlocksPage(stop) == IF stop = None THEN {} ELSE PageBelow(blocks, stop)
ChunksPage(stop) == IF stop = None THEN {} ELSE PageBelow(chunks, stop)
EventsPage(stop) == IF stop = None THEN {} ELSE PageBelow(events, EventId(stop, 0))

SetJob(j, r) == job' = [job EXCEPT ![j] = r]

\* The scheduler starts a job, on a node that has synced.  block_pruning_job
\* prunes the block store first, without the lock; both jobs then go on to
\* the shard's Stores.
StartBlockPruning(j) ==
    /\ j \in BlockJobs /\ job[j].pc = "idle"
    /\ LET cutoff == now - BlockRetention
       IN  SetJob(j, [pc |-> "blocks", cutoff |-> cutoff,
                      stop |-> NextBlockHeight(cutoff)])
    /\ UNCHANGED <<scenario, now, storeVars, lock, reader, restarts>>

StartEventPruning(j) ==
    /\ j \notin BlockJobs /\ job[j].pc = "idle"
    /\ SetJob(j, [pc |-> "check", cutoff |-> now - EventRetention, stop |-> None])
    /\ UNCHANGED <<scenario, now, storeVars, lock, reader, restarts>>

StartJob(j) == StartBlockPruning(j) \/ StartEventPruning(j)

PruneBlocks(j) ==
    LET page == BlocksPage(job[j].stop)
    IN  /\ job[j].pc = "blocks"
        /\ blocks' = blocks \ page
        /\ IF page = {} THEN SetJob(j, [job[j] EXCEPT !.pc = "check"]) ELSE UNCHANGED job
        /\ UNCHANGED <<scenario, now, height, writing, times, chunks, chunkIndex, blockIndex,
                       events, lock, reader, restarts>>

\* prune_events_until, prune_shard_chunks_until: the lock is read,
CheckLock(j) ==
    /\ job[j].pc = "check"
    /\ SetJob(j, IF lock THEN IdleJob ELSE [job[j] EXCEPT !.pc = "take"])
    /\ UNCHANGED <<scenario, now, storeVars, lock, reader, restarts>>

\* ... and written afterwards; then the height to stop at is looked up.
TakeLock(j) ==
    /\ job[j].pc = "take"
    /\ lock' = TRUE
    /\ SetJob(j, [job[j] EXCEPT !.pc = "prune",
                      !.stop = NextChunkHeight(job[j].cutoff)])
    /\ UNCHANGED <<scenario, now, storeVars, reader, restarts>>

\* delete_paginated over the events or the chunks.
PrunePage(j) ==
    LET page == IF j \in BlockJobs THEN ChunksPage(job[j].stop)
                                   ELSE EventsPage(job[j].stop)
    IN  /\ job[j].pc = "prune"
        /\ chunks' = IF j \in BlockJobs THEN chunks \ page ELSE chunks
        /\ events' = IF j \in BlockJobs THEN events ELSE events \ page
        /\ IF page = {} THEN SetJob(j, [job[j] EXCEPT !.pc = "release"])
                        ELSE UNCHANGED job
        /\ UNCHANGED <<scenario, now, height, writing, times, chunkIndex, blocks, blockIndex,
                       lock, reader, restarts>>

\* With a bug: the lock stays after a prune.
KeepLock(j) ==
    /\ job[j].pc = "release"
    /\ lock' = (job[j].stop = None)
    /\ SetJob(j, IdleJob)
    /\ UNCHANGED <<scenario, now, storeVars, reader, restarts>>

\* The job is done, or found nothing to do.
ReleaseLock(j) ==
    /\ job[j].pc = "release"
    /\ lock' = FALSE
    /\ SetJob(j, IdleJob)
    /\ UNCHANGED <<scenario, now, storeVars, reader, restarts>>

\* The node restarts between two pages, and commits the chunk it was at again.
Restart ==
    /\ restarts < scenario.restarts
    /\ restarts' = restarts + 1
    /\ writing' = "idle" /\ lock' = FALSE
    /\ job' = [j \in AllJobs |-> IdleJob]
    /\ reader' = NoReader
    /\ UNCHANGED <<scenario, now, height, times, chunks, chunkIndex, blocks, blockIndex, events>>

-----------------------------------------------------------------------------
\* subscribe with from_id 0.
Subscribe ==
    /\ scenario.readers /\ reader.pc = "none"
    /\ reader' = [NoReader EXCEPT !.pc = "page"]
    /\ UNCHANGED <<scenario, now, storeVars, lock, job, restarts>>

\* With a bug: the key after the token is skipped.
PageAfterTwo(past) ==
    FirstOf({e \in events : past = <<>> \/ e > Last(past) + 1}, PageSize)

\* get_events: forward from the token, which is the last key of a full page.
PageAfter(past) == FirstOf({e \in events : past = <<>> \/ e > Last(past)}, PageSize)

ReadPage ==
    LET page == PageAfter(reader.past)
    IN  /\ reader.pc = "page"
        /\ reader' = [reader EXCEPT !.past = @ \o page,
                          !.pc = IF Len(page) = PageSize THEN "page" ELSE "open"]
        /\ UNCHANGED <<scenario, now, storeVars, lock, job, restarts>>

\* event_tx.subscribe(): what was sent before is not seen.
OpenStream ==
    /\ reader.pc = "open"
    /\ reader' = [reader EXCEPT !.pc = "live",
                      !.opened = IF writing = "put" THEN height + 1 ELSE height]
    /\ UNCHANGED <<scenario, now, storeVars, lock, job, restarts>>

Next ==
    \/ Tick \/ WriteEvents \/ EmitEvents \/ PutShardChunk \/ PutBlock \/ Restart
    \/ \E j \in Jobs : StartJob(j) \/ PruneBlocks(j) \/ CheckLock(j) \/ TakeLock(j)
                          \/ PrunePage(j) \/ ReleaseLock(j)
    \/ Subscribe \/ ReadPage \/ OpenStream

Spec == Init /\ [][Next]_vars

-----------------------------------------------------------------------------
SuffixOf(S, all) == \A x \in S : \A y \in all : y > x => y \in S

\* Two jobs that got past the lock together, pages and restarts leave of each
\* store a suffix, with everything inside the retention and the tip, from
\* which the confirmed height is read (stores.rs, line 408; shard.rs, 245).
RetentionKept ==
    LET done == 1..height
    IN  /\ SuffixOf(chunks, done) /\ SuffixOf(blocks, 1..Max({0} \union blocks))
        /\ SuffixOf(events, UNION {EventsOf(h) : h \in done})
        /\ \A h \in done : times[h] >= now - BlockRetention => h \in chunks
        /\ \A h \in done : times[h] >= now - EventRetention => EventsOf(h) \subseteq events
        /\ height > 0 => height \in chunks

\* The last event of a subscriber's pages has all stored events before it in
\* the pages, in order and once, whatever is pruned or written between pages;
\* later it misses only what was sent before its stream opened (server.rs,
\* line 884; event.rs, line 149).
SubscriberMissesOnlyGap ==
    LET past == reader.past
        seen == Range(past) \union Range(reader.live)
    IN  /\ \A i, k \in DOMAIN past : i < k => past[i] < past[k]
        /\ past # <<>> => \A e \in events : e <= Last(past) => e \in Range(past)
        /\ reader.pc = "live" =>
               \A e \in events :
                   (HeightOf(e) <= height /\ HeightOf(e) > reader.opened) => e \in seen

\* Events older than the retention go, once there is a chunk inside it, even
\* though a job that finds the lock taken gives up (stores.rs, line 406).
OldEventsPruned ==
    LET Inside(h) == times[h] >= now - EventRetention
    IN  (now = MaxTime /\ Jobs \ BlockJobs # {} /\ \E g \in chunks : Inside(g))
            ~> \A h \in 1..height : Inside(h) \/ events \intersect EventsOf(h) = {}
=============================================================================
