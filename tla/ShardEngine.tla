---------------------------- MODULE ShardEngine ----------------------------
(***************************************************************************)
(* The ShardEngine of one node (src/src/storage/store/engine.rs) as        *)
(* operators on an engine record: the committed database, the cached batch *)
(* of the last proposal that replayed well (pending_txn), the generator of *)
(* event ids (account/event.rs) and the hub events in the database.        *)
(***************************************************************************)
EXTENDS BlockReplay

HubEvent(h, s, body) == [height |-> h, seq |-> s, body |-> body]

NewEngine == [db |-> EmptyAccount, pending |-> None,
              height |-> 0, seq |-> 0, hub |-> {}]

\* What a crash leaves of an engine: the database.  The generator starts
\* over at height 0.
Reopened(e) == [e EXCEPT !.pending = None, !.height = 0, !.seq = 0]

\* With a bug: the cached transaction survives the start of a round.
StartRoundKeepsPending(e, h) == [e EXCEPT !.height = h, !.seq = 0]

\* start_round.
StartRound(e, h) == [e EXCEPT !.pending = None, !.height = h, !.seq = 0]

-----------------------------------------------------------------------------
(***************************************************************************)
(* Replaying a proposal on the engine: generate_id numbers the events from *)
(* 1, or from where the previous replay in the round stopped.              *)
(***************************************************************************)
FirstSeq(e) == IF e.seq = 0 THEN 1 ELSE e.seq

\* With a bug: the trie is not reloaded after the previous replay, so that
\* its changes are still there.
CachedWithoutReload(e, txn) ==
    LET r == Replay(IF e.pending = None THEN e.db ELSE e.pending.account, txn)
    IN  [root    |-> Root(r.account),
         base    |-> e.db,
         account |-> r.account,
         events  |-> [i \in DOMAIN r.events |->
                        HubEvent(e.height, FirstSeq(e) + i - 1, r.events[i])]]

\* A CachedTransaction.  base is the database it was computed on; the batch
\* is the difference between base and account.
Cached(e, txn) ==
    LET r == Replay(e.db, txn)
    IN  [root    |-> Root(r.account),
         base    |-> e.db,
         account |-> r.account,
         events  |-> [i \in DOMAIN r.events |->
                        HubEvent(e.height, FirstSeq(e) + i - 1, r.events[i])]]

SeqAfter(e, c) ==
    IF c.events = << >> THEN e.seq ELSE FirstSeq(e) + Len(c.events)

\* propose_state_change.
ProposeStateChange(e, txn) ==
    LET c == Cached(e, txn)
    IN  [e EXCEPT !.pending = c, !.seq = SeqAfter(e, c)]

\* validate_state_change returns true.
StateChangeValid(e, chunk) == Cached(e, chunk.txn).root = chunk.root

\* validate_state_change.  A failed validation has used event ids, and
\* leaves an earlier cached transaction in place.
ValidateStateChange(e, chunk) ==
    LET c == Cached(e, chunk.txn)
    IN  [e EXCEPT !.pending = IF StateChangeValid(e, chunk) THEN c ELSE @,
                  !.seq = SeqAfter(e, c)]

-----------------------------------------------------------------------------
(***************************************************************************)
(* Committing a decided chunk.                                             *)
(***************************************************************************)

\* Writing a batch computed on base to the database d.
OverSet(d, base, after) == (d \ (base \ after)) \cup (after \ base)
OverMap(d, base, after) ==
    [k \in DOMAIN d |-> IF after[k] = base[k] THEN d[k] ELSE after[k]]

ApplyBatch(d, c) ==
    LET b == c.base.store
        a == c.account.store
    IN  [store |->
            [msgs    |-> OverSet(d.store.msgs, b.msgs, a.msgs),
             adds    |-> OverMap(d.store.adds, b.adds, a.adds),
             removes |-> OverMap(d.store.removes, b.removes, a.removes),
             compact |-> OverMap(d.store.compact, b.compact, a.compact),
             trie    |-> OverSet(d.store.trie, b.trie, a.trie)],
         removed |-> OverSet(d.removed, c.base.removed, c.account.removed)]

\* The events of the commit, the BLOCK_CONFIRMED event first.
CommitEvents(e, c) ==
    <<HubEvent(e.height, 0, Event("confirmed", None, {}))>> \o c.events

\* An event overwrites the one stored under the same id.
PutEvents(hub, events) ==
    {old \in hub : \A i \in DOMAIN events :
        events[i].height # old.height \/ events[i].seq # old.seq}
    \cup ToSet(events)

\* commit_and_emit_events, up to the write of the chunk.
CommitBatch(e, c) ==
    [e EXCEPT !.db = ApplyBatch(@, c),
              !.hub = PutEvents(@, CommitEvents(e, c))]

\* With a bug: any cached transaction is taken.
UsesAnyCached(e, chunk) == e.pending # None

\* commit_shard_chunk takes the cached transaction if its root is the
\* chunk's.
UsesCached(e, chunk) ==
    IF e.pending = None THEN FALSE ELSE e.pending.root = chunk.root

\* The engine and the transaction it commits.  Without a cached one the
\* chunk is replayed with a fresh id sequence.
ForCommit(e, chunk) ==
    IF UsesCached(e, chunk)
    THEN [engine |-> e, txn |-> e.pending]
    ELSE LET fresh == [e EXCEPT !.height = chunk.height, !.seq = 0]
             c     == Cached(fresh, chunk.txn)
         IN  [engine |-> [fresh EXCEPT !.seq = SeqAfter(fresh, c)], txn |-> c]
=============================================================================
