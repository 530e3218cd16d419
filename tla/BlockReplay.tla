---------------------------- MODULE BlockReplay ----------------------------
(***************************************************************************)
(* What replaying a block does to the state of a shard                     *)
(* (ShardEngine::replay_proposal and replay_snapchain_txn in               *)
(* src/src/storage/store/engine.rs), as operators on the state of one      *)
(* account: its message store and the signer removals among its on-chain   *)
(* events.  A block is one transaction of the account: at most one         *)
(* SignerRemove event, then user messages in order.                        *)
(***************************************************************************)
EXTENDS StoreOps, Sequences, SequencesExt

CONSTANT Limit       \* the storage limit of the account

ASSUME LimitAssumption == Limit \in Nat

Account == [store : Store, removed : SUBSET Signer]

EmptyAccount == [store |-> EmptyStore, removed |-> {}]

\* The shard root is the hash of the trie, taken to be injective: it tells
\* apart what is in the trie and nothing else.
Root(a) == [trie |-> a.store.trie, removed |-> a.removed]

Transaction == [removal : Signer \cup {None}, msgs : Seq(Message)]

\* The bodies of the hub events that change state.
Event(type, m, deleted) == [type |-> type, msg |-> m, deleted |-> deleted]

\* Events for messages found by an iteration in the order of primary keys.
EventsFor(type, D) ==
    LET sorted == SetToSortSeq(D, TsHashLess)
    IN  [i \in DOMAIN sorted |-> Event(type, sorted[i], {})]

-----------------------------------------------------------------------------
\* A replay in progress: the store seen through the batch, the message
\* types merged so far, and the events.

\* System messages.  An event that is already stored is a duplicate: it is
\* skipped and revokes nothing.
ReplaySystem(a, txn) ==
    IF txn.removal \in {None} \cup a.removed
    THEN [store |-> a.store, types |-> {}, events |-> << >>]
    ELSE LET D == Revoked(a.store, txn.removal)
         IN  [store  |-> Discard(a.store, D),
              types  |-> {},
              events |-> <<Event("signer", txn.removal, {})>>
                             \o EventsFor("revoke", D)]

\* validate_user_message: get_active_signer reads the database, not the
\* batch.
ValidMessage(a, m) == m.signer \notin a.removed

\* One user message; a refused one leaves the batch alone.
ReplayMessage(a, r, m) ==
    IF ValidMessage(a, m) /\ MergeAccepts(r.store, m)
    THEN [store  |-> Merge(a.store, r.store, m),
          types  |-> r.types \cup {m.kind},
          events |-> Append(r.events,
                        Event("merge", m, MergeConflicts(a.store, r.store, m)))]
    ELSE r

\* prune_messages for one merged type: the limit is that of the store.
ReplayPrune(a, r) ==
    LET D == Pruned(a.store, r.store, Limit)
    IN  [r EXCEPT !.store = Discard(@, D),
                  !.events = @ \o EventsFor("prune", D)]

\* replay_snapchain_txn: the account and the events it produces.
Replay(a, txn) ==
    LET merge(r, m) == ReplayMessage(a, r, m)
        prune(r, t) == ReplayPrune(a, r)
        merged == FoldLeft(merge, ReplaySystem(a, txn), txn.msgs)
        pruned == FoldLeft(prune, merged, SetToSeq(merged.types))
    IN  [account |-> [store   |-> pruned.store,
                      removed |-> (a.removed \cup {txn.removal}) \ {None}],
         events  |-> pruned.events]
=============================================================================
