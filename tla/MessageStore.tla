---------------------------- MODULE MessageStore ----------------------------
(***************************************************************************)
(* One account's message store while blocks are replayed on it             *)
(* (ShardEngine::replay_snapchain_txn in src/src/storage/store/engine.rs). *)
(* A transaction of the account first revokes the messages of removed      *)
(* signers, then merges user messages, then prunes once for every type of  *)
(* message that was merged.  The result is committed with the block, or    *)
(* thrown away (another proposal is replayed, or the replay fails).        *)
(*                                                                         *)
(* Rejected merges change nothing but the list of failure events, so they  *)
(* are stuttering steps here.                                              *)
(***************************************************************************)
EXTENDS StoreOps

CONSTANTS
    Limits       \* the storage limits the account can have at a prune

ASSUME LimitsAssumption == Limits \subseteq Nat

VARIABLES
    db,          \* the committed store
    view,        \* the store as seen through the open batch
    phase,       \* where the replay of the account's transaction is
    types        \* message_types: the types merged and not yet pruned for

vars == <<db, view, phase, types>>

Init ==
    /\ db = EmptyStore
    /\ view = EmptyStore
    /\ phase = "system"
    /\ types = {}

\* A SignerRemove event in the transaction: revoke_messages.
RevokeSigner(s) ==
    /\ phase = "system"
    /\ view' = Discard(view, Revoked(db, s))
    /\ UNCHANGED <<db, phase, types>>

\* With a bug: the link type is recorded in the place of the message type.
MergeMessageByLinkType(m) ==
    /\ phase \in {"system", "user"}
    /\ MergeAccepts(view, m)
    /\ view' = Merge(db, view, m)
    /\ phase' = "user"
    /\ types' = types \cup {m.type}
    /\ UNCHANGED db

\* A valid user message that its store accepts: merge_message, update_trie.
MergeMessage(m) ==
    /\ phase \in {"system", "user"}
    /\ MergeAccepts(view, m)
    /\ view' = Merge(db, view, m)
    /\ phase' = "user"
    /\ types' = types \cup {m.kind}
    /\ UNCHANGED db

\* prune_messages for one of the merged types, in any order of the types
\* (they are in a HashSet).  The limit depends on the storage rented by
\* then and on the wall clock.
PruneMessages(t, max) ==
    /\ phase \in {"user", "prune"}
    /\ t \in types
    /\ view' = Discard(view, Pruned(db, view, max))
    /\ phase' = "prune"
    /\ types' = types \ {t}
    /\ UNCHANGED db

\* commit_and_emit_events writes the batch to the database.
Commit ==
    /\ types = {}
    /\ db' = view
    /\ phase' = "system"
    /\ UNCHANGED <<view, types>>

\* The batch is dropped: start_round, a failed validation, a simulation.
Rollback ==
    /\ view' = db
    /\ phase' = "system"
    /\ types' = {}
    /\ UNCHANGED db

Next ==
    \/ \E s \in Signer : RevokeSigner(s)
    \/ \E m \in Message : MergeMessage(m)
    \/ \E t \in Kinds, max \in Limits : PruneMessages(t, max)
    \/ Commit
    \/ Rollback

Spec == Init /\ [][Next]_vars

-----------------------------------------------------------------------------
(***************************************************************************)
(* Properties.                                                             *)
(***************************************************************************)

TypeOK ==
    /\ db \in Store
    /\ view \in Store
    /\ phase \in {"system", "user", "prune"}
    /\ types \subseteq Kinds

\* Every entry of the adds, removes and compact state indices leads to a
\* stored message of that kind and key.  A dangling entry makes
\* get_merge_conflicts skip the conflict with only a warning.
IndexSound(S) ==
    /\ \A k \in Key : S.adds[k] # None =>
          /\ S.adds[k] \in S.msgs
          /\ S.adds[k].kind = "add"
          /\ S.adds[k].key = k
    /\ \A k \in Key : S.removes[k] # None =>
          /\ S.removes[k] \in S.msgs
          /\ S.removes[k].kind = "remove"
          /\ S.removes[k].key = k
    /\ \A t \in LinkType : S.compact[t] # None =>
          /\ S.compact[t].kind = "compact"
          /\ S.compact[t].type = t

\* No key is in the adds set and in the removes set at once: merging one
\* side deletes the other, also when both arrive in the same block.
OneWinner(S) == \A k \in Key : S.adds[k] = None \/ S.removes[k] = None

\* The trie, and with it the state root that validators agree on, covers
\* exactly the messages in the store: what the events tell update_trie is
\* what the store did to its primary and compact state keys.
TrieMatches(S) ==
    S.trie = S.msgs \cup ({S.compact[t] : t \in LinkType} \ {None})

\* Index entries are sound in the database and inside every batch, although
\* prune, revoke and compaction delete what they read from the database
\* before the batch.
IndicesSound == IndexSound(db) /\ IndexSound(view)

\* A key never has an add winner and a remove winner, in the database or
\* inside a batch.
AddsRemovesDisjoint == OneWinner(db) /\ OneWinner(view)

\* The state root describes the stored messages, in the database and at
\* every point of a replay.
RootCoversStore == TrieMatches(db) /\ TrieMatches(view)

\* The winning message of a key.
Winner(S) ==
    [k \in Key |-> IF S.adds[k] # None THEN S.adds[k] ELSE S.removes[k]]

KeyOfMessage(m) == m.key

Lww == INSTANCE LwwSet WITH
            KeyOf <- KeyOfMessage, Wins <- Beats,
            committed <- Winner(db), working <- Winner(view)

\* The store implements a last-write-wins set: the winner of a key changes
\* only to a message that beats it, or is dropped; a commit publishes all
\* of a block's changes and a rollback none.
LastWriteWins == Lww!Spec

\* Two stored messages never collide: "Collisions are handled with
\* Last-Write-Wins + Remove-Wins rules" (link_store.rs), so of the messages
\* about one key at most one is kept.  The code does not ensure it.
CollisionsResolved ==
    \A m, n \in db.msgs : m.key = n.key => m = n

\* Pruning discards messages only "when storage limits are exceeded"
\* (whitepaper): the stored messages, compact states included, outnumber
\* the limit.  The code does not ensure it.
PruneOnlyOverLimit ==
    [][\A t \in Kinds, max \in Limits :
          PruneMessages(t, max) /\ Cardinality(view.trie) <= max
              => view'.msgs = view.msgs]_vars

=============================================================================
