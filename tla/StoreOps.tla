------------------------------ MODULE StoreOps ------------------------------
(***************************************************************************)
(* The message store of one account (src/src/storage/store/account/        *)
(* store.rs) as pure operators on a store record.  A store holds the       *)
(* messages of one fid and one store type (casts, links, reactions,        *)
(* verifications) together with the indices that decide collisions, and    *)
(* the part of the merkle trie that covers them.                           *)
(*                                                                         *)
(* A replay of a block works on a RocksDB database and on a batch of       *)
(* uncommitted writes.  get_from_db_or_txn reads the batch over the        *)
(* database, so the batch is modelled by the store it would produce (the   *)
(* argument S below); iterators, and trie nodes deleted in the batch, are  *)
(* read from the committed database (the argument db).                     *)
(***************************************************************************)
EXTENDS Integers, FiniteSets

CONSTANTS
    StoreKind,   \* "cast", "link" or "reaction" (verifications are alike)
    Message,     \* the messages of the account that are ever submitted
    Key,         \* what an add and a remove are about (cast hash, link, ...)
    LinkType,    \* the types of links ("follow", ...), one compact slot each
    Target,      \* the targets of links
    Signer,      \* the keys that sign messages
    None         \* the absent entry of an index

Kinds == {"add", "remove", "compact"}

ASSUME StoreAssumption ==
    /\ StoreKind \in {"cast", "link", "reaction"}
    /\ None \notin Message
    /\ \A m \in Message :
          /\ m.kind \in Kinds
          /\ m.key \in Key
          /\ m.ts \in Nat
          /\ m.hash \in Nat
          /\ m.signer \in Signer
          /\ m.type \in LinkType
          /\ m.target \in Target
          /\ m.targets \subseteq Target
          /\ m.kind = "compact" => StoreKind = "link"

\* A message is identified by its hash: equal ts_hash bytes, equal message.
ASSUME HashAssumption ==
    \A m, n \in Message : m.hash = n.hash => m = n

-----------------------------------------------------------------------------
(***************************************************************************)
(* A store: the messages under their primary keys, the adds and removes    *)
(* set indices, the compact state messages (kept under a key of their      *)
(* own), and the messages whose hashes are in the trie.                    *)
(***************************************************************************)
Store == [msgs    : SUBSET Message,
          adds    : [Key -> Message \cup {None}],
          removes : [Key -> Message \cup {None}],
          compact : [LinkType -> Message \cup {None}],
          trie    : SUBSET Message]

EmptyStore == [msgs    |-> {},
               adds    |-> [k \in Key |-> None],
               removes |-> [k \in Key |-> None],
               compact |-> [t \in LinkType |-> None],
               trie    |-> {}]

\* The order of ts_hash bytes, which is the order of the primary keys.
TsHashLess(a, b) == a.ts < b.ts \/ (a.ts = b.ts /\ a.hash < b.hash)

\* message_compare(a, b) > 0.  Casts put the message type before the
\* timestamp (a remove wins over any add), the other stores after it.
Beats(a, b) ==
    IF a.kind # b.kind /\ (StoreKind = "cast" \/ a.ts = b.ts)
    THEN a.kind = "remove"
    ELSE TsHashLess(b, a)

\* With a bug: only the index of the message's own kind is looked at.
CollidingSameKind(S, m) ==
    {IF m.kind = "remove" THEN S.removes[m.key] ELSE S.adds[m.key]} \ {None}

\* The indexed messages that m collides with (get_merge_conflicts).
Colliding(S, m) == {S.removes[m.key], S.adds[m.key]} \ {None}

\* With a bug: the index entries stay.
DeleteManyKeepsIndex(S, D) == [S EXCEPT !.msgs = @ \ D]

\* delete_many_transaction: each message of D leaves its primary key and
\* the index entry of its key, whatever that entry points to.
DeleteMany(S, D) ==
    [S EXCEPT
        !.msgs = @ \ D,
        !.adds = [k \in Key |->
            IF \E d \in D : d.kind = "add" /\ d.key = k THEN None ELSE @[k]],
        !.removes = [k \in Key |->
            IF \E d \in D : d.kind = "remove" /\ d.key = k THEN None ELSE @[k]],
        !.compact = [t \in LinkType |->
            IF \E d \in D : d.kind = "compact" /\ d.type = t THEN None ELSE @[t]]]

\* put_add_transaction, put_remove_transaction and
\* put_add_compact_state_transaction.
PutMessage(S, m) ==
    CASE m.kind = "add" ->
           [S EXCEPT !.msgs = @ \cup {m}, !.adds[m.key] = m]
      [] m.kind = "remove" ->
           [S EXCEPT !.msgs = @ \cup {m}, !.removes[m.key] = m]
      [] m.kind = "compact" ->
           [S EXCEPT !.compact[m.type] = m]

-----------------------------------------------------------------------------
(***************************************************************************)
(* Merging one message (Store::merge).                                     *)
(***************************************************************************)

\* merge_add and merge_remove refuse what the compact state of the link
\* type has already decided.
CompactRefuses(S, m) ==
    LET c == S.compact[m.type]
    IN  /\ StoreKind = "link"
        /\ c # None
        /\ m.ts < c.ts
        /\ m.kind = "add" => m.target \notin c.targets

\* With a bug: a colliding winner is not compared with.
MergeAcceptsStale(S, m) ==
    IF m.kind = "compact" THEN TRUE ELSE ~CompactRefuses(S, m)

\* Whether merge returns Ok.
MergeAccepts(S, m) ==
    IF m.kind = "compact"
    THEN S.compact[m.type] # None => S.compact[m.type].ts < m.ts
    ELSE /\ ~CompactRefuses(S, m)
         /\ \A e \in Colliding(S, m) : Beats(m, e)

\* The messages of the database that merging the compact state m deletes.
CompactedBy(db, m) ==
    {d \in db.msgs : /\ d.ts <= m.ts
                     /\ d.kind = "add" => d.target \notin m.targets}

\* The deleted_messages of the merge event.  A colliding index entry whose
\* message is not found is only logged.
MergeConflicts(db, S, m) ==
    IF m.kind = "compact"
    THEN ({S.compact[m.type]} \ {None}) \cup CompactedBy(db, m)
    ELSE Colliding(S, m) \cap S.msgs

\* With a bug: the messages deleted by the merge stay in the trie.
TrieForgetsDeleted(S, m, D) == S.trie \cup {m}

\* update_trie of a merge event: the insert, then the deletes.
TrieAfterMerge(S, m, D) == (S.trie \cup {m}) \ D

\* The store after an accepted merge and the trie update of its event.
Merge(db, S, m) ==
    LET D == MergeConflicts(db, S, m)
    IN  [PutMessage(DeleteMany(S, D), m) EXCEPT !.trie = TrieAfterMerge(S, m, D)]

-----------------------------------------------------------------------------
(***************************************************************************)
(* Deleting messages found by iterating over the database.                 *)
(***************************************************************************)

\* The deletes of a set of messages and the trie updates of their events.
Discard(S, D) == [DeleteMany(S, D) EXCEPT !.trie = S.trie \ D]

\* revoke_messages_by_signer: the iteration covers the primary keys only,
\* so compact state messages are not among them.
Revoked(db, s) == {d \in db.msgs : d.signer = s}

\* MerkleTrie::get_count of one message type.  A node that the batch has
\* deleted (no message of the type left) is looked up in the database.
TrieCount(db, S, kind) ==
    LET inView == {m \in S.trie : m.kind = kind}
        inDb   == {m \in db.trie : m.kind = kind}
    IN  IF inView = {} THEN Cardinality(inDb) ELSE Cardinality(inView)

\* Stores::get_usage_by_store_type: the sum over the store's types.
Usage(db, S) ==
    TrieCount(db, S, "add") + TrieCount(db, S, "remove")
        + TrieCount(db, S, "compact")

\* Store::prune_messages: the oldest messages of the database, as many as
\* the usage exceeds the limit by.
Pruned(db, S, max) ==
    {d \in db.msgs :
        Cardinality({e \in db.msgs : TsHashLess(e, d)}) < Usage(db, S) - max}
=============================================================================
