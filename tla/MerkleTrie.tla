----------------------------- MODULE MerkleTrie -----------------------------
(***************************************************************************)
(* The trie of a shard: MerkleTrie and TrieNode (src/src/storage/trie),    *)
(* used by ShardEngine::update_trie one key at a time, over the records in *)
(* the database.  A replay changes nodes in memory and collects records in *)
(* a transaction; afterwards the transaction is written or dropped, and in *)
(* both cases the trie is reloaded from the database (engine.rs).          *)
(*                                                                         *)
(* Options are sequences: a child is <<>> while it is only in the database *)
(* and <<node>> once it is loaded.  A hash is a tuple that shows what was  *)
(* hashed.  A key has one byte of fid where the code has four.             *)
(***************************************************************************)
EXTENDS Integers, Sequences, FiniteSets, SequencesExt, FiniteSetsExt, TLC

CONSTANTS
    FidShard,             \* fid_shard: virtual shard of a fid
    NameLength,           \* USERNAME_MAX_LENGTH
    UncompactedLength,    \* UNCOMPACTED_LENGTH, in nibbles
    Scenarios             \* [items, permanent, batches, size]: what may be in
                          \* the trie, what is never deleted, the number of
                          \* transactions and of operations in each

VARIABLES
    scenario,
    root,      \* the root with what is loaded below it
    db, txn,   \* records by prefix; txn has <<>> for a deletion
    keys,      \* history: the keys the transaction should lead to
    dbKeys,    \* history: the keys that are committed
    batches, size,
    failed     \* an unwrap() of an error

vars == <<scenario, root, db, txn, keys, dbKeys, batches, size, failed>>

-----------------------------------------------------------------------------
\* TrieKey.  Items are [kind, fid, type, id], id a sequence of bytes.

ForFname(fid, name) ==
    <<FidShard[fid], fid, 7>> \o name \o [i \in 1..NameLength - Len(name) |-> 0]

ForMessage(fid, type, hash) == <<FidShard[fid], fid, type * 8>> \o hash

ForOnchainEvent(fid, type, id) == <<FidShard[fid], fid, type>> \o id

TrieKeyFor(i) ==
    CASE i.kind = "fname"   -> ForFname(i.fid, i.id)
      [] i.kind = "message" -> ForMessage(i.fid, i.type, i.id)
      [] i.kind = "event"   -> ForOnchainEvent(i.fid, i.type, i.id)

ExpandNibbles(bytes) ==
    [i \in 1..2 * Len(bytes) |->
        LET byte == bytes[(i + 1) \div 2]
        IN  IF i % 2 = 1 THEN byte \div 16 ELSE byte % 16]

KeyOf(i) == ExpandNibbles(TrieKeyFor(i))

-----------------------------------------------------------------------------
\* TrieNode.

NoNode == [items |-> 0, children |-> <<>>, hashes |-> <<>>, key |-> <<>>]

IsLeaf(n) == n.children = <<>>

Hash(n) ==
    IF IsLeaf(n) THEN IF n.key = <<>> THEN <<>> ELSE <<"key", n.key>>
    ELSE LET chars == SetToSortSeq(DOMAIN n.hashes, <)
         IN  IF chars = <<>> THEN <<>>
             ELSE <<"node", [i \in DOMAIN chars |-> n.hashes[chars[i]]]>>

Serialize(n) ==
    [items |-> n.items, chars |-> DOMAIN n.children, hashes |-> n.hashes, key |-> n.key]

Deserialize(r) ==
    [items |-> r.items, children |-> [c \in r.chars |-> <<>>],
     hashes |-> r.hashes, key |-> r.key]

\* TLA+ functions as maps.
With(f, c, v) == (c :> v) @@ f
Without(f, c) == [d \in DOMAIN f \ {c} |-> f[d]]

\* get_or_load_child: from memory, or from the database but not from the
\* transaction; a record that is not there is an empty node.
GetOrLoadChild(n, D, prefix, c) ==
    IF n.children[c] # <<>> THEN n.children[c][1]
    ELSE IF prefix \o <<c>> \in DOMAIN D THEN Deserialize(D[prefix \o <<c>>])
    ELSE NoNode

\* update_hash: the hash of a node is kept in its parent.
UpdateHash(n, parent, prefix) ==
    IF prefix = <<>> THEN parent
    ELSE IF Hash(n) = <<>> THEN Without(parent, Last(prefix))
    ELSE With(parent, Last(prefix), Hash(n))

PutToTxn(T, prefix, n) == With(T, prefix, <<Serialize(n)>>)
DeleteToTxn(T, prefix) == With(T, prefix, <<>>)

Failure(n, parent, T) == [node |-> n, parent |-> parent, txn |-> T, res |-> "error"]

\* split_leaf_node: the key moves to a new child.
SplitLeafNode(n, T, index) ==
    LET prefix == SubSeq(n.key, 1, index)
        c == n.key[index + 1]
        child == [NoNode EXCEPT !.key = n.key, !.items = 1]
        m == [n EXCEPT !.key = <<>>,
                       !.children = With(@, c, <<child>>),
                       !.hashes = With(@, c, Hash(child))]
    IN  [node |-> m,
         txn |-> PutToTxn(PutToTxn(T, prefix \o <<c>>, child), prefix, m)]

\* insert of one key; index characters of it lead to the node n, whose hash
\* is kept in parent.
RECURSIVE InsertKey(_, _, _, _, _, _)
InsertKey(n, parent, D, T, key, index) ==
    LET prefix == SubSeq(key, 1, index)
        compact == index >= UncompactedLength /\ IsLeaf(n)
    IN  IF compact /\ n.key = <<>> THEN
            LET m == [n EXCEPT !.key = key, !.items = @ + 1]
            IN  [node |-> m, parent |-> UpdateHash(m, parent, prefix),
                 txn |-> PutToTxn(T, prefix, m), res |-> "done"]
        ELSE IF compact /\ n.key = key THEN
            [node |-> n, parent |-> parent, txn |-> T, res |-> "none"]
        ELSE IF index >= Len(key) \/ (compact /\ index >= Len(n.key)) THEN
            Failure(n, parent, T)
        ELSE
            LET s == IF compact THEN SplitLeafNode(n, T, index)
                     ELSE [node |-> n, txn |-> T]
                c == key[index + 1]
                m == IF c \in DOMAIN s.node.children THEN s.node
                     ELSE [s.node EXCEPT !.children = With(@, c, <<NoNode>>)]
                r == InsertKey(GetOrLoadChild(m, D, prefix, c), m.hashes, D,
                              s.txn, key, index + 1)
                grown == [m EXCEPT !.children = With(@, c, <<r.node>>),
                                   !.hashes = r.parent,
                                   !.items = IF r.res = "done" THEN @ + 1 ELSE @]
            IN  IF r.res # "done"
                THEN [node |-> grown, parent |-> parent, txn |-> r.txn, res |-> r.res]
                ELSE [node |-> grown, parent |-> UpdateHash(grown, parent, prefix),
                      txn |-> PutToTxn(r.txn, prefix, grown), res |-> "done"]

\* With a bug: the node keeps its only child.
NeverCompacted(n, D, T, prefix, index) == [node |-> n, txn |-> T]

\* The end of delete: a node with one key left takes it from its child.  The
\* prefix that is deleted has the byte of the trie's records in front of it
\* twice: make_primary_key, then delete_to_txn, so that the child's record
\* stays, and the record of the node at 8, prefix, c goes.
SyncMerkleTrieNode == 8
Compacted(n, D, T, prefix, index) ==
    IF ~(n.items = 1 /\ Cardinality(DOMAIN n.children) = 1 /\ index >= UncompactedLength)
    THEN [node |-> n, txn |-> T]
    ELSE LET c == CHOOSE x \in DOMAIN n.children : TRUE
             child == GetOrLoadChild(n, D, prefix, c)
         IN  IF child.key = <<>>
             THEN [node |-> [n EXCEPT !.children = With(@, c, <<child>>)], txn |-> T]
             ELSE [node |-> [n EXCEPT !.key = child.key, !.children = <<>>],
                   txn |-> DeleteToTxn(T, <<SyncMerkleTrieNode>> \o prefix \o <<c>>)]

RECURSIVE DeleteKey(_, _, _, _, _, _)
DeleteKey(n, parent, D, T, key, index) ==
    LET prefix == SubSeq(key, 1, index)
        unchanged == [node |-> n, parent |-> parent, txn |-> T, res |-> "none"]
    IN  IF IsLeaf(n) THEN
            IF n.key # key THEN unchanged
            ELSE LET m == [n EXCEPT !.key = <<>>, !.items = @ - 1]
                 IN  [node |-> m, parent |-> UpdateHash(m, parent, prefix),
                      txn |-> DeleteToTxn(T, prefix), res |-> "done"]
        ELSE IF index >= Len(key) THEN Failure(n, parent, T)
        ELSE IF key[index + 1] \notin DOMAIN n.children THEN unchanged
        ELSE
            LET c == key[index + 1]
                r == DeleteKey(GetOrLoadChild(n, D, prefix, c), n.hashes, D, T, key, index + 1)
                m == IF r.node.items = 0
                     THEN [n EXCEPT !.children = Without(@, c), !.hashes = Without(r.parent, c)]
                     ELSE [n EXCEPT !.children = With(@, c, <<r.node>>), !.hashes = r.parent]
                less == [m EXCEPT !.items = @ - 1]
                end == Compacted(less, D, r.txn, prefix, index)
            IN  IF r.res # "done"
                THEN [node |-> m, parent |-> parent, txn |-> r.txn, res |-> r.res]
                ELSE IF less.items = 0
                THEN [node |-> less, parent |-> UpdateHash(less, parent, prefix),
                      txn |-> DeleteToTxn(r.txn, prefix), res |-> "done"]
                ELSE [node |-> end.node, parent |-> UpdateHash(end.node, parent, prefix),
                      txn |-> PutToTxn(end.txn, prefix, end.node), res |-> "done"]

RECURSIVE KeyExists(_, _, _, _)
KeyExists(n, D, key, index) ==
    IF IsLeaf(n) THEN n.key = key
    ELSE /\ index < Len(key)
         /\ key[index + 1] \in DOMAIN n.children
         /\ KeyExists(GetOrLoadChild(n, D, SubSeq(key, 1, index), key[index + 1]),
                     D, key, index + 1)

\* MerkleTrie::get_node: a record that the transaction deletes is still read
\* from the database.
GetCount(D, T, prefix) ==
    IF prefix \in DOMAIN T /\ T[prefix] # <<>> THEN T[prefix][1].items
    ELSE IF prefix \in DOMAIN D THEN D[prefix].items ELSE 0

-----------------------------------------------------------------------------
\* MerkleTrie.

Apply(D, T) ==
    [p \in (DOMAIN D \union DOMAIN T) \ {q \in DOMAIN T : T[q] = <<>>} |->
        IF p \in DOMAIN T THEN T[p][1] ELSE D[p]]

EmptyRoot == <<>> :> Serialize(NoNode)

\* initialize: the root's record is written when there is none.
Init ==
    /\ scenario \in Scenarios
    /\ db = EmptyRoot /\ root = NoNode
    /\ txn = <<>> /\ keys = {} /\ dbKeys = {}
    /\ batches = 0 /\ size = 0 /\ failed = FALSE

Operate(r, after) ==
    /\ ~failed
    /\ size < scenario.size /\ batches < scenario.batches
    /\ root' = r.node /\ txn' = r.txn
    /\ failed' = (r.res = "error")
    /\ keys' = after /\ size' = size + 1
    /\ UNCHANGED <<scenario, db, dbKeys, batches>>

Insert(i) ==
    Operate(InsertKey(root, <<>>, db, txn, KeyOf(i), 0), keys \union {KeyOf(i)})

Delete(i) ==
    /\ i \notin scenario.permanent
    /\ Operate(DeleteKey(root, <<>>, db, txn, KeyOf(i), 0), keys \ {KeyOf(i)})

\* reload fails when the root has no record.
Reload(D) ==
    /\ failed' = (<<>> \notin DOMAIN D)
    /\ root' = IF <<>> \in DOMAIN D THEN Deserialize(D[<<>>]) ELSE root
    /\ txn' = <<>> /\ size' = 0 /\ batches' = batches + 1

\* commit_and_emit_events
Commit ==
    /\ ~failed /\ size > 0
    /\ db' = Apply(db, txn) /\ dbKeys' = keys
    /\ Reload(db')
    /\ UNCHANGED <<scenario, keys>>

\* propose_state_change, validate_state_change
Rollback ==
    /\ ~failed /\ size > 0
    /\ keys' = dbKeys
    /\ Reload(db)
    /\ UNCHANGED <<scenario, db, dbKeys>>

\* The node starts again after it failed.
Restart ==
    /\ failed /\ <<>> \notin DOMAIN db
    /\ db' = EmptyRoot /\ root' = NoNode
    /\ failed' = FALSE
    /\ UNCHANGED <<scenario, txn, keys, dbKeys, batches, size>>

Next == (\E i \in scenario.items : Insert(i) \/ Delete(i)) \/ Commit \/ Rollback \/ Restart

Spec == Init /\ [][Next]_vars

-----------------------------------------------------------------------------
\* The hash and the records that a set of keys should lead to: one key below
\* the uncompacted part is a leaf.
RECURSIVE ReferenceHash(_, _)
ReferenceHash(K, index) ==
    IF K = {} THEN <<>>
    ELSE IF index >= UncompactedLength /\ Cardinality(K) = 1
    THEN <<"key", CHOOSE k \in K : TRUE>>
    ELSE LET chars == SetToSortSeq({k[index + 1] : k \in K}, <)
         IN  <<"node", [i \in DOMAIN chars |->
                 ReferenceHash({k \in K : k[index + 1] = chars[i]}, index + 1)]>>

\* "This is required to make sure the hash will be the same as another trie
\* that doesn't have this node in the first place." (trie_node.rs, line 442.)
\* Root, membership and counts are functions of the set of keys, whatever
\* insertions, deletions, splits, compactions, roll backs and reloads led to
\* it; a reload only fails when the last key is gone (engine.rs, line 432).
RootDependsOnKeys ==
    /\ failed => dbKeys = {}
    /\ ~failed =>
        /\ Hash(root) = ReferenceHash(keys, 0)
        /\ root.items = Cardinality(keys)
        /\ \A i \in scenario.items : KeyExists(root, db, KeyOf(i), 0) <=> KeyOf(i) \in keys
        /\ \A i \in scenario.items :
               LET prefix == SubSeq(KeyOf(i), 1, UncompactedLength)
               IN  GetCount(db, <<>>, prefix)
                       = Cardinality({k \in dbKeys : SubSeq(k, 1, UncompactedLength) = prefix})
=============================================================================
