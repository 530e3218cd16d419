----------------------------- MODULE MCStorage -----------------------------
(***************************************************************************)
(* What a node stores: a store of links and one of casts, the accounts     *)
(* with their signers and names, the storage that an account rents, the    *)
(* nodes of the trie, the listings that are read from the stores, and      *)
(* snapshots.  The parts share no state in the model, so each behaviour    *)
(* runs one of them.  The store of links has the constants of the          *)
(* configuration, the others those below.                                  *)
(***************************************************************************)
EXTENDS MCMessageStore

VARIABLES
    part,          \* the part that runs
    c_db, c_view, c_phase, c_types,
    a_scenario, a_db, a_batch, a_replayed, a_touched, a_mixed, a_height,
    r_scenario, r_clock, r_chain, r_db, r_times,
    t_scenario, t_root, t_db, t_txn, t_keys, t_dbKeys, t_batches, t_size,
    t_failed,
    l_scenario, l_stores, l_order, l_client, l_request, l_writes, l_restarts,
    l_stable, l_undisturbed,
    s_scenario, s_version, s_backupDir, s_up, s_clock, s_objects, s_latest,
    s_down, s_restored, s_used

cVars == <<c_db, c_view, c_phase, c_types>>
aVars == <<a_scenario, a_db, a_batch, a_replayed, a_touched, a_mixed, a_height>>
rVars == <<r_scenario, r_clock, r_chain, r_db, r_times>>
tVars == <<t_scenario, t_root, t_db, t_txn, t_keys, t_dbKeys, t_batches,
           t_size, t_failed>>
lVars == <<l_scenario, l_stores, l_order, l_client, l_request, l_writes,
           l_restarts, l_stable, l_undisturbed>>
sVars == <<s_scenario, s_version, s_backupDir, s_up, s_clock, s_objects,
           s_latest, s_down, s_restored, s_used>>

Casts == INSTANCE MessageStore WITH
    StoreKind <- "cast", Message <- MCCasts,
    db <- c_db, view <- c_view, phase <- c_phase, types <- c_types

-----------------------------------------------------------------------------
(***************************************************************************)
(* Accounts.                                                               *)
(***************************************************************************)

SignerEvent(kind, f, k, b) ==
    [type |-> "signer", kind |-> kind, fid |-> f, key |-> k, block |-> b, log |-> 0]
Register(f, b) ==
    [type |-> "id", kind |-> "Register", fid |-> f, key |-> None, block |-> b, log |-> 0]
Transfer(n, from, to, ts) ==
    [type |-> "transfer", name |-> n, from |-> from, to |-> to, ts |-> ts]
UserMsg(store, op, f, k, v, o, s) ==
    [store |-> store, op |-> op, fid |-> f, key |-> k, value |-> v, order |-> o, signer |-> s]

AccountScenario(genesis, system, user, blocks) ==
    [genesis |-> genesis, system |-> system, user |-> user,
     version |-> "V5", blocks |-> blocks, size |-> 2]

\* A signer that is added, removed, added again and reset; two names that move
\* between two fids and are freed; a verification with the primary address.
AccountScenarios == {
    AccountScenario(
        <<Register(1, 1)>>,
        {SignerEvent("Add", 1, "k1", 1), SignerEvent("Remove", 1, "k1", 2),
         SignerEvent("Add", 1, "k1", 3), SignerEvent("AdminReset", 1, "k1", 4)},
        {UserMsg("cast", "add", 1, "c", "", 1, "k1"),
         UserMsg("proof", "add", 1, "e.eth", "", 1, "k1"),
         UserMsg("userdata", "add", 1, "username", "e.eth", 1, "k1")}, 5),
    AccountScenario(
        <<Register(1, 1), Register(2, 1),
          SignerEvent("Add", 1, "k1", 1), SignerEvent("Add", 2, "k1", 1)>>,
        {Transfer("n", 0, 1, 1), Transfer("n", 1, 2, 2), Transfer("n", 2, 0, 3),
         Transfer("n2", 0, 1, 1)},
        {UserMsg("userdata", "add", 1, "username", "n", 1, "k1"),
         UserMsg("userdata", "add", 2, "username", "n", 1, "k1"),
         UserMsg("userdata", "add", 1, "username", "n2", 2, "k1")}, 4),
    AccountScenario(
        <<Register(1, 1), SignerEvent("Add", 1, "k1", 1), SignerEvent("Add", 1, "k2", 2)>>,
        {SignerEvent("Remove", 1, "k2", 3)},
        {UserMsg("verification", "add", 1, "a", "", 1, "k2"),
         UserMsg("verification", "remove", 1, "a", "", 2, "k1"),
         UserMsg("userdata", "add", 1, "primary", "a", 1, "k1"),
         UserMsg("verification", "add", 1, "a", "", 3, "k1")}, 4)}

Accounts == INSTANCE Account WITH
    Fids <- {1, 2}, SignerKeys <- {"k1", "k2"}, FNames <- {"n", "n2"},
    EnsNames <- {"e.eth"}, Addresses <- {"a"}, Scenarios <- AccountScenarios,
    scenario <- a_scenario, db <- a_db, batch <- a_batch,
    replayed <- a_replayed, touched <- a_touched, mixed <- a_mixed,
    height <- a_height

-----------------------------------------------------------------------------
(***************************************************************************)
(* Rented storage.                                                         *)
(***************************************************************************)

Rent(b) == [block |-> b, ts |-> b, units |-> 1]
Purchase(b, d) == [block |-> b, ts |-> b, days |-> d]
SizedMsg(t, s, i) == [type |-> t, size |-> s, id |-> i]

RentScenario(rents, purchases, messages) ==
    [genesis |-> {Rent(0)}, rents |-> rents, purchases |-> purchases,
     messages |-> messages, blocks |-> 2, size |-> 2]

\* A legacy rent that ends, with another one or not; a tier that is bought
\* around the change of the version; what the version changes.
RentScenarios == {
    RentScenario({Rent(1)}, {}, {SizedMsg("CastAdd", 1, 1), SizedMsg("CastAdd", 1, 2)}),
    RentScenario({}, {Purchase(1, 2)}, {SizedMsg("CastAdd", 2, 1), SizedMsg("CastRemove", 1, 2)}),
    RentScenario({}, {}, {SizedMsg("UsernameProof", 1, 1), SizedMsg("UsernameProof", 1, 2)})}

Rents == INSTANCE StorageRent WITH
    Nodes <- {"validator", "syncing"}, Year <- 2, Day <- 1, LegacyCutoff <- 1,
    Limits <- [t \in {"Casts", "UsernameProofs"} |-> 1],
    LegacyLimits <- [t \in {"Casts", "UsernameProofs"} |->
                        IF t = "Casts" THEN 2 ELSE 1],
    Schedule <- {[at |-> 0, version |-> 4], [at |-> 2, version |-> 5]},
    Scenarios <- RentScenarios, MaxTime <- 4,
    scenario <- r_scenario, clock <- r_clock, chain <- r_chain, db <- r_db,
    times <- r_times

ASSUME Rents!RentConstants

-----------------------------------------------------------------------------
(***************************************************************************)
(* The trie.                                                               *)
(***************************************************************************)

Item(k, f, t, i) == [kind |-> k, fid |-> f, type |-> t, id |-> i]

\* Keys that share nibbles and an event that stays; names of which one is the
\* beginning of the other.
TrieScenarios == {
    [items |-> {Item("message", 17, 1, <<48>>), Item("message", 17, 1, <<49>>),
                Item("message", 17, 1, <<64>>), Item("event", 17, 3, <<1>>)},
     permanent |-> {Item("event", 17, 3, <<1>>)}, batches |-> 3, size |-> 3],
    [items |-> {Item("fname", 17, 0, <<1>>), Item("fname", 17, 0, <<1, 2>>),
                Item("message", 17, 3, <<1>>)},
     permanent |-> {}, batches |-> 3, size |-> 3]}

Trie == INSTANCE MerkleTrie WITH
    FidShard <- (1 :> 128) @@ (17 :> 0), NameLength <- 2, UncompactedLength <- 6,
    Scenarios <- TrieScenarios,
    scenario <- t_scenario, root <- t_root, db <- t_db, txn <- t_txn,
    keys <- t_keys, dbKeys <- t_dbKeys, batches <- t_batches, size <- t_size,
    failed <- t_failed

-----------------------------------------------------------------------------
(***************************************************************************)
(* Listings.                                                               *)
(***************************************************************************)

CastMsg(f, t, parents, mentioned) ==
    [store |-> "cast", fid |-> f, ts |-> t, parent |-> parents,
     mentions |-> mentioned, target |-> <<>>, type |-> 1]
TargetMsg(st, f, t, to, ty) ==
    [store |-> st, fid |-> f, ts |-> t, parent |-> {}, mentions |-> {},
     target |-> to, type |-> ty]
Request(r, to, ty, rev, n) ==
    [request |-> r, target |-> to, type |-> ty, reverse |-> rev, size |-> n]

\* Replies to a URL and mentions, forwards and backwards; reactions of two
\* types and links, one of them replaced by a later one.
ListingScenarios == {
    [stored |-> {CastMsg(1, 1, {<<5>>}, {2}), CastMsg(2, 2, {<<5>>}, {}),
                 CastMsg(1, 3, {<<5>>}, {2})},
     messages |-> {CastMsg(3, 2, {<<5>>}, {2})},
     requests |-> {Request("casts_by_parent", <<5>>, <<>>, FALSE, 1),
                   Request("casts_by_parent", <<5>>, <<>>, TRUE, 2),
                   Request("casts_by_mention", <<2>>, <<>>, FALSE, 1),
                   Request("casts_by_fid", <<1>>, <<>>, FALSE, 1)},
     writes |-> 2, restarts |-> 1],
    [stored |-> {TargetMsg("reaction", 1, 1, <<5>>, 1), TargetMsg("reaction", 1, 2, <<5>>, 2),
                 TargetMsg("reaction", 2, 2, <<5>>, 1), TargetMsg("link", 1, 1, <<2>>, 1)},
     messages |-> {TargetMsg("reaction", 1, 3, <<5>>, 1), TargetMsg("reaction", 3, 2, <<5>>, 1),
                   TargetMsg("link", 3, 2, <<2>>, 1)},
     requests |-> {Request("reactions_by_target", <<5>>, <<>>, FALSE, 1),
                   Request("reactions_by_cast", <<5>>, <<1>>, TRUE, 1),
                   Request("links_by_target", <<2>>, <<1>>, FALSE, 1),
                   Request("links_by_target", <<2>>, <<>>, FALSE, 1),
                   Request("reactions_by_fid", <<1>>, <<>>, TRUE, 1),
                   Request("links_by_fid", <<1>>, <<1>>, FALSE, 1)},
     writes |-> 2, restarts |-> 1]}

Listings == INSTANCE Serving WITH
    ShardOf <- (1 :> 1) @@ (2 :> 2) @@ (3 :> 1), Scenarios <- ListingScenarios,
    scenario <- l_scenario, stores <- l_stores, order <- l_order,
    client <- l_client, request <- l_request, writes <- l_writes,
    restarts <- l_restarts, stable <- l_stable, undisturbed <- l_undisturbed

-----------------------------------------------------------------------------
(***************************************************************************)
(* Snapshots.                                                              *)
(***************************************************************************)

Bounds(u, c, k, e) == [uploads |-> u, commits |-> c, crashes |-> k, errors |-> e]

\* Two uploads of two shards while a node downloads, with a failure, or with
\* a crash; both versions have two chunks.
SnapshotScenarios == {Bounds(2, 1, 0, 1), Bounds(2, 2, 1, 0)}

Snapshots == INSTANCE Snapshot WITH
    ShardIds <- {<<0>>, <<1>>}, Writes <- <<<<2, 2>>, <<2, 1, 3>>>>, MaxSize <- 3,
    Retries <- 1, Scenarios <- SnapshotScenarios,
    scenario <- s_scenario, version <- s_version, backupDir <- s_backupDir,
    up <- s_up, clock <- s_clock, objects <- s_objects, latest <- s_latest,
    down <- s_down, restored <- s_restored, used <- s_used

ASSUME Snapshots!SnapshotConstants

-----------------------------------------------------------------------------

allVars == <<part, vars, cVars, aVars, rVars, tVars, lVars, sVars>>

Others(p) ==
    /\ p # "links" => UNCHANGED vars
    /\ p # "casts" => UNCHANGED cVars
    /\ p # "accounts" => UNCHANGED aVars
    /\ p # "rents" => UNCHANGED rVars
    /\ p # "trie" => UNCHANGED tVars
    /\ p # "listings" => UNCHANGED lVars
    /\ p # "snapshots" => UNCHANGED sVars

\* The parts that do not run keep one initial state.
MCInit ==
    /\ part \in {"links", "casts", "accounts", "rents", "trie", "listings", "snapshots"}
    /\ Init /\ Casts!Init /\ Accounts!Init /\ Rents!Init /\ Trie!Init
    /\ Listings!Init /\ Snapshots!Init
    /\ part # "accounts" => a_scenario = CHOOSE c \in AccountScenarios : TRUE
    /\ part # "rents" => r_scenario = CHOOSE c \in RentScenarios : TRUE
    /\ part # "trie" => t_scenario = CHOOSE c \in TrieScenarios : TRUE
    /\ part # "listings" => /\ l_scenario = CHOOSE c \in ListingScenarios : TRUE
                            /\ l_order = <<1, 2>>
    /\ part # "snapshots" => s_scenario = CHOOSE c \in SnapshotScenarios : TRUE

MCNext ==
    /\ UNCHANGED part
    /\ \/ part = "links" /\ Next
       \/ part = "casts" /\ Casts!Next
       \/ part = "accounts" /\ Accounts!Next
       \/ part = "rents" /\ Rents!Next
       \/ part = "trie" /\ Trie!Next
       \/ part = "listings" /\ Listings!Next
       \/ part = "snapshots" /\ Snapshots!Next
    /\ Others(part)

MCSpec == MCInit /\ [][MCNext]_allVars

\* The store of casts, where a remove wins over any add, has sound indices,
\* one winner per key and a covering root at every point of a replay, and
\* implements the last-write-wins set (see MessageStore; message_compare of
\* cast_store.rs).
CastsSound ==
    /\ [](Casts!IndicesSound /\ Casts!AddsRemovesDisjoint /\ Casts!RootCoversStore)
    /\ Casts!LastWriteWins

\* The signer index names a latest event of a key (see Account:
\* onchain_event_store.rs).
SignerIndexLatest == part = "accounts" => Accounts!SignerIndexLatest

\* Stored messages have active signers (see Account: revoke_messages).
SignedByActive == part = "accounts" => Accounts!SignedByActive

\* A shown fname belongs to its fid (see Account: name_registry_events.rs).
UsernameOwned == part = "accounts" => Accounts!UsernameOwned

\* The root covers messages, events and names (see Account: update_trie).
RootCoversAccount == part = "accounts" => Accounts!RootCoversAccount

\* The same blocks give the same state at any time, but for the end of a rent
\* (see StorageRent: StorageSlot::is_active).
SameBlocksSameState == part = "rents" => Rents!SameBlocksSameState

\* The root hash is a function of the keys (see MerkleTrie: trie_node.rs).
RootDependsOnKeys == part = "trie" => Trie!RootDependsOnKeys

\* A listing misses nothing that stayed (see Serving: get_casts_by_parent and
\* the like).
ListingComplete == part = "listings" => Listings!ListingComplete

\* What latest.json names is in the bucket (see Snapshot: upload_to_s3).
LatestServable == part = "snapshots" => Snapshots!LatestServable

\* A downloaded database is one copy (see Snapshot: download_snapshots).
RestoredWhole == part = "snapshots" => Snapshots!RestoredWhole

=============================================================================
