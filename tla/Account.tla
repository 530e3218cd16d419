------------------------------ MODULE Account ------------------------------
(***************************************************************************)
(* The state of the accounts of a shard that several stores share: signers *)
(* and registrations from chain (account/onchain_event_store.rs), names    *)
(* (user_data_store.rs, name_registry_events.rs, username_proof_store.rs), *)
(* verifications and primary addresses, and the trie that covers them, as  *)
(* ShardEngine::replay_snapchain_txn (storage/store/engine.rs) updates     *)
(* them.  A block is replayed into a batch over the database; some reads   *)
(* see the batch (S below), others only the database (db).                 *)
(*                                                                         *)
(* The conflict rules of the message stores are the subject of             *)
(* MessageStore; here a message has an `order` that stands for its time    *)
(* and hash.  Pruning is in MessageStore too.                              *)
(***************************************************************************)
EXTENDS Integers, Sequences, FiniteSets, SequencesExt, FiniteSetsExt

CONSTANTS
    Fids, SignerKeys, FNames, EnsNames, Addresses,
    Scenarios,   \* [genesis, system, user, version, blocks, size]: what was
                 \* committed before, what a transaction may hold, the engine
                 \* version, the blocks and the messages per transaction
    None

VARIABLES
    scenario,    \* one of Scenarios
    db,          \* the database
    batch,       \* the database with the changes of the block
    replayed,    \* fids with a transaction in the block
    touched,     \* fids that a message of the block is about
    mixed,       \* fids that had two messages in one block, ever
    height       \* committed blocks

vars == <<scenario, db, batch, replayed, touched, mixed, height>>

-----------------------------------------------------------------------------
UserDataTypes == {"username", "primary"}
AddKeys == {<<"cast", f, "c">> : f \in Fids}
           \union {<<"userdata", f, t>> : f \in Fids, t \in UserDataTypes}
           \union {<<"verification", f, a>> : f \in Fids, a \in Addresses}
           \union {<<"proof", f, n>> : f \in Fids, n \in EnsNames}

EmptyState ==
    [events    |-> {},                                  \* by primary key
     signer    |-> [k \in Fids \X SignerKeys |-> None], \* SignerByFid index
     custody   |-> [f \in Fids |-> None],               \* IdRegisterByFid index
     fname     |-> [n \in FNames |-> None],             \* FNameUserNameProof
     fnameOf   |-> [f \in Fids |-> None],               \* ...ByFid index
     ensOwner  |-> [n \in EnsNames |-> None],           \* UserNameProofByName
     adds      |-> [k \in AddKeys |-> None],
     removes   |-> [k \in AddKeys |-> None],
     msgs      |-> {},                                  \* by timestamp and hash
     trie      |-> {},
     seen      |-> {}]             \* history: the transfers that were replayed

\* ProtocolFeature::is_enabled for the features that matter here.
SignerRevokeBug(version)  == version \in {"V1", "V3"}
PrimaryAddresses(version) == version = "V5"

-----------------------------------------------------------------------------
\* On-chain events.

PrimaryKey(e) == <<e.type, e.fid, e.block, e.log>>

\* build_secondary_indices_for_id_register
CustodyAfter(D, S, e) ==
    LET existing == D.custody[e.fid]
    IN  IF e.kind = "ChangeRecovery" \/ (existing # None /\ existing.block > e.block)
        THEN S.custody
        ELSE [S.custody EXCEPT ![e.fid] = e]

SignerAfterAny(D, S, e) == [S.signer EXCEPT ![<<e.fid, e.key>>] = e]

\* build_secondary_indices_for_signer.  The index is read from the database.
\* An add is not held back by a remove: the body that is compared is the new
\* event's.  A reset makes the first add in the database current again.
SignerAfter(D, S, e) ==
    LET k == <<e.fid, e.key>>
        existing == D.signer[k]
        adds == {x \in D.events : /\ x.type = "signer" /\ x.fid = e.fid
                                  /\ x.kind = "Add" /\ x.key = e.key}
        first == CHOOSE x \in adds : \A y \in adds :
                     x.block < y.block \/ (x.block = y.block /\ x.log <= y.log)
    IN  IF existing # None /\ existing.block > e.block THEN S.signer
        ELSE IF e.kind # "AdminReset" THEN [S.signer EXCEPT ![k] = e]
        ELSE IF adds = {} THEN S.signer
        ELSE [S.signer EXCEPT ![k] = first]

\* merge_onchain_event fails for an event that is there already.
IsDuplicate(S, e) == \E x \in S.events : PrimaryKey(x) = PrimaryKey(e)

MergeOnchainEvent(D, S, e) ==
    IF IsDuplicate(S, e) THEN S
    ELSE [S EXCEPT
            !.events  = @ \union {e},
            !.signer  = IF e.type = "signer" THEN SignerAfter(D, S, e) ELSE @,
            !.custody = IF e.type = "id" THEN CustodyAfter(D, S, e) ELSE @,
            !.trie    = @ \union {<<"event", PrimaryKey(e)>>}]

\* get_active_signer
IsActiveSigner(D, f, k) ==
    D.signer[<<f, k>>] # None /\ D.signer[<<f, k>>].kind = "Add"

-----------------------------------------------------------------------------
\* Messages.

IndexKey(m) == <<m.store, m.fid, m.key>>
TrieKey(m) == <<"message", m>>

DeleteOutsideTrie(S, m) ==
    [S EXCEPT !.msgs = @ \ {m},
              !.adds = IF m.op = "add" THEN [@ EXCEPT ![IndexKey(m)] = None] ELSE @]

\* Deletion writes the keys of the message without looking at what they hold.
DeleteMessage(S, m) ==
    [S EXCEPT
       !.msgs     = @ \ {m},
       !.adds     = IF m.op = "add" THEN [@ EXCEPT ![IndexKey(m)] = None] ELSE @,
       !.removes  = IF m.op = "remove" THEN [@ EXCEPT ![IndexKey(m)] = None] ELSE @,
       !.ensOwner = IF m.store = "proof" THEN [@ EXCEPT ![m.key] = None] ELSE @,
       !.trie     = @ \ {TrieKey(m)}]

DeleteAll(S, M) == FoldSet(LAMBDA m, T : DeleteMessage(T, m), S, M)

PutMessage(S, m) ==
    [S EXCEPT
       !.msgs     = @ \union {m},
       !.adds     = IF m.op = "add" THEN [@ EXCEPT ![IndexKey(m)] = m] ELSE @,
       !.removes  = IF m.op = "remove" THEN [@ EXCEPT ![IndexKey(m)] = m] ELSE @,
       !.ensOwner = IF m.store = "proof" THEN [@ EXCEPT ![m.key] = m.fid] ELSE @,
       !.trie     = @ \union {TrieKey(m)}]

\* get_merge_conflicts; proofs of one name conflict whatever their fid.
Conflicts(S, m) ==
    (IF m.store = "proof"
     THEN IF S.ensOwner[m.key] = None THEN {}
          ELSE {S.adds[<<"proof", S.ensOwner[m.key], m.key>>]}
     ELSE {S.adds[IndexKey(m)], S.removes[IndexKey(m)]}) \ {None}

\* UserDataStore::get_user_data_by_fid_and_type
GetUserData(D, f, t) == D.adds[<<"userdata", f, t>>]

\* validate_username, get_username_proof: an fname is looked up in the batch,
\* the proof message of an ENS name in the database.
OwnsName(D, S, f, n) ==
    \/ n = ""
    \/ n \in FNames /\ S.fname[n] # None /\ S.fname[n].to = f
    \/ n \in EnsNames /\ D.ensOwner[n] = f

\* verify_fid_owns_address
OwnsAddress(D, f, a) == a = "" \/ D.adds[<<"verification", f, a>>] # None

\* The part of validate_user_message that depends on the state.
ValidateUserMessage(D, S, m) ==
    /\ D.custody[m.fid] # None
    /\ IsActiveSigner(D, m.fid, m.signer)
    /\ m.store = "userdata" /\ m.key = "username" => OwnsName(D, S, m.fid, m.value)
    /\ m.store = "userdata" /\ m.key = "primary" => OwnsAddress(D, m.fid, m.value)

\* merge_message: the new state and the messages it deleted.
MergeMessage(S, m) ==
    LET conflicts == Conflicts(S, m)
    IN  IF \E c \in conflicts : c.order >= m.order
        THEN [state |-> S, deleted |-> {}]
        ELSE [state |-> PutMessage(DeleteAll(S, conflicts), m), deleted |-> conflicts]

ReplayUserMessage(D, acc, m) ==
    IF ~ValidateUserMessage(D, acc.state, m) THEN acc
    ELSE LET r == MergeMessage(acc.state, m)
         IN  [state |-> r.state, deleted |-> acc.deleted \union r.deleted]

-----------------------------------------------------------------------------
\* Names from the name registry: [type, name, from, to, ts].

IndexKept(S, t, existing) ==
    IF t.to = 0 THEN S.fnameOf ELSE [S.fnameOf EXCEPT ![t.to] = t.name]

\* put_username_proof_transaction, delete_username_proof_transaction: the key
\* of the fid that had the name is deleted after that of the new one is put.
IndexAfter(S, t, existing) ==
    LET put == IF t.to = 0 THEN S.fnameOf ELSE [S.fnameOf EXCEPT ![t.to] = t.name]
    IN  IF existing = None \/ existing.to = 0 THEN put
        ELSE [put EXCEPT ![existing.to] = None]

\* merge_username_proof and the part of update_trie for it.
MergeUsernameProof(S, t) ==
    LET existing == S.fname[t.name]
    IN  IF \/ existing # None /\ existing.ts >= t.ts
           \/ existing = None /\ t.to = 0
        THEN S
        ELSE [S EXCEPT
                !.fname   = [@ EXCEPT ![t.name] = t],
                !.fnameOf = IndexAfter(S, t, existing),
                !.trie = (IF t.to # 0 THEN @ \union {<<"fname", t.to, t.name>>} ELSE @)
                         \ (IF existing # None
                            THEN {<<"fname", existing.to, t.name>>} ELSE {})]

\* The user name of the previous owner is revoked whether or not the proof was
\* merged, and whatever name it is; it is looked up in the database.
RevokeUsername(D, S, t) ==
    IF t.from = 0 \/ GetUserData(D, t.from, "username") = None THEN S
    ELSE DeleteMessage(S, GetUserData(D, t.from, "username"))

ReplaySystemMessage(D, S, e) ==
    IF e.type = "transfer"
    THEN [RevokeUsername(D, MergeUsernameProof(S, e), e) EXCEPT !.seen = @ \union {e}]
    ELSE MergeOnchainEvent(D, S, e)

-----------------------------------------------------------------------------
\* should_revoke_signer, for the events that were merged.
RevokedSigners(S, events, version) ==
    {e \in events : /\ e.type = "signer" /\ e.kind = "Remove"
                    /\ ~IsDuplicate(S, e) /\ ~SignerRevokeBug(version)}

RevokeNothing(D, S, f, k) == S

\* Stores::revoke_messages: the messages are found in the database; username
\* proofs are not revoked.
RevokeMessages(D, S, f, k) ==
    DeleteAll(S, {m \in D.msgs : m.fid = f /\ m.signer = k /\ m.store # "proof"})

\* handle_delete_side_effects: a verification deleted by a merged message takes
\* the primary address that the database has with it.
DeleteSideEffects(D, S, deleted, version) ==
    LET primary == {GetUserData(D, m.fid, "primary") :
                        m \in {d \in deleted : d.store = "verification" /\ d.op = "add"
                                  /\ GetUserData(D, d.fid, "primary") # None
                                  /\ GetUserData(D, d.fid, "primary").value = d.key}}
    IN  IF PrimaryAddresses(version) THEN DeleteAll(S, primary) ELSE S

\* replay_snapchain_txn
ReplayTransaction(D, S, f, system, user, version) ==
    LET afterSystem == FoldLeft(LAMBDA T, e : ReplaySystemMessage(D, T, e), S, system)
        revoked == {e.key : e \in RevokedSigners(S, Range(system), version)}
        afterRevoke == FoldSet(LAMBDA k, T : RevokeMessages(D, T, f, k),
                               afterSystem, revoked)
        afterUser == FoldLeft(LAMBDA acc, m : ReplayUserMessage(D, acc, m),
                              [state |-> afterRevoke, deleted |-> {}], user)
    IN  DeleteSideEffects(D, afterUser.state, afterUser.deleted, version)

-----------------------------------------------------------------------------
FidsOf(m) == IF "type" \in DOMAIN m /\ m.type = "transfer"
             THEN {m.from, m.to} \ {0} ELSE {m.fid}

Init ==
    /\ scenario \in Scenarios
    /\ db = FoldLeft(LAMBDA S, e : ReplaySystemMessage(S, S, e),
                     EmptyState, scenario.genesis)
    /\ batch = db
    /\ replayed = {} /\ touched = {} /\ mixed = {} /\ height = 0

\* One transaction per fid in a block.  A transfer is in the transaction of
\* the fid that gets the name, or of the one that had it when it is freed.
Replay(f, system, user) ==
    /\ height < scenario.blocks
    /\ f \notin replayed
    /\ replayed' = replayed \union {f}
    /\ Len(system) + Len(user) > 0
    /\ batch' = ReplayTransaction(db, batch, f, system, user, scenario.version)
    /\ LET all == [i \in DOMAIN system |-> FidsOf(system[i])]
                  \o [i \in DOMAIN user |-> FidsOf(user[i])]
           times(g) == Cardinality({i \in DOMAIN all : g \in all[i]})
                       + (IF g \in touched THEN 1 ELSE 0)
       IN  /\ mixed' = mixed \union {g \in Fids : times(g) > 1}
           /\ touched' = touched \union UNION Range(all)
    /\ UNCHANGED <<scenario, db, height>>

SystemFid(e) == IF e.type # "transfer" THEN e.fid
                ELSE IF e.to = 0 THEN e.from ELSE e.to

ReplayAny ==
    \E f \in Fids :
        \E system \in SeqOf({e \in scenario.system : SystemFid(e) = f}, scenario.size),
           user \in SeqOf({m \in scenario.user : m.fid = f}, scenario.size) :
            /\ Len(system) + Len(user) <= scenario.size
            /\ Replay(f, system, user)

\* The block is decided and its batch written.
CommitBlock ==
    /\ replayed # {}
    /\ replayed' = {}
    /\ db' = batch /\ height' = height + 1 /\ touched' = {}
    /\ UNCHANGED <<scenario, batch, mixed>>

\* The proposal was not decided: its batch is dropped.
DropBlock ==
    /\ replayed # {}
    /\ replayed' = {}
    /\ batch' = db /\ touched' = {}
    /\ UNCHANGED <<scenario, db, mixed, height>>

Next == ReplayAny \/ CommitBlock \/ DropBlock

Spec == Init /\ [][Next]_vars

-----------------------------------------------------------------------------
\* The signer index of a key names a latest of its events in the order of the
\* chain, in whatever order blocks delivered them, unless the key was reset
\* (onchain_event_store.rs, line 151).
SignerIndexLatest ==
    \A f \in Fids \ mixed, k \in SignerKeys :
        LET of == {e \in db.events : e.type = "signer" /\ e.fid = f /\ e.key = k}
        IN  (of # {} /\ \A e \in of : e.kind # "AdminReset") =>
                /\ db.signer[<<f, k>>] \in of
                /\ \A e \in of : e.block <= db.signer[<<f, k>>].block

\* What is stored is signed by active signers, over removals, later adds and
\* resets, as long as a block holds one message of the fid; username proofs
\* are not revoked (engine.rs, line 729; stores.rs, line 325).
SignedByActive ==
    \A m \in db.msgs :
        \/ m.fid \in mixed \/ m.store = "proof"
        \/ SignerRevokeBug(scenario.version)
        \/ IsActiveSigner(db, m.fid, m.signer)

\* Every transfer up to the one that gave the name its owner was replayed.
AllSeen(n) ==
    \A t \in scenario.system :
        (t.type = "transfer" /\ t.name = n /\ t.ts <= db.fname[n].ts) => t \in db.seen

\* A user name that is an fname belongs to the fid that shows it once the
\* transfers of the name have arrived, in any order and any number of times:
\* a late one is not merged and still revokes.  One block that both sets and
\* moves the name is excepted (engine.rs, line 685).  The index from fid to
\* name only holds names the fid owns (name_registry_events.rs, line 89).
UsernameOwned ==
    \A f \in Fids :
        LET shown == GetUserData(db, f, "username")
        IN  /\ (/\ shown # None /\ f \notin mixed
                /\ shown.value \in FNames /\ AllSeen(shown.value))
                   => db.fname[shown.value].to = f
            /\ db.fnameOf[f] # None => db.fname[db.fnameOf[f]].to = f

\* The trie holds exactly the stored messages, events and fnames, and every
\* stored message is the one its index key leads to (engine.rs, line 1075).
RootCoversAccount ==
    \A f \in Fids \ mixed :
        /\ {m \in db.msgs : m.fid = f} =
               ({db.adds[k] : k \in {x \in AddKeys : x[2] = f}}
                \union {db.removes[k] : k \in {x \in AddKeys : x[2] = f}}) \ {None}
        /\ {x \in db.trie : x[1] = "message" /\ x[2].fid = f} =
               {TrieKey(m) : m \in {n \in db.msgs : n.fid = f}}
        /\ \A n \in FNames :
               <<"fname", f, n>> \in db.trie <=>
                   db.fname[n] # None /\ db.fname[n].to = f

\* "When a verification is removed from a user's account, this function
\* ensures that if the removed address was also set as their primary address
\* (for either Ethereum or Solana), the primary address setting is also
\* revoked to maintain consistency." (engine.rs, lines 866-868)
PrimaryAddressVerified ==
    \A f \in Fids :
        LET primary == GetUserData(db, f, "primary")
        IN  primary # None => OwnsAddress(db, f, primary.value)
=============================================================================
