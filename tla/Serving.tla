------------------------------ MODULE Serving ------------------------------
(***************************************************************************)
(* Listings served while the stores change: the secondary indices of the   *)
(* cast, reaction and link stores (src/src/storage/store/account) and the  *)
(* paged requests of src/src/network/server.rs over one or all shards.     *)
(*                                                                         *)
(* An index key is a sequence of bytes: the target (URL or cast id bytes,  *)
(* or a fid), then the message's ts_hash, then its fid.  Here a ts_hash    *)
(* and a fid take one byte each.  The page of a shard is read in two       *)
(* steps, the index first and the messages it names after it, with no      *)
(* database snapshot around them.                                          *)
(***************************************************************************)
EXTENDS Integers, Sequences, FiniteSets, SequencesExt

CONSTANTS
    ShardOf,        \* the shard of every fid
    Scenarios       \* sets of messages, queries and bounds to run with

VARIABLES
    scenario,       \* the scenario of this behaviour
    stores,         \* per shard: the stored add messages and the index
    order,          \* the order in which the HashMap of stores iterates
    client,         \* the client's side of the listing
    request,        \* the request the server works on
    writes,         \* the number of commits left
    restarts,       \* the number of restarts left
    stable,         \* the messages stored since the listing began
    undisturbed     \* no restart and no failed page since it began

vars == <<scenario, stores, order, client, request, writes, restarts,
          stable, undisturbed>>

Shards == {ShardOf[f] : f \in DOMAIN ShardOf}

\* Option<Vec<u8>>: a sequence of at most one token.
NoToken == <<>>
Some(t) == <<t>>

-----------------------------------------------------------------------------
(***************************************************************************)
(* Keys.                                                                   *)
(***************************************************************************)

\* The order of RocksDB keys.
Less(a, b) ==
    \/ IsStrictPrefix(a, b)
    \/ \E i \in 1 .. Len(a) \cap 1 .. Len(b) :
          /\ SubSeq(a, 1, i - 1) = SubSeq(b, 1, i - 1)
          /\ a[i] < b[i]

\* increment_vec_u8, of a last byte that does not overflow.
Increment(k) == [k EXCEPT ![Len(k)] = @ + 1]

\* The key of a message under a target: make_cast_by_parent_key,
\* make_cast_by_mention_key, make_reactions_by_target_key,
\* links_by_target_key.
IndexKey(target, m) == target \o <<m.ts, m.fid>>

Entry(ix, target, v, m) == [index |-> ix, key |-> IndexKey(target, m), value |-> v]

\* by_parent_secondary_index_key: none or one parent.
ParentKeys(m) == {Entry("parent", p, 1, m) : p \in m.parent}

\* by_mention_secondary_index_key.
MentionKeys(m) == {Entry("mention", <<f>>, 1, m) : f \in m.mentions}

\* secondary_index_key of the reaction store: the value is the type.
ReactionKeys(m) == {Entry("reaction", m.target, m.type, m)}

\* secondary_index_key of the link store.
LinkKeys(m) == {Entry("link", m.target, m.type, m)}

SecondaryKeys(m) ==
    CASE m.store = "cast"     -> ParentKeys(m) \cup MentionKeys(m)
      [] m.store = "reaction" -> ReactionKeys(m)
      [] m.store = "link"     -> LinkKeys(m)

\* make_add_key: the hash of a cast, the type and target of a reaction or link.
CastAddKey(m) == <<m.store, m.fid, m.ts>>
ReactionAddKey(m) == <<m.store, m.fid, m.type, m.target>>
LinkAddKey(m) == <<m.store, m.fid, m.type, m.target>>

AddKey(m) ==
    CASE m.store = "cast"     -> CastAddKey(m)
      [] m.store = "reaction" -> ReactionAddKey(m)
      [] m.store = "link"     -> LinkAddKey(m)

\* The primary key and its fields: user key, postfix of the store, ts_hash.
HasPrimaryKey(m, store, fid, ts) == m.store = store /\ m.fid = fid /\ m.ts = ts

-----------------------------------------------------------------------------
(***************************************************************************)
(* Commits.                                                                *)
(***************************************************************************)

DeleteSecondaryIndices(index, gone) ==
    index \ UNION {SecondaryKeys(m) : m \in gone}

BuildSecondaryIndices(index, m) == index \cup SecondaryKeys(m)

\* delete_many_transaction then put_add_transaction, in one batch.
Replace(S, gone, new) ==
    [msgs  |-> (S.msgs \ gone) \cup new,
     index |-> LET kept == DeleteSecondaryIndices(S.index, gone)
               IN IF new = {} THEN kept
                  ELSE BuildSecondaryIndices(kept, CHOOSE m \in new : TRUE)]

\* A block merges m, which wins over the stored add of its key.
CommitAdd(m) ==
    LET s == ShardOf[m.fid]
        conflicts == {c \in stores[s].msgs : AddKey(c) = AddKey(m)}
    IN /\ writes > 0
       /\ \A c \in conflicts : c.ts < m.ts
       /\ stores' = [stores EXCEPT ![s] = Replace(@, conflicts, {m})]
       /\ stable' = stable \ conflicts
       /\ writes' = writes - 1
       /\ UNCHANGED <<scenario, order, client, request, restarts, undisturbed>>

\* A block deletes a stored add: a remove message, a prune, a revocation.
CommitDelete(m) ==
    LET s == ShardOf[m.fid]
    IN /\ writes > 0
       /\ m \in stores[s].msgs
       /\ stores' = [stores EXCEPT ![s] = Replace(@, {m}, {})]
       /\ stable' = stable \ {m}
       /\ writes' = writes - 1
       /\ UNCHANGED <<scenario, order, client, request, restarts, undisturbed>>

-----------------------------------------------------------------------------
(***************************************************************************)
(* One page of one shard.                                                  *)
(***************************************************************************)

\* get_iterator_options: the keys from the prefix, or from behind the token,
\* to the end of the prefix or, in reverse, to the token.
InBounds(k, q, token) ==
    LET lower == IF token # NoToken /\ ~q.reverse THEN Increment(token[1]) ELSE q.prefix
        upper == IF token # NoToken /\ q.reverse THEN token[1] ELSE Increment(q.prefix)
    IN (k = lower \/ Less(lower, k)) /\ Less(k, upper)

\* What the iteration selects: all of the index of parents, or of mentions;
CastsByParent(s) == {e \in stores[s].index : e.index = "parent"}
CastsByMention(s) == {e \in stores[s].index : e.index = "mention"}

\* the reactions or links of a type, where type 0 stands for every type;
ReactionsByTarget(s, type) ==
    {e \in stores[s].index : e.index = "reaction" /\ (type = 0 \/ e.value = type)}
LinksByTarget(s, type) ==
    {e \in stores[s].index : e.index = "link" /\ (type = 0 \/ e.value = type)}

\* the adds of a fid under their primary keys, with the filter of the store.
AddsByFid(s, store, type) ==
    {[index |-> "fid", key |-> <<m.fid, m.ts>>, value |-> m.type] :
        m \in {n \in stores[s].msgs : n.store = store /\ (type = 0 \/ n.type = type)}}
CastAddsByFid(s) == AddsByFid(s, "cast", 0)
ReactionAddsByFid(s, type) == AddsByFid(s, "reaction", type)
LinkAddsByFid(s, type) == AddsByFid(s, "link", type)

Entries(s, q) ==
    CASE q.by = "parent"   -> CastsByParent(s)
      [] q.by = "mention"  -> CastsByMention(s)
      [] q.by = "reaction" -> ReactionsByTarget(s, q.type)
      [] q.by = "link"     -> LinksByTarget(s, q.type)
      [] q.by = "fid" /\ q.store = "cast"     -> CastAddsByFid(s)
      [] q.by = "fid" /\ q.store = "reaction" -> ReactionAddsByFid(s, q.type)
      [] q.by = "fid" /\ q.store = "link"     -> LinkAddsByFid(s, q.type)

\* The keys of a page, in the order of the iteration.
Scan(s, q, token) ==
    LET found == {e \in Entries(s, q) : InBounds(e.key, q, token)}
        keys == {e.key : e \in found}
        sorted == SetToSortSeq(keys, LAMBDA a, b : IF q.reverse THEN Less(b, a) ELSE Less(a, b))
    IN SubSeq(sorted, 1, IF Len(sorted) < q.size THEN Len(sorted) ELSE q.size)

\* read_ts_hash and read_fid_key, at the offsets behind the prefix, and the
\* message that the primary key made of them names.
Named(s, q, k) ==
    IF q.by = "fid"
    THEN {m \in stores[s].msgs : HasPrimaryKey(m, q.store, k[1], k[2])}
    ELSE LET at == Len(q.prefix)
         IN {m \in stores[s].msgs : HasPrimaryKey(m, q.store, k[at + 2], k[at + 1])}

\* The token of a page: its last key when the page is full.
PageToken(q, keys) == IF Len(keys) = q.size THEN Some(keys[Len(keys)]) ELSE NoToken

\* get_many_messages fails when a message is not there, and the server takes
\* a failed page for an empty one.
Missing(s, q, keys) == \E i \in DOMAIN keys : Named(s, q, keys[i]) = {}

-----------------------------------------------------------------------------
(***************************************************************************)
(* The client and the server.                                              *)
(***************************************************************************)

\* The listing behind a request: the store, its index (or "fid" for the
\* primary keys), the prefix of the keys, and the type.
Listing(store, by, r, type) ==
    [store |-> store, by |-> by, prefix |-> r.target, type |-> type,
     reverse |-> r.reverse, size |-> r.size]

TypeOrAny(r) == IF r.type = <<>> THEN 0 ELSE r.type[1]

\* The handlers that list, over all shards or for one fid.
GetCastsByParent(r) == Listing("cast", "parent", r, 0)
GetCastsByMention(r) == Listing("cast", "mention", r, 0)
GetReactionsByCast(r) == Listing("reaction", "reaction", r, r.type[1])
GetReactionsByTarget(r) == Listing("reaction", "reaction", r, TypeOrAny(r))
GetLinksByTarget(r) == Listing("link", "link", r, r.type[1])
GetCastsByFid(r) == Listing("cast", "fid", r, 0)
GetReactionsByFid(r) == Listing("reaction", "fid", r, TypeOrAny(r))
GetLinksByFid(r) == Listing("link", "fid", r, TypeOrAny(r))

\* Reactions of a cast and links of a target are refused without a type.
Answered(r) ==
    r.request \in {"reactions_by_cast", "links_by_target"} => r.type # <<>>

ListingOf(r) ==
    CASE r.request = "casts_by_parent"     -> GetCastsByParent(r)
      [] r.request = "casts_by_mention"    -> GetCastsByMention(r)
      [] r.request = "reactions_by_cast"   -> GetReactionsByCast(r)
      [] r.request = "reactions_by_target" -> GetReactionsByTarget(r)
      [] r.request = "links_by_target"     -> GetLinksByTarget(r)
      [] r.request = "casts_by_fid"        -> GetCastsByFid(r)
      [] r.request = "reactions_by_fid"    -> GetReactionsByFid(r)
      [] r.request = "links_by_fid"        -> GetLinksByFid(r)

NoRequest == [state |-> "none", tokens |-> <<>>, next |-> <<>>, keys |-> <<>>]

Requested(tokens) == [state |-> "scan", tokens |-> tokens, next |-> <<>>, keys |-> <<>>]

\* The shards a listing goes over, in their order of iteration.
Visited(q) ==
    IF q.by = "fid" THEN <<ShardOf[q.prefix[1]]>> ELSE order

NoTokens(q) == [i \in 1 .. Len(Visited(q)) |-> NoToken]

\* A client starts a listing, without a page token.
StartListing(r) ==
    /\ client.state = "idle"
    /\ Answered(r)
    /\ LET q == ListingOf(r)
       IN /\ client' = [state |-> "waiting", query |-> q, tokens |-> <<>>, seen |-> {}]
          /\ request' = Requested(NoTokens(q))
    /\ stable' = UNION {stores[s].msgs : s \in Shards}
    /\ undisturbed' = TRUE
    /\ UNCHANGED <<scenario, stores, order, writes, restarts>>

\* The shard the server is at, and that shard's token.
Position == Len(request.next) + 1
Current == Visited(client.query)[Position]

\* for_each_iterator_by_prefix: the keys of the current shard's page.  The
\* messages of a fid are decoded on the way, the index gives keys only.
ScanShard ==
    /\ request.state = "scan"
    /\ Position <= Len(request.tokens)
    /\ LET q == client.query
           keys == Scan(Current, q, request.tokens[Position])
       IN IF q.by = "fid"
          THEN /\ request' = [request EXCEPT !.next = Append(@, PageToken(q, keys))]
               /\ client' = [client EXCEPT !.seen =
                     @ \cup UNION {Named(Current, q, keys[i]) : i \in DOMAIN keys}]
          ELSE /\ request' = [request EXCEPT !.state = "fetch", !.keys = keys]
               /\ UNCHANGED client
    /\ UNCHANGED <<scenario, stores, order, writes, restarts, stable, undisturbed>>

\* get_many_messages of those keys, and unwrap_or an empty page.
FetchShard ==
    /\ request.state = "fetch"
    /\ LET q == client.query
           keys == request.keys
           failed == Missing(Current, q, keys)
       IN /\ request' = [request EXCEPT !.state = "scan", !.keys = <<>>,
                !.next = Append(@, IF failed THEN NoToken ELSE PageToken(q, keys))]
          /\ client' = IF failed THEN client
                       ELSE [client EXCEPT !.seen =
                               @ \cup UNION {Named(Current, q, keys[i]) : i \in DOMAIN keys}]
          /\ undisturbed' = (undisturbed /\ ~failed)
    /\ UNCHANGED <<scenario, stores, order, writes, restarts, stable>>

\* The response.  Its page token is empty when get_reactions_by_target, or
\* the listing of one fid, has no shard with more; the other requests always
\* send the list of tokens, and the client is taken to read it.
Exhausted(tokens) == \A i \in DOMAIN tokens : tokens[i] = NoToken

Respond ==
    /\ request.state = "scan"
    /\ Position > Len(request.tokens)
    /\ client' = [client EXCEPT !.tokens = request.next,
                                !.state = IF Exhausted(request.next) THEN "done" ELSE "more"]
    /\ request' = NoRequest
    /\ UNCHANGED <<scenario, stores, order, writes, restarts, stable, undisturbed>>

\* With a bug: one token for all shards.
NextPageSameToken ==
    /\ client.state = "more"
    /\ request' = Requested([i \in DOMAIN client.tokens |-> client.tokens[1]])
    /\ client' = [client EXCEPT !.state = "waiting", !.tokens = <<>>]
    /\ UNCHANGED <<scenario, stores, order, writes, restarts, stable, undisturbed>>

\* The next page: one token per shard, where a shard without a token is read
\* from its beginning.
NextPage ==
    /\ client.state = "more"
    /\ request' = Requested(client.tokens)
    /\ client' = [client EXCEPT !.state = "waiting", !.tokens = <<>>]
    /\ UNCHANGED <<scenario, stores, order, writes, restarts, stable, undisturbed>>

\* The client has the whole listing.
FinishListing ==
    /\ client.state = "done"
    /\ client' = [client EXCEPT !.state = "idle", !.tokens = <<>>, !.seen = {}]
    /\ UNCHANGED <<scenario, stores, order, request, writes, restarts, stable, undisturbed>>

\* The node restarts: the new HashMap of stores has an order of its own.  A
\* request on its way fails and the client repeats it.
Restart ==
    /\ restarts > 0
    /\ restarts' = restarts - 1
    /\ order' \in SetToSeqs(Shards)
    /\ request' = IF request.state = "none" THEN NoRequest ELSE Requested(request.tokens)
    /\ undisturbed' = FALSE
    /\ UNCHANGED <<scenario, stores, client, writes, stable>>

Start(sc) ==
    /\ scenario = sc
    /\ stores = [s \in Shards |->
          LET msgs == {m \in sc.stored : ShardOf[m.fid] = s}
          IN [msgs |-> msgs, index |-> UNION {SecondaryKeys(m) : m \in msgs}]]
    /\ order \in SetToSeqs(Shards)
    /\ client = [state |-> "idle", query |-> ListingOf(CHOOSE r \in sc.requests : Answered(r)),
                 tokens |-> <<>>, seen |-> {}]
    /\ request = NoRequest
    /\ writes = sc.writes
    /\ restarts = sc.restarts
    /\ stable = {}
    /\ undisturbed = TRUE

Init == \E sc \in Scenarios : Start(sc)

ServerStep == ScanShard \/ FetchShard \/ Respond

Next ==
    \/ \E m \in scenario.messages : CommitAdd(m)
    \/ \E m \in scenario.stored \cup scenario.messages : CommitDelete(m)
    \/ \E r \in scenario.requests : StartListing(r)
    \/ ServerStep
    \/ NextPage
    \/ FinishListing
    \/ Restart

Spec == Init /\ [][Next]_vars

\* The server works off a request, and the client reads its answer and asks
\* for the next page.
FairSpec == Spec /\ WF_vars(ServerStep) /\ WF_vars(NextPage) /\ WF_vars(FinishListing)

-----------------------------------------------------------------------------
(***************************************************************************)
(* Properties.                                                             *)
(***************************************************************************)

\* What a listing asks for.
Matches(m, q) ==
    /\ m.store = q.store
    /\ q.type = 0 \/ m.type = q.type
    /\ CASE q.by = "fid"     -> <<m.fid>> = q.prefix
         [] q.by = "parent"  -> q.prefix \in m.parent
         [] q.by = "mention" -> q.prefix \in {<<f>> : f \in m.mentions}
         [] OTHER            -> m.target = q.prefix

\* A listing that met no failed page and no restart has, at its end, every
\* message that was stored all the time and that it asked for, in whichever
\* shard, although messages were merged and deleted between and inside its
\* pages (get_casts_by_parent, get_reactions_by_target and the like).
ListingComplete ==
    client.state = "done" /\ undisturbed
        => \A m \in stable : Matches(m, client.query) => m \in client.seen

\* "The returned `nextPageToken` is empty if there are no more pages to
\* return" (site/docs/pages/reference/httpapi/httpapi.mdx), so a client that
\* follows the tokens ends its listing once the stores are quiet.  The code
\* does not ensure it: a shard that has run out starts again from its
\* beginning while another has more, and two shards can do so in turns.
PagingEnds == []<>(client.state = "idle")

=============================================================================
