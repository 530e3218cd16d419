---------------------------- MODULE StorageRent ----------------------------
(***************************************************************************)
(* Storage rented on chain and what depends on it: the slot of an account  *)
(* (StorageSlot in storage/store/account/onchain_event_store.rs), the      *)
(* limits of its stores (storage/store/stores.rs), its tier subscription,  *)
(* and the engine version (src/src/version/version.rs), as the nodes of a  *)
(* shard use them when they replay the same blocks, each at a time of its  *)
(* own clock: a validator at once, a node that syncs much later.           *)
(*                                                                         *)
(* One account; of its messages only their number in each store matters,   *)
(* in two of the stores (links, with their compact states, are in          *)
(* MessageStore).  The events of a block are read from the next block on,  *)
(* because the event store reads the database.                             *)
(***************************************************************************)
EXTENDS Integers, Sequences, FiniteSets, SequencesExt, FiniteSetsExt

CONSTANTS
    Nodes,
    Year, Day, LegacyCutoff,   \* in the unit of the clocks
    Limits, LegacyLimits,      \* Limits::default, Limits::legacy: store type -> count
    Schedule,                  \* [at, version]: the engine versions of the network
    Scenarios,   \* [genesis, rents, purchases, messages, blocks, size]: what the blocks
                 \* may hold, their number and the most that one holds
    MaxTime

StoreTypes == {"Casts", "UsernameProofs"}

\* What the constants are.
RentConstants ==
    /\ Year > 0 /\ Day > 0
    /\ DOMAIN Limits = StoreTypes /\ DOMAIN LegacyLimits = StoreTypes
    /\ \E s \in Schedule : s.at = 0

VARIABLES
    scenario,
    clock,       \* clock[n]: the time of the node
    chain,       \* the decided blocks: [time, rents, purchases, messages]
    db,          \* db[n]: [rents, purchases, count]
    times        \* times[n][i]: history, when the node replayed block i

vars == <<scenario, clock, chain, db, times>>

-----------------------------------------------------------------------------
(***************************************************************************)
(* Storage slots and limits.                                               *)
(***************************************************************************)

\* StorageSlot::new(0, 0, 0)
NoSlot == [legacy |-> 0, units |-> 0, until |-> 0]

\* With a bug: legacy units last one year too.
FromEventOneYear(e) ==
    [legacy |-> IF e.ts < LegacyCutoff THEN e.units ELSE 0,
     units |-> IF e.ts < LegacyCutoff THEN 0 ELSE e.units, until |-> e.ts + Year]

FromEvent(e) ==
    IF e.ts < LegacyCutoff
    THEN [legacy |-> e.units, units |-> 0, until |-> e.ts + 2 * Year]
    ELSE [legacy |-> 0, units |-> e.units, until |-> e.ts + Year]

IsActive(slot, now) == now < slot.until

\* StorageSlot::merge
Merge(slot, other, now) ==
    IF ~IsActive(other, now) THEN slot
    ELSE IF ~IsActive(slot, now) THEN other
    ELSE [legacy |-> slot.legacy + other.legacy,
          units  |-> slot.units + other.units,
          until  |-> IF slot.until < other.until THEN slot.until ELSE other.until]

\* get_onchain_events: in the order of the keys, that of the chain.
OnchainEvents(events) == SetToSortSeq(events, LAMBDA x, y : x.block < y.block)

\* get_storage_slot_for_fid
StorageSlot(D, now) ==
    FoldLeft(LAMBDA slot, e : Merge(slot, FromEvent(e), now),
             NoSlot, OnchainEvents(D.rents))

StoreTypeOf(m) ==
    IF m.type = "UsernameProof" THEN "UsernameProofs" ELSE "Casts"

MaxMessages(slot, t) == slot.units * Limits[t] + slot.legacy * LegacyLimits[t]

-----------------------------------------------------------------------------
(***************************************************************************)
(* Engine versions and tiers.                                              *)
(***************************************************************************)

\* EngineVersion::version_for: the last entry that is active.
VersionFor(time) ==
    LET active == {s \in Schedule : s.at <= time}
    IN  (CHOOSE s \in active : \A r \in active : r.at <= s.at).version

\* is_enabled for FarcasterPro, MessageLengthCheckFix and EnsValidation.
IsEnabled(version) == version >= 5

\* tier_subscription_exires_at: every purchase up to the time extends what is
\* left of the ones before.
TierExpiresAt(D, asOf) ==
    FoldLeft(LAMBDA expires, e :
                 (IF e.ts > expires THEN e.ts ELSE expires) + e.days * Day,
             0, OnchainEvents({e \in D.purchases : e.ts <= asOf}))

\* is_tier_subscription_active_at
IsProUser(D, time) == TierExpiresAt(D, time) >= time

\* The part of validate_message that depends on tier and version; a size of 2
\* stands for more than the common bound.
MaxDataSize(m, pro, version) ==
    IF IsEnabled(version) /\ pro /\ m.type = "CastAdd" THEN 2 ELSE 1

Valid(D, m, time) == m.size <= MaxDataSize(m, IsProUser(D, time), VersionFor(time))

-----------------------------------------------------------------------------
(***************************************************************************)
(* Blocks.                                                                 *)
(***************************************************************************)

\* prune_messages, with the usage after the merges: it deletes messages that
\* were in the database before the block.
Prune(stored, count, max) ==
    IF count <= max THEN count
    ELSE IF count - stored > max THEN count - stored ELSE max

\* replay_snapchain_txn on a node whose clock shows now.
ReplayBlock(D, b, now) ==
    LET version == VersionFor(b.time)
        merged(t) == {m \in b.messages : StoreTypeOf(m) = t /\ Valid(D, m, b.time)}
        pruned(t) == /\ merged(t) # {}
                     /\ t = "UsernameProofs" => IsEnabled(version)
        count(t) == D.count[t] + Cardinality(merged(t))
    IN  [rents     |-> D.rents \union b.rents,
         purchases |-> D.purchases \union (IF IsEnabled(version) THEN b.purchases ELSE {}),
         count     |-> [t \in StoreTypes |->
                           IF pruned(t)
                           THEN Prune(D.count[t], count(t), MaxMessages(StorageSlot(D, now), t))
                           ELSE count(t)]]

Init ==
    /\ scenario \in Scenarios
    /\ clock = [n \in Nodes |-> 0]
    /\ chain = << >>
    /\ db = [n \in Nodes |-> [rents |-> scenario.genesis, purchases |-> {},
                              count |-> [t \in StoreTypes |-> 0]]]
    /\ times = [n \in Nodes |-> << >>]

\* The clock of a node has reached t when it does something.
At(n, t) == t >= clock[n] /\ clock' = [clock EXCEPT ![n] = t]

InChain(field) == UNION {b[field] : b \in Range(chain)}

\* create_transactions_from_mempool: messages of an account without storage
\* are left out.  The block is decided; its time is that of the proposer.
Propose(n, t, rents, purchases, messages) ==
    /\ Len(chain) < scenario.blocks
    /\ Len(times[n]) = Len(chain)
    /\ At(n, t)
    /\ \A e \in rents \union purchases : e.ts <= t
    /\ chain' = Append(chain,
           [time |-> t, rents |-> rents, purchases |-> purchases,
            messages |-> IF IsActive(StorageSlot(db[n], t), t)
                         THEN messages ELSE {}])
    /\ UNCHANGED <<scenario, db, times>>

ProposeAny(n, t) ==
    \E rents \in SUBSET (scenario.rents \ InChain("rents")),
       purchases \in SUBSET (scenario.purchases \ InChain("purchases")),
       messages \in SUBSET (scenario.messages \ InChain("messages")) :
        /\ Cardinality(rents) + Cardinality(purchases) + Cardinality(messages)
               \in 1..scenario.size
        /\ Propose(n, t, rents, purchases, messages)

\* A node replays the next block, whenever it gets it.
Replay(n, t) ==
    LET i == Len(times[n]) + 1
    IN  /\ i <= Len(chain)
        /\ At(n, t)
        /\ db' = [db EXCEPT ![n] = ReplayBlock(@, chain[i], t)]
        /\ times' = [times EXCEPT ![n] = Append(@, t)]
        /\ UNCHANGED <<scenario, chain>>

Next == \E n \in Nodes, t \in 0..MaxTime : ProposeAny(n, t) \/ Replay(n, t)

Spec == Init /\ [][Next]_vars

-----------------------------------------------------------------------------
\* A rent ends a year after it was paid, one from before the cutoff after two.
RentEnds(e) == e.ts + (IF e.ts < LegacyCutoff THEN 2 ELSE 1) * Year

\* Nodes that replayed the same blocks at different times hold the same,
\* across a change of the engine version and purchases and ends of tiers,
\* unless a rent of the account ended between the times at which they
\* replayed a block: the slot is the one thing that is read off the clock of
\* the node (onchain_event_store.rs, line 397).
SameBlocksSameState ==
    \A n, m \in Nodes :
        Len(times[n]) = Len(times[m]) =>
            \/ db[n] = db[m]
            \/ \E i \in DOMAIN times[n], e \in db[n].rents :
                   \/ times[n][i] < RentEnds(e) /\ RentEnds(e) <= times[m][i]
                   \/ times[m][i] < RentEnds(e) /\ RentEnds(e) <= times[n][i]
=============================================================================
