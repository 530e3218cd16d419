------------------------- MODULE MessageStoreProofs -------------------------
(***************************************************************************)
(* Proofs that, for every set of messages, keys and limits, the indices of *)
(* a message store stay sound, its adds and removes disjoint and its trie  *)
(* in step with the stored messages, and that the store implements LwwSet. *)
(***************************************************************************)
EXTENDS MessageStore, TLAPS

\* Compact state messages are never under a primary key.
PrimaryKinds(S) == \A m \in S.msgs : m.kind \in {"add", "remove"}

\* What holds of the database and of every batch over it.
Good(S) ==
    /\ S \in Store
    /\ PrimaryKinds(S)
    /\ IndexSound(S)
    /\ OneWinner(S)
    /\ TrieMatches(S)

\* The inductive invariant.
Inv == TypeOK /\ Good(db) /\ Good(view)

-----------------------------------------------------------------------------
\* The empty store satisfies everything.
LEMMA EmptyGood == Good(EmptyStore)
  BY DEF Good, EmptyStore, Store, PrimaryKinds, IndexSound, OneWinner,
         TrieMatches

\* A message does not beat itself (message_compare returns 0 on equal
\* ts_hash bytes).
LEMMA BeatsIrreflexive == \A m \in Message : ~Beats(m, m)
  BY StoreAssumption DEF Beats, TsHashLess

\* delete_many_transaction, field by field.
LEMMA DeleteManyFields ==
  ASSUME NEW S \in Store, NEW D
  PROVE  /\ DeleteMany(S, D) \in Store
         /\ DeleteMany(S, D).msgs = S.msgs \ D
         /\ DeleteMany(S, D).trie = S.trie
         /\ \A k \in Key : DeleteMany(S, D).adds[k] =
               IF \E d \in D : d.kind = "add" /\ d.key = k
               THEN None ELSE S.adds[k]
         /\ \A k \in Key : DeleteMany(S, D).removes[k] =
               IF \E d \in D : d.kind = "remove" /\ d.key = k
               THEN None ELSE S.removes[k]
         /\ \A t \in LinkType : DeleteMany(S, D).compact[t] =
               IF \E d \in D : d.kind = "compact" /\ d.type = t
               THEN None ELSE S.compact[t]
  BY DEF DeleteMany, Store

\* Discarding messages that were read from primary keys keeps a store good.
\* They need not be in S any more: a batch may have replaced them.
LEMMA DiscardGood ==
  ASSUME NEW S, Good(S),
         NEW D \in SUBSET Message, \A d \in D : d.kind \in {"add", "remove"}
  PROVE  Good(Discard(S, D))
  <1> DEFINE T == DeleteMany(S, D)
             R == Discard(S, D)
  <1>1. S \in Store
    BY DEF Good
  <1>2. /\ T \in Store /\ R \in Store
        /\ R.msgs = S.msgs \ D
        /\ R.trie = S.trie \ D
        /\ R.adds = T.adds /\ R.removes = T.removes /\ R.compact = T.compact
    BY <1>1, DeleteManyFields DEF Discard, Store
  <1>3. R.compact = S.compact
    BY <1>1, <1>2, DeleteManyFields DEF Store
  <1>4. PrimaryKinds(R)
    BY <1>2 DEF Good, PrimaryKinds
  <1>5. IndexSound(R)
    BY <1>1, <1>2, <1>3, DeleteManyFields DEF Good, IndexSound
  <1>6. OneWinner(R)
    BY <1>1, <1>2, DeleteManyFields DEF Good, OneWinner
  <1>7. TrieMatches(R)
    <2>1. \A t \in LinkType : S.compact[t] # None => S.compact[t] \notin D
      BY DEF Good, IndexSound
    <2>2. QED
      BY <1>2, <1>3, <2>1 DEF Good, TrieMatches
  <1>8. QED
    BY <1>2, <1>4, <1>5, <1>6, <1>7 DEF Good

-----------------------------------------------------------------------------
\* What merging an accepted add or remove does: the messages it collides
\* with are stored, are deleted, and are not the message itself.
LEMMA MergeEntryFields ==
  ASSUME NEW S, Good(S), NEW d, NEW m \in Message, m.kind # "compact",
         MergeAccepts(S, m)
  PROVE  LET D == Colliding(S, m)
             R == Merge(d, S, m)
         IN  /\ D \subseteq S.msgs /\ m \notin D
             /\ \A e \in D : e.kind \in {"add", "remove"} /\ e.key = m.key
             /\ R \in Store
             /\ R.msgs = (S.msgs \ D) \cup {m}
             /\ R.trie = (S.trie \cup {m}) \ D
             /\ R.compact = S.compact
             /\ \A k \in Key : R.adds[k] =
                   IF k # m.key THEN S.adds[k]
                   ELSE IF m.kind = "add" THEN m ELSE None
             /\ \A k \in Key : R.removes[k] =
                   IF k # m.key THEN S.removes[k]
                   ELSE IF m.kind = "remove" THEN m ELSE None
  <1> DEFINE D == MergeConflicts(d, S, m)
             T == DeleteMany(S, D)
             R == Merge(d, S, m)
  <1>1. /\ S \in Store
        /\ m.kind \in {"add", "remove"}
        /\ m.key \in Key
    BY StoreAssumption DEF Good, Kinds
  <1>2. /\ D = Colliding(S, m)
        /\ D \subseteq S.msgs
        /\ D \subseteq Message
    BY <1>1 DEF MergeConflicts, Colliding, Good, IndexSound, Store
  <1>3. m \notin D
    BY <1>2, BeatsIrreflexive DEF MergeAccepts
  <1>4. \A e \in D : e.kind \in {"add", "remove"} /\ e.key = m.key
    BY <1>1, <1>2 DEF Colliding, Good, IndexSound
  <1>5. /\ T \in Store /\ T.msgs = S.msgs \ D /\ T.trie = S.trie
        /\ T.adds[m.key] = None /\ T.removes[m.key] = None
        /\ T.compact = S.compact
        /\ \A k \in Key : k # m.key =>
              T.adds[k] = S.adds[k] /\ T.removes[k] = S.removes[k]
    <2>1. T.compact = S.compact
      BY <1>1, <1>4, DeleteManyFields DEF Store
    <2>2. T.adds[m.key] = None
      <3>1. CASE S.adds[m.key] = None
        BY <1>1, <3>1, DeleteManyFields
      <3>2. CASE S.adds[m.key] # None
        <4>1. S.adds[m.key] \in D
          BY <1>2, <3>2 DEF Colliding
        <4>2. S.adds[m.key].kind = "add" /\ S.adds[m.key].key = m.key
          BY <1>1, <3>2 DEF Good, IndexSound
        <4>3. QED
          BY <1>1, <4>1, <4>2, DeleteManyFields
      <3>3. QED
        BY <3>1, <3>2
    <2>3. T.removes[m.key] = None
      <3>1. CASE S.removes[m.key] = None
        BY <1>1, <3>1, DeleteManyFields
      <3>2. CASE S.removes[m.key] # None
        <4>1. S.removes[m.key] \in D
          BY <1>2, <3>2 DEF Colliding
        <4>2. S.removes[m.key].kind = "remove" /\ S.removes[m.key].key = m.key
          BY <1>1, <3>2 DEF Good, IndexSound
        <4>3. QED
          BY <1>1, <4>1, <4>2, DeleteManyFields
      <3>3. QED
        BY <3>1, <3>2
    <2>4. QED
      BY <1>1, <1>4, <2>1, <2>2, <2>3, DeleteManyFields
  <1>6. /\ R \in Store
        /\ R.msgs = (S.msgs \ D) \cup {m}
        /\ R.trie = (S.trie \cup {m}) \ D
        /\ R.compact = S.compact
        /\ \A k \in Key : R.adds[k] =
              IF k = m.key /\ m.kind = "add" THEN m ELSE T.adds[k]
        /\ \A k \in Key : R.removes[k] =
              IF k = m.key /\ m.kind = "remove" THEN m ELSE T.removes[k]
    <2> DEFINE P == PutMessage(T, m)
    <2>0. R = [P EXCEPT !.trie = (S.trie \cup {m}) \ D]
      BY DEF Merge, TrieAfterMerge
    <2>a. (S.trie \cup {m}) \ D \in SUBSET Message
      BY <1>1 DEF Store
    <2>1. CASE m.kind = "add"
      <3>1. P = [T EXCEPT !.msgs = @ \cup {m}, !.adds[m.key] = m]
        BY <2>1 DEF PutMessage
      <3> HIDE DEF P, T, D, R
      <3>2. QED
        BY <1>1, <1>5, <2>0, <2>a, <2>1, <3>1 DEF Store
    <2>2. CASE m.kind = "remove"
      <3>1. P = [T EXCEPT !.msgs = @ \cup {m}, !.removes[m.key] = m]
        BY <2>2 DEF PutMessage
      <3> HIDE DEF P, T, D, R
      <3>2. QED
        BY <1>1, <1>5, <2>0, <2>a, <2>2, <3>1 DEF Store
    <2>3. QED
      BY <1>1, <2>1, <2>2
  <1> HIDE DEF D, T, R
  <1>7. QED
    BY <1>1, <1>2, <1>3, <1>4, <1>5, <1>6 DEF R

\* So it keeps a store good.
LEMMA MergeEntryGood ==
  ASSUME NEW S, Good(S), NEW d, NEW m \in Message, m.kind # "compact",
         MergeAccepts(S, m)
  PROVE  Good(Merge(d, S, m))
  <1> DEFINE D == Colliding(S, m)
             R == Merge(d, S, m)
  <1>1. /\ S \in Store
        /\ m.kind \in {"add", "remove"}
        /\ m.key \in Key
        /\ m # None
    BY StoreAssumption DEF Good, Kinds
  <1>2. /\ D \subseteq S.msgs /\ m \notin D
        /\ \A e \in D : e.kind \in {"add", "remove"} /\ e.key = m.key
        /\ R \in Store
        /\ R.msgs = (S.msgs \ D) \cup {m}
        /\ R.trie = (S.trie \cup {m}) \ D
        /\ R.compact = S.compact
        /\ \A k \in Key : R.adds[k] =
              IF k # m.key THEN S.adds[k]
              ELSE IF m.kind = "add" THEN m ELSE None
        /\ \A k \in Key : R.removes[k] =
              IF k # m.key THEN S.removes[k]
              ELSE IF m.kind = "remove" THEN m ELSE None
    BY MergeEntryFields
  <1> HIDE DEF D, R
  <1>3. PrimaryKinds(R)
    BY <1>1, <1>2 DEF Good, PrimaryKinds
  <1>4. IndexSound(R)
    BY <1>1, <1>2 DEF Good, IndexSound
  <1>5. OneWinner(R)
    BY <1>1, <1>2 DEF Good, OneWinner
  <1>6. TrieMatches(R)
    <2>1. \A t \in LinkType : S.compact[t] # None => S.compact[t] \notin D
      BY <1>2 DEF Good, IndexSound
    <2>2. QED
      BY <1>2, <2>1 DEF Good, TrieMatches
  <1>7. QED
    BY <1>2, <1>3, <1>4, <1>5, <1>6 DEF Good, R

\* Merging an accepted compact state keeps a store good, although the
\* messages it deletes are read from the database d and not from S.
LEMMA MergeCompactGood ==
  ASSUME NEW S, Good(S), NEW d, Good(d), NEW m \in Message,
         m.kind = "compact", MergeAccepts(S, m)
  PROVE  Good(Merge(d, S, m))
  <1> DEFINE C == CompactedBy(d, m)
             old == S.compact[m.type]
             D == MergeConflicts(d, S, m)
             T == DeleteMany(S, D)
             R == Merge(d, S, m)
  <1>1. /\ S \in Store /\ d \in Store
        /\ m.type \in LinkType /\ m.ts \in Nat
    BY StoreAssumption DEF Good
  <1>2. /\ C \subseteq Message
        /\ \A e \in C : e.kind \in {"add", "remove"}
    BY <1>1 DEF CompactedBy, Good, PrimaryKinds, Store
  <1>3. D = ({old} \ {None}) \cup C
    BY DEF MergeConflicts
  <1>4. old # None => old \in Message /\ old.kind = "compact"
                        /\ old.type = m.type /\ old # m
    BY <1>1, StoreAssumption DEF Good, IndexSound, MergeAccepts, Store
  <1>5. m \notin D
    BY <1>2, <1>3, <1>4
  <1>6. /\ T \in Store /\ T.msgs = S.msgs \ C /\ T.trie = S.trie
        /\ \A t \in LinkType : T.compact[t] =
              IF t = m.type THEN None ELSE S.compact[t]
    <2>1. old \notin S.msgs
      BY <1>1, <1>4, StoreAssumption DEF Good, PrimaryKinds, Store
    <2>2. T.msgs = S.msgs \ C
      BY <1>1, <1>3, <2>1, DeleteManyFields
    <2>3. QED
      BY <1>1, <1>2, <1>3, <1>4, <2>2, DeleteManyFields
  <1>7. /\ R \in Store
        /\ R.msgs = S.msgs \ C
        /\ R.trie = (S.trie \cup {m}) \ D
        /\ R.adds = T.adds /\ R.removes = T.removes
        /\ \A t \in LinkType : R.compact[t] =
              IF t = m.type THEN m ELSE S.compact[t]
    <2> DEFINE P == PutMessage(T, m)
    <2>1. R = [P EXCEPT !.trie = (S.trie \cup {m}) \ D]
      BY DEF Merge, TrieAfterMerge
    <2>2. (S.trie \cup {m}) \ D \in SUBSET Message
      BY <1>1 DEF Store
    <2>3. P = [T EXCEPT !.compact[m.type] = m]
      BY DEF PutMessage
    <2> HIDE DEF P, T, D, R
    <2>4. QED
      BY <1>1, <1>6, <2>1, <2>2, <2>3 DEF Store
  <1>8. PrimaryKinds(R)
    BY <1>7 DEF Good, PrimaryKinds
  <1>9. IndexSound(R)
    <2>1. \A k \in Key : R.adds[k] # None =>
             R.adds[k] = S.adds[k] /\ S.adds[k] \notin C
      BY <1>1, <1>3, <1>7, DeleteManyFields DEF Good, IndexSound
    <2>2. \A k \in Key : R.removes[k] # None =>
             R.removes[k] = S.removes[k] /\ S.removes[k] \notin C
      BY <1>1, <1>3, <1>7, DeleteManyFields DEF Good, IndexSound
    <2>3. QED
      BY <1>7, <2>1, <2>2 DEF Good, IndexSound
  <1>10. OneWinner(R)
    BY <1>1, <1>7, DeleteManyFields DEF Good, OneWinner
  <1>11. TrieMatches(R)
    <2>1. \A t \in LinkType : t # m.type /\ S.compact[t] # None =>
             S.compact[t] \notin D
      BY <1>2, <1>3, <1>4 DEF Good, IndexSound
    <2>2. m # None
      BY StoreAssumption
    <2>3. \A x \in R.trie : \/ x \in R.msgs
                            \/ \E t \in LinkType : x = R.compact[t] /\ x # None
      <3> TAKE x \in R.trie
      <3>1. CASE x = m
        BY <1>1, <1>7, <2>2, <3>1
      <3>2. CASE x \in S.msgs
        BY <1>3, <1>7, <3>2
      <3>3. CASE \E t \in LinkType : x = S.compact[t] /\ x # None
        BY <1>3, <1>7, <3>3
      <3>4. QED
        BY <1>7, <3>1, <3>2, <3>3 DEF Good, TrieMatches
    <2>4. \A x \in R.msgs : x \in R.trie
      <3> TAKE x \in R.msgs
      <3>1. x \in S.msgs /\ x \notin C
        BY <1>7
      <3>2. x \notin D
        BY <1>3, <1>4, <3>1 DEF Good, PrimaryKinds
      <3>3. QED
        BY <1>7, <3>1, <3>2 DEF Good, TrieMatches
    <2>5. \A t \in LinkType : R.compact[t] # None => R.compact[t] \in R.trie
      BY <1>5, <1>7, <2>1 DEF Good, TrieMatches
    <2>6. QED
      BY <2>3, <2>4, <2>5 DEF TrieMatches
  <1>12. QED
    BY <1>7, <1>8, <1>9, <1>10, <1>11 DEF Good
-----------------------------------------------------------------------------
\* What revoke and prune read from a good database are messages under
\* primary keys.
LEMMA FromDatabase ==
  ASSUME NEW d, Good(d)
  PROVE  /\ \A s : /\ Revoked(d, s) \in SUBSET Message
                   /\ \A e \in Revoked(d, s) : e.kind \in {"add", "remove"}
         /\ \A S, max : /\ Pruned(d, S, max) \in SUBSET Message
                        /\ \A e \in Pruned(d, S, max) :
                              e.kind \in {"add", "remove"}
  BY DEF Good, PrimaryKinds, Store, Revoked, Pruned

\* Any accepted merge keeps the store good.
LEMMA MergeGood ==
  ASSUME NEW S, Good(S), NEW d, Good(d), NEW m \in Message,
         MergeAccepts(S, m)
  PROVE  Good(Merge(d, S, m))
  BY MergeEntryGood, MergeCompactGood

\* The inductive invariant holds initially.
LEMMA InvInit == Init => Inv
  <1> SUFFICES ASSUME Init PROVE Inv
    OBVIOUS
  <1>1. Good(db) /\ Good(view)
    BY EmptyGood DEF Init
  <1>2. QED
    BY <1>1 DEF Init, Inv, TypeOK, Good

\* Every step of a replay, a commit and a rollback preserve it.
LEMMA InvStep == Inv /\ [Next]_vars => Inv'
  <1> SUFFICES ASSUME Inv, [Next]_vars PROVE Inv'
    OBVIOUS
  <1>0. /\ Good(db) /\ Good(view)
        /\ phase \in {"system", "user", "prune"} /\ types \subseteq Kinds
    BY DEF Inv, TypeOK
  <1> SUFFICES /\ Good(db') /\ Good(view')
               /\ phase' \in {"system", "user", "prune"}
               /\ types' \subseteq Kinds
    BY DEF Inv, TypeOK, Good, PrimaryKinds, IndexSound, OneWinner, TrieMatches
  <1>1. ASSUME NEW s \in Signer, RevokeSigner(s)
        PROVE  /\ Good(db') /\ Good(view')
               /\ phase' \in {"system", "user", "prune"}
               /\ types' \subseteq Kinds
    <2>1. Good(Discard(view, Revoked(db, s)))
      BY <1>0, FromDatabase, DiscardGood
    <2>2. QED
      BY <1>0, <1>1, <2>1 DEF RevokeSigner
  <1>2. ASSUME NEW m \in Message, MergeMessage(m)
        PROVE  /\ Good(db') /\ Good(view')
               /\ phase' \in {"system", "user", "prune"}
               /\ types' \subseteq Kinds
    <2>1. Good(Merge(db, view, m))
      BY <1>0, <1>2, MergeGood DEF MergeMessage
    <2>2. m.kind \in Kinds
      BY StoreAssumption
    <2>3. QED
      BY <1>0, <1>2, <2>1, <2>2 DEF MergeMessage
  <1>3. ASSUME NEW t \in Kinds, NEW max \in Limits, PruneMessages(t, max)
        PROVE  /\ Good(db') /\ Good(view')
               /\ phase' \in {"system", "user", "prune"}
               /\ types' \subseteq Kinds
    <2>1. Good(Discard(view, Pruned(db, view, max)))
      BY <1>0, FromDatabase, DiscardGood
    <2>2. QED
      BY <1>0, <1>3, <2>1 DEF PruneMessages
  <1>4. CASE Commit
    BY <1>0, <1>4 DEF Commit
  <1>5. CASE Rollback
    BY <1>0, <1>5 DEF Rollback
  <1>6. CASE UNCHANGED vars
    BY <1>0, <1>6 DEF vars
  <1>7. QED
    BY <1>1, <1>2, <1>3, <1>4, <1>5, <1>6 DEF Next

\* The inductive invariant holds in every reachable state.
THEOREM Invariance == Spec => []Inv
  BY InvInit, InvStep, PTL DEF Spec

\* Type correctness of the message store.
THEOREM TypeCorrect == Spec => []TypeOK
  <1>1. Inv => TypeOK
    BY DEF Inv
  <1>2. QED
    BY Invariance, <1>1, PTL

\* Index entries never dangle, in the database or inside a batch
\* (get_merge_conflicts, delete_many_transaction, prune_messages,
\* revoke_messages_by_signer).
THEOREM IndicesAlwaysSound == Spec => []IndicesSound
  <1>1. Inv => IndicesSound
    BY DEF Inv, Good, IndicesSound
  <1>2. QED
    BY Invariance, <1>1, PTL

\* The adds set and the removes set never share a key.
THEOREM AddsRemovesAlwaysDisjoint == Spec => []AddsRemovesDisjoint
  <1>1. Inv => AddsRemovesDisjoint
    BY DEF Inv, Good, AddsRemovesDisjoint
  <1>2. QED
    BY Invariance, <1>1, PTL

\* The trie always covers exactly the stored messages, so the state root a
\* validator compares is a root of the store it would serve (update_trie).
THEOREM RootAlwaysCoversStore == Spec => []RootCoversStore
  <1>1. Inv => RootCoversStore
    BY DEF Inv, Good, RootCoversStore
  <1>2. QED
    BY Invariance, <1>1, PTL
-----------------------------------------------------------------------------
(***************************************************************************)
(* The store implements LwwSet under the mapping Winner.                   *)
(***************************************************************************)

\* A set of deletions only drops winners: with at most one index entry per
\* key, no deletion uncovers another winner.
LEMMA DeleteManyDrops ==
  ASSUME NEW S, Good(S), NEW D, NEW R,
         R.adds = DeleteMany(S, D).adds, R.removes = DeleteMany(S, D).removes
  PROVE  Winner(R) = [k \in Key |->
             IF k \in {j \in Key : Winner(R)[j] = None}
             THEN None ELSE Winner(S)[k]]
  <1>1. \A k \in Key : Winner(R)[k] \in {None, Winner(S)[k]}
    <2> TAKE k \in Key
    <2>1. S.adds[k] = None \/ S.removes[k] = None
      BY DEF Good, OneWinner
    <2>2. /\ R.adds[k] \in {None, S.adds[k]}
          /\ R.removes[k] \in {None, S.removes[k]}
      BY DeleteManyFields DEF Good
    <2>3. QED
      BY <2>1, <2>2 DEF Winner
  <1>2. QED
    BY <1>1 DEF Winner

\* Discarding, and merging a compact state, only drop winners.
LEMMA DiscardDrops ==
  ASSUME NEW S, Good(S), NEW D
  PROVE  Winner(Discard(S, D)) = [k \in Key |->
             IF k \in {j \in Key : Winner(Discard(S, D))[j] = None}
             THEN None ELSE Winner(S)[k]]
  <1>1. /\ Discard(S, D).adds = DeleteMany(S, D).adds
        /\ Discard(S, D).removes = DeleteMany(S, D).removes
    BY DeleteManyFields DEF Good, Discard, Store
  <1>2. QED
    BY <1>1, DeleteManyDrops

\* Merging a compact state only drops winners: merge_compact_state deletes
\* messages and indexes none.
LEMMA MergeCompactDrops ==
  ASSUME NEW S, Good(S), NEW d, NEW m \in Message, m.kind = "compact"
  PROVE  Winner(Merge(d, S, m)) = [k \in Key |->
             IF k \in {j \in Key : Winner(Merge(d, S, m))[j] = None}
             THEN None ELSE Winner(S)[k]]
  <1> DEFINE D == MergeConflicts(d, S, m)
             T == DeleteMany(S, D)
             R == Merge(d, S, m)
  <1>1. T \in Store
    BY DeleteManyFields DEF Good
  <1>2. R = [[T EXCEPT !.compact[m.type] = m]
                EXCEPT !.trie = (S.trie \cup {m}) \ D]
    BY DEF Merge, PutMessage, TrieAfterMerge
  <1>3. R.adds = T.adds /\ R.removes = T.removes
    <2> HIDE DEF T, D, R
    <2> QED
      BY <1>1, <1>2 DEF Store
  <1>4. QED
    BY <1>3, DeleteManyDrops

\* Merging an add or a remove writes it over a winner it beats.
LEMMA MergeEntryWrites ==
  ASSUME NEW S, Good(S), NEW d, NEW m \in Message, m.kind # "compact",
         MergeAccepts(S, m)
  PROVE  /\ Winner(Merge(d, S, m)) = [Winner(S) EXCEPT ![m.key] = m]
         /\ Winner(S)[m.key] # None => Beats(m, Winner(S)[m.key])
  <1> DEFINE R == Merge(d, S, m)
  <1>1. /\ m.kind \in {"add", "remove"} /\ m.key \in Key /\ m # None
    BY StoreAssumption DEF Kinds
  <1>2. /\ \A k \in Key : R.adds[k] =
              IF k # m.key THEN S.adds[k]
              ELSE IF m.kind = "add" THEN m ELSE None
        /\ \A k \in Key : R.removes[k] =
              IF k # m.key THEN S.removes[k]
              ELSE IF m.kind = "remove" THEN m ELSE None
    BY MergeEntryFields
  <1>3. \A k \in Key : Winner(R)[k] = IF k = m.key THEN m ELSE Winner(S)[k]
    <2> HIDE DEF R
    <2> QED
      BY <1>1, <1>2 DEF Winner
  <1>4. Winner(R) = [Winner(S) EXCEPT ![m.key] = m]
    <2> HIDE DEF R
    <2> QED
      BY <1>3 DEF Winner
  <1>5. Winner(S)[m.key] # None => Winner(S)[m.key] \in Colliding(S, m)
    BY <1>1 DEF Winner, Colliding
  <1>6. \A e \in Colliding(S, m) : Beats(m, e)
    BY DEF MergeAccepts
  <1>7. QED
    BY <1>4, <1>5, <1>6

\* Initially no key has a winner.
LEMMA LwwInit == Init => Lww!Init
  BY DEF Init, EmptyStore, Lww!Init, Winner

\* Every step of the store is a step of the last-write-wins set, or changes
\* no winner.
LEMMA LwwStep == Inv /\ [Next]_vars => [Lww!Next]_<<Winner(db), Winner(view)>>
  <1> SUFFICES ASSUME Inv, [Next]_vars
               PROVE  Lww!Next \/ UNCHANGED <<Winner(db), Winner(view)>>
    OBVIOUS
  <1>0. Good(db) /\ Good(view)
    BY DEF Inv
  <1> DEFINE W == Winner(view)
  <1>d. ASSUME db' = db,
               Winner(view') = [k \in Key |->
                  IF k \in {j \in Key : Winner(view')[j] = None}
                  THEN None ELSE Winner(view)[k]]
        PROVE  Lww!Next
    <2> DEFINE K == {j \in Key : Winner(view')[j] = None}
    <2>1. K \in SUBSET Key
      OBVIOUS
    <2>2. Winner(view)' = Winner(view') /\ Winner(db)' = Winner(db)
      BY <1>d DEF Winner
    <2>3. Lww!Drop(K)
      BY <1>d, <2>2 DEF Lww!Drop
    <2>4. QED
      BY <2>1, <2>3 DEF Lww!Next
  <1>1. ASSUME NEW s \in Signer, RevokeSigner(s)
        PROVE  Lww!Next
    BY <1>0, <1>1, <1>d, DiscardDrops DEF RevokeSigner
  <1>2. ASSUME NEW m \in Message, MergeMessage(m)
        PROVE  Lww!Next
    <2>1. CASE m.kind = "compact"
      BY <1>0, <1>2, <1>d, <2>1, MergeCompactDrops DEF MergeMessage
    <2>2. CASE m.kind # "compact"
      <3>1. /\ Winner(view') = [Winner(view) EXCEPT ![m.key] = m]
            /\ Winner(view)[m.key] # None => Beats(m, Winner(view)[m.key])
        BY <1>0, <1>2, <2>2, MergeEntryWrites DEF MergeMessage
      <3>2. Winner(view)' = Winner(view') /\ Winner(db)' = Winner(db)
        BY <1>2 DEF MergeMessage, Winner
      <3>3. Lww!Write(m)
        BY <3>1, <3>2 DEF Lww!Write, KeyOfMessage
      <3>4. QED
        BY <3>3 DEF Lww!Next
    <2>3. QED
      BY <2>1, <2>2
  <1>3. ASSUME NEW t \in Kinds, NEW max \in Limits, PruneMessages(t, max)
        PROVE  Lww!Next
    BY <1>0, <1>3, <1>d, DiscardDrops DEF PruneMessages
  <1>4. ASSUME Commit PROVE Lww!Next
    BY <1>4 DEF Commit, Lww!Next, Lww!Commit, Winner
  <1>5. ASSUME Rollback PROVE Lww!Next
    BY <1>5 DEF Rollback, Lww!Next, Lww!Abort, Winner
  <1>6. ASSUME UNCHANGED vars PROVE UNCHANGED <<Winner(db), Winner(view)>>
    BY <1>6 DEF vars, Winner
  <1>7. QED
    BY <1>1, <1>2, <1>3, <1>4, <1>5, <1>6 DEF Next

\* The message store implements the last-write-wins set: the winner of a
\* key is replaced only by a message that beats it or is dropped, whatever
\* prune, revoke and compaction read from a stale database.
THEOREM StoreImplementsLww == Spec => LastWriteWins
  BY LwwInit, LwwStep, Invariance, PTL DEF Spec, LastWriteWins, Lww!Spec
=============================================================================
