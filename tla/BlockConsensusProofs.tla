------------------------ MODULE BlockConsensusProofs ------------------------
(***************************************************************************)
(* Proofs that stored blocks are the decided ones, witness the chunk of    *)
(* every shard and form a chain, for every set of validators and shards    *)
(* and all bounds.                                                         *)
(***************************************************************************)
EXTENDS BlockConsensus, FiniteSetTheorems, TLAPS

\* The block witnesses the chunk of every shard at its height, which some
\* validator has.
Witnessed(b) ==
    /\ b.witnesses = Witnesses(b.height)
    /\ \A s \in Shards : \E w \in Validators : chunks[w][s] >= b.height

\* The block refers to the block decided before it, which is decided.
Follows(b) ==
    IF b.height = 1 THEN b.parent = GenesisHash
    ELSE /\ b.height - 1 \in Heights /\ decided[b.height - 1] # None
         /\ b.parent = Hash(decided[b.height - 1])

\* A proposal has all witnesses or, after a timeout, none.
Sane(p) ==
    /\ p.block.height = p.height /\ p.height \in Heights
    /\ p.block.witnesses = {} \/ Witnessed(p.block)
    /\ putErrors = 0 => Follows(p.block)

TypeInv ==
    /\ scenario \in Scenarios
    /\ chunks \in [Validators -> [Shards -> Nat]]
    /\ DOMAIN blocks = Validators /\ DOMAIN local = Validators
    /\ DOMAIN height = Validators /\ DOMAIN collecting = Validators
    /\ DOMAIN decided = Heights
    /\ putErrors \in Nat

ProposalsInv ==
    /\ \A p \in sent : Sane(p)
    /\ \A v \in Validators : \A p \in local[v] : Sane(p) /\ p.proposer = v
    /\ \A v \in Validators : collecting[v] => height[v] \in Heights

\* Only its proposer votes for a proposal without counting the witnesses.
VotesInv ==
    \A v \in Validators : \A p : <<v, p>> \in votes =>
        v = p.proposer \/ Cardinality(p.block.witnesses) = Cardinality(Shards)

DecidedInv ==
    \A h \in Heights : decided[h] # None =>
        /\ decided[h].height = h
        /\ Witnessed(decided[h])
        /\ putErrors = 0 => Follows(decided[h])

StoredInv ==
    \A v \in Validators :
        /\ \A b \in blocks[v] : /\ b.height \in Heights
                                /\ decided[b.height] # None
                                /\ b = decided[b.height]
        /\ putErrors = 0 => /\ height[v] \in Nat \ {0}
                            /\ StoredHeights(v) = 1..height[v] - 1

\* The inductive invariant.
Inv == TypeInv /\ ProposalsInv /\ VotesInv /\ DecidedInv /\ StoredInv

-----------------------------------------------------------------------------
\* The largest of the first n numbers.
LEMMA MaxOfFirst ==
  ASSUME NEW n \in Nat
  PROVE  Max({0} \union 1..n) = n
  <1>1. /\ n \in {0} \union 1..n
        /\ \A y \in {0} \union 1..n : n >= y
    OBVIOUS
  <1>2. \A x \in {0} \union 1..n : (\A y \in {0} \union 1..n : x >= y) => x = n
    OBVIOUS
  <1>3. QED
    BY <1>1, <1>2 DEF Max

\* The confirmed height of a validator whose writes all succeeded, and its
\* last block.
LEMMA ConfirmedIsBefore ==
  ASSUME Inv, putErrors = 0, NEW v \in Validators
  PROVE  /\ ConfirmedHeight(v) = height[v] - 1
         /\ height[v] \in Nat \ {0}
         /\ height[v] > 1 => /\ height[v] - 1 \in Heights
                             /\ decided[height[v] - 1] # None
                             /\ blocks[v] # {}
                             /\ LastBlock(v) = decided[height[v] - 1]
  <1>1. height[v] \in Nat \ {0} /\ StoredHeights(v) = 1..height[v] - 1
    BY DEF Inv, StoredInv
  <1>2. ConfirmedHeight(v) = height[v] - 1
    BY <1>1, MaxOfFirst DEF ConfirmedHeight
  <1>3. ASSUME height[v] > 1
        PROVE  \E b \in blocks[v] : b.height = ConfirmedHeight(v)
    <2>1. height[v] - 1 \in StoredHeights(v)
      BY <1>1, <1>3
    <2>2. QED
      BY <1>2, <2>1 DEF StoredHeights
  <1>4. ASSUME height[v] > 1
        PROVE  LastBlock(v) \in blocks[v] /\ LastBlock(v).height = height[v] - 1
    BY <1>2, <1>3, <1>4 DEF LastBlock
  <1>5. QED
    BY <1>1, <1>2, <1>4 DEF Inv, StoredInv

\* With two thirds of at least two validators somebody else than the proposer
\* is for it.
LEMMA QuorumHasAnother ==
  ASSUME SeveralValidators, scenario \in Scenarios, NEW h \in Heights, NEW x, NEW Q,
         IsQuorum(Q, h)
  PROVE  \E v \in Q : v # x
  <1> DEFINE set == Range(GetValidatorSet(h))
  <1>1. /\ IsFiniteSet(set) /\ Cardinality(set) \in Nat /\ Cardinality(set) > 1
        /\ 3 * Cardinality(Q \intersect set) > 2 * Cardinality(set)
    <2>1. IsFiniteSet(set) /\ Cardinality(set) > 1
      BY DEF SeveralValidators, Heights
    <2>2. QED
      BY <2>1, FS_CardinalityType DEF IsQuorum
  <1> HIDE DEF set
  <1>2. SUFFICES ASSUME \A v \in Q : v = x PROVE FALSE
    OBVIOUS
  <1>3. Q \intersect set \subseteq {x}
    BY <1>2
  <1>4. Cardinality(Q \intersect set) <= 1 /\ Cardinality(Q \intersect set) \in Nat
    <2>1. IsFiniteSet({x}) /\ Cardinality({x}) = 1
      BY FS_Singleton
    <2>2. Q \intersect set \in SUBSET {x}
      BY <1>3
    <2>3. IsFiniteSet(Q \intersect set) /\ Cardinality(Q \intersect set) <= Cardinality({x})
      BY <2>1, <2>2, FS_Subset, Zenon
    <2>4. QED
      BY <2>1, <2>3, FS_CardinalityType
  <1>5. QED
    BY <1>1, <1>4

\* Nothing is proposed, decided or stored yet.
LEMMA InvInit == BlockConstants /\ Init => Inv
  <1> SUFFICES ASSUME BlockConstants, Init PROVE Inv
    OBVIOUS
  <1>1. TypeInv
    BY DEF Init, TypeInv
  <1>2. ProposalsInv /\ VotesInv
    BY DEF Init, ProposalsInv, VotesInv
  <1>3. DecidedInv
    BY DEF Init, DecidedInv
  <1>4. StoredInv
    BY DEF Init, StoredInv, StoredHeights
  <1>5. QED
    BY <1>1, <1>2, <1>3, <1>4 DEF Inv

\* Chunks and decisions only grow, so what holds of a block stays.
LEMMA BlocksStay ==
  ASSUME BlockConstants, TypeInv, UNCHANGED scenario,
         \A w \in Validators, s \in Shards : chunks'[w][s] \in Nat /\ chunks'[w][s] >= chunks[w][s],
         \A h \in Heights : decided[h] # None => decided'[h] = decided[h],
         putErrors' = 0 => putErrors = 0,
         NEW b, b.height \in Heights
  PROVE  /\ Witnessed(b) => Witnessed(b)'
         /\ Follows(b) => Follows(b)'
  <1>1. Shards' = Shards /\ Heights' = Heights /\ \A h : Witnesses(h)' = Witnesses(h)
    BY DEF Shards, Heights, Witnesses
  <1>2. ASSUME Witnessed(b) PROVE Witnessed(b)'
    <2>1. b.height \in Nat
      BY DEF Heights, BlockConstants, TypeInv
    <2>2. \A s \in Shards : \E w \in Validators : chunks'[w][s] >= b.height
      <3> SUFFICES ASSUME NEW s \in Shards
                   PROVE  \E w \in Validators : chunks'[w][s] >= b.height
        OBVIOUS
      <3>1. PICK w \in Validators : chunks[w][s] >= b.height
        BY <1>2 DEF Witnessed
      <3>2. chunks[w][s] \in Nat /\ chunks'[w][s] \in Nat /\ chunks'[w][s] >= chunks[w][s]
        BY DEF TypeInv
      <3>3. QED
        BY <2>1, <3>1, <3>2
    <2>3. QED
      BY <1>1, <1>2, <2>2 DEF Witnessed
  <1>3. ASSUME Follows(b) PROVE Follows(b)'
    BY <1>1, <1>3 DEF Follows, Hash, GenesisHash
  <1>4. QED
    BY <1>2, <1>3

\* Steps that propose, vote, decide, store and move nothing.
LEMMA OthersKeep ==
  ASSUME BlockConstants, Inv, UNCHANGED <<scenario, blocks, sent, decided, local, putErrors>>,
         TypeInv',
         \A w \in Validators, s \in Shards : chunks'[w][s] >= chunks[w][s],
         \A v \in Validators : putErrors = 0 => height'[v] = height[v],
         \A v \in Validators : collecting'[v] => height'[v] \in Heights,
         \A v \in Validators : \A p : <<v, p>> \in votes' \ votes =>
             v = p.proposer \/ Cardinality(p.block.witnesses) = Cardinality(Shards)
  PROVE  Inv'
  <1>1. Shards' = Shards /\ Heights' = Heights
    BY DEF Shards, Heights
  <1>2. \A w \in Validators, s \in Shards : chunks'[w][s] \in Nat
    BY <1>1 DEF TypeInv
  <1>3. \A b : b.height \in Heights => /\ Witnessed(b) => Witnessed(b)'
                                       /\ Follows(b) => Follows(b)'
    BY <1>2, BlocksStay DEF Inv
  <1>4. \A p : Sane(p) => Sane(p)'
    BY <1>1, <1>3 DEF Sane
  <1>5. ProposalsInv'
    BY <1>1, <1>4 DEF Inv, ProposalsInv
  <1>6. VotesInv'
    BY <1>1 DEF Inv, VotesInv
  <1>7. DecidedInv'
    BY <1>1, <1>3 DEF Inv, DecidedInv
  <1>8. StoredInv'
    BY <1>1 DEF Inv, StoredInv, StoredHeights
  <1>9. QED
    BY <1>5, <1>6, <1>7, <1>8 DEF Inv

\* A proposal refers to the last block of its proposer, and has the
\* witnesses the proposer collected or none.
LEMMA ProposeKeeps ==
  ASSUME BlockConstants, Inv, NEW v \in Validators, Collected(v) \/ WitnessTimeout(v)
  PROVE  Inv'
  <1>1. PICK w : /\ w = {} \/ (w = Witnesses(height[v]) /\ HasChunks(v, height[v]))
                 /\ Propose(v, w)
    <2>1. CASE Collected(v)
      BY <2>1 DEF Collected
    <2>2. CASE WitnessTimeout(v)
      BY <2>2 DEF WitnessTimeout
    <2>3. QED
      BY <2>1, <2>2
  <1>t. PICK t \in Times :
            LET p == [Proposal(v, w, t) EXCEPT !.round = asked[v]]
            IN  /\ collecting[v]
                /\ collecting' = [collecting EXCEPT ![v] = FALSE]
                /\ local' = [local EXCEPT ![v] = @ \union {p}]
                /\ Publish(v, p)
                /\ UNCHANGED <<scenario, chunks, blocks, height, putErrors>>
    BY <1>1 DEF Propose
  <1> DEFINE p == [Proposal(v, w, t) EXCEPT !.round = asked[v]]
  <1>2. /\ collecting' = [collecting EXCEPT ![v] = FALSE]
        /\ local' = [local EXCEPT ![v] = @ \union {p}]
        /\ sent' = sent \union {p} /\ votes' = votes \union {<<v, p>>}
        /\ UNCHANGED <<decided, scenario, chunks, blocks, height, putErrors>>
    BY <1>t DEF Publish
  <1>3. /\ p.height = height[v] /\ p.proposer = v
        /\ p.block.height = height[v] /\ p.block.witnesses = w
        /\ p.block.parent = ParentHash(v, height[v])
    BY DEF Proposal
  <1> HIDE DEF p
  <1>4. height[v] \in Heights
    BY <1>t DEF Inv, ProposalsInv
  <1>5. Sane(p)
    <2>1. w = {} \/ Witnessed(p.block)
      BY <1>1, <1>3 DEF Witnessed, HasChunks
    <2>2. ASSUME putErrors = 0 PROVE Follows(p.block)
      <3>1. CASE height[v] = 1
        BY <1>3, <3>1 DEF Follows, ParentHash
      <3>2. CASE height[v] # 1
        <4>1. height[v] > 1
          BY <2>2, <3>2, ConfirmedIsBefore
        <4>2. /\ height[v] - 1 \in Heights /\ decided[height[v] - 1] # None
              /\ blocks[v] # {} /\ LastBlock(v) = decided[height[v] - 1]
          BY <2>2, <4>1, ConfirmedIsBefore
        <4>3. p.block.parent = Hash(decided[height[v] - 1])
          BY <1>3, <3>2, <4>2 DEF ParentHash
        <4>4. QED
          BY <1>3, <3>2, <4>2, <4>3 DEF Follows
      <3>3. QED
        BY <3>1, <3>2
    <2>3. QED
      BY <1>3, <1>4, <2>1, <2>2 DEF Sane
  <1>6. Shards' = Shards /\ Heights' = Heights
    BY <1>2 DEF Shards, Heights
  <1>7. \A b : /\ Witnessed(b)' <=> Witnessed(b)
               /\ Follows(b)' <=> Follows(b)
    BY <1>2, <1>6 DEF Witnessed, Follows, Witnesses, Hash, GenesisHash
  <1>8. \A q : Sane(q) => Sane(q)'
    BY <1>2, <1>6, <1>7 DEF Sane
  <1>9. TypeInv'
    BY <1>2, <1>6 DEF Inv, TypeInv
  <1>10. ProposalsInv'
    BY <1>2, <1>3, <1>5, <1>6, <1>8 DEF Inv, ProposalsInv, TypeInv
  <1>11. VotesInv'
    BY <1>2, <1>3, <1>6 DEF Inv, VotesInv
  <1>12. DecidedInv' /\ StoredInv'
    BY <1>2, <1>6, <1>7 DEF Inv, DecidedInv, StoredInv, StoredHeights
  <1>13. QED
    BY <1>9, <1>10, <1>11, <1>12 DEF Inv

\* What is decided was counted by somebody who did not propose it.
LEMMA DecideKeeps ==
  ASSUME BlockConstants, SeveralValidators, Inv, NEW p \in sent, Decide(p)
  PROVE  Inv'
  <1>1. /\ UNCHANGED <<scenario, chunks, blocks, local, height, collecting, sent, votes,
                       putErrors>>
        /\ decided[p.height] = None /\ decided' = [decided EXCEPT ![p.height] = p.block]
        /\ IsQuorum({v \in Validators : <<v, p>> \in votes}, p.height)
    BY DEF Decide, nodeVars
  <1>2. Sane(p) /\ p.height \in Heights
    BY DEF Inv, ProposalsInv, Sane
  <1>3. Shards' = Shards /\ Heights' = Heights
    BY <1>1 DEF Shards, Heights
  <1>4. Witnessed(p.block)
    <2>1. PICK v \in Validators : <<v, p>> \in votes /\ v # p.proposer
      <3>1. scenario \in Scenarios
        BY DEF Inv, TypeInv
      <3> DEFINE Q == {u \in Validators : <<u, p>> \in votes}
                 h == p.height
                 x == p.proposer
      <3>2. IsQuorum(Q, h) /\ h \in Heights
        BY <1>1, <1>2
      <3>3. \A v \in Q : v \in Validators /\ <<v, p>> \in votes
        OBVIOUS
      <3> HIDE DEF Q, h, x
      <3>4. \E v \in Q : v # x
        BY <3>1, <3>2, QuorumHasAnother
      <3>5. QED
        BY <3>3, <3>4 DEF x
    <2>2. Cardinality(p.block.witnesses) = Cardinality(Shards)
      BY <2>1 DEF Inv, VotesInv
    <2>3. CASE p.block.witnesses = {}
      <3>1. IsFiniteSet(Shards)
        BY DEF BlockConstants, Inv, TypeInv, Shards
      <3>2. Shards = {}
        BY <2>2, <2>3, <3>1, FS_EmptySet
      <3>3. QED
        BY <2>3, <3>2 DEF Witnessed, Witnesses
    <2>4. QED
      BY <1>2, <2>3 DEF Sane
  <1>5. \A h \in Heights : decided[h] # None => decided'[h] = decided[h]
    BY <1>1, <1>2 DEF Inv, TypeInv
  <1>6. \A b : b.height \in Heights => /\ Witnessed(b) => Witnessed(b)'
                                       /\ Follows(b) => Follows(b)'
    <2>1. \A w \in Validators, s \in Shards :
              chunks'[w][s] \in Nat /\ chunks'[w][s] >= chunks[w][s]
      BY <1>1 DEF Inv, TypeInv
    <2>2. QED
      BY <1>1, <1>5, <2>1, BlocksStay DEF Inv
  <1>7. \A q : Sane(q) => Sane(q)'
    BY <1>1, <1>3, <1>6 DEF Sane
  <1>8. TypeInv'
    BY <1>1, <1>3 DEF Inv, TypeInv
  <1>9. ProposalsInv' /\ VotesInv'
    BY <1>1, <1>3, <1>7 DEF Inv, ProposalsInv, VotesInv
  <1>10. DecidedInv'
    <2>1. ASSUME NEW h \in Heights, NEW b, b = decided'[h], b # None
          PROVE  /\ b.height = h
                 /\ Witnessed(b)'
                 /\ putErrors = 0 => Follows(b)'
      <3>1. CASE h = p.height
        <4>1. b = p.block
          BY <1>1, <1>2, <2>1, <3>1 DEF Inv, TypeInv
        <4>2. QED
          BY <1>2, <1>4, <1>6, <3>1, <4>1 DEF Sane
      <3>2. CASE h # p.height
        <4>1. b = decided[h]
          BY <1>1, <2>1, <3>2 DEF Inv, TypeInv
        <4>2. QED
          BY <1>6, <2>1, <4>1 DEF Inv, DecidedInv
      <3>3. QED
        BY <3>1, <3>2
    <2>2. QED
      BY <1>1, <1>3, <2>1 DEF DecidedInv
  <1>11. StoredInv'
    BY <1>1, <1>3, <1>5 DEF Inv, StoredInv, StoredHeights
  <1>12. QED
    BY <1>8, <1>9, <1>10, <1>11 DEF Inv

\* A validator stores what is decided at its height, or fails to.
LEMMA CommitKeeps ==
  ASSUME BlockConstants, Inv, NEW v \in Validators, NEW stored \in BOOLEAN, Commit(v, stored)
  PROVE  Inv'
  <1> DEFINE h == height[v]
  <1>1. /\ UNCHANGED <<scenario, chunks, collecting, sent, votes, decided>>
        /\ h \in Heights /\ decided[h] # None /\ ~collecting[v]
        /\ blocks' = IF stored
                     THEN [blocks EXCEPT ![v] =
                               {b \in @ : b.height # h} \union {decided[h]}]
                     ELSE blocks
        /\ putErrors' = IF stored THEN putErrors ELSE putErrors + 1
        /\ local' = [local EXCEPT ![v] = {p \in @ : p.height # h}]
        /\ height' = [height EXCEPT ![v] = h + 1]
    BY DEF Commit, HasDecision, netVars
  <1>2. Shards' = Shards /\ Heights' = Heights
    BY <1>1 DEF Shards, Heights
  <1>3. /\ putErrors' \in Nat
        /\ putErrors' = 0 => putErrors = 0 /\ stored = TRUE
    BY <1>1 DEF Inv, TypeInv
  <1>4. \A b : /\ Witnessed(b)' <=> Witnessed(b)
               /\ Follows(b)' <=> Follows(b)
    BY <1>1, <1>2 DEF Witnessed, Follows, Witnesses, Hash, GenesisHash
  <1>5. \A q : Sane(q) => Sane(q)'
    BY <1>2, <1>3, <1>4 DEF Sane
  <1>6. TypeInv'
    BY <1>1, <1>2, <1>3 DEF Inv, TypeInv
  <1>7. ProposalsInv'
    <2>1. \A u \in Validators : local'[u] \subseteq local[u]
      BY <1>1 DEF Inv, TypeInv
    <2>2. \A u \in Validators : collecting'[u] => height'[u] = height[u]
      BY <1>1 DEF Inv, TypeInv
    <2>3. QED
      BY <1>1, <1>2, <1>5, <2>1, <2>2 DEF Inv, ProposalsInv
  <1>8. VotesInv' /\ DecidedInv'
    BY <1>1, <1>2, <1>3, <1>4 DEF Inv, VotesInv, DecidedInv
  <1>9. StoredInv'
    <2>1. decided[h].height = h
      BY <1>1 DEF Inv, DecidedInv
    <2>2. \A u \in Validators : \A b \in blocks'[u] : b \in blocks[u] \/ b = decided[h]
      BY <1>1 DEF Inv, TypeInv
    <2>3. \A u \in Validators : \A b \in blocks'[u] :
              b.height \in Heights /\ decided[b.height] # None /\ b = decided[b.height]
      BY <1>1, <2>1, <2>2 DEF Inv, StoredInv
    <2>4. ASSUME putErrors' = 0, NEW u \in Validators
          PROVE  /\ height'[u] \in Nat \ {0}
                 /\ StoredHeights(u)' = 1..height'[u] - 1
      <3>1. putErrors = 0 /\ stored
        BY <1>3, <2>4
      <3>2. height[u] \in Nat \ {0} /\ StoredHeights(u) = 1..height[u] - 1
        BY <3>1 DEF Inv, StoredInv
      <3>3. CASE u # v
        BY <1>1, <3>1, <3>2, <3>3 DEF Inv, TypeInv, StoredHeights
      <3>4. CASE u = v
        <4>1. height'[u] = h + 1 /\ h \in Nat \ {0}
          BY <1>1, <3>2, <3>4 DEF Inv, TypeInv
        <4>2. blocks'[u] = {b \in blocks[v] : b.height # h} \union {decided[h]}
          BY <1>1, <3>1, <3>4 DEF Inv, TypeInv
        <4>3. StoredHeights(u)' = (StoredHeights(v) \ {h}) \union {h}
          BY <2>1, <4>2 DEF StoredHeights
        <4>4. (1..h - 1) \union {h} = 1..h /\ h \notin 1..h - 1
          BY <4>1
        <4>5. QED
          BY <3>2, <3>4, <4>1, <4>3, <4>4
      <3>5. QED
        BY <3>3, <3>4
    <2>5. QED
      BY <1>1, <1>2, <2>3, <2>4 DEF StoredInv
  <1>10. QED
    BY <1>6, <1>7, <1>8, <1>9 DEF Inv

\* Every step keeps the invariant.
LEMMA InvNext == BlockConstants /\ SeveralValidators /\ Inv /\ [Next]_vars => Inv'
  <1> SUFFICES ASSUME BlockConstants, SeveralValidators, Inv, [Next]_vars PROVE Inv'
    OBVIOUS
  <1> USE DEF nodeVars, netVars
  <1>0. UNCHANGED scenario => Shards' = Shards /\ Heights' = Heights
    BY DEF Shards, Heights
  <1>1. ASSUME NEW v \in Validators, NEW s \in Shards, CommitChunk(v, s) PROVE Inv'
    <2>1. /\ chunks' = [chunks EXCEPT ![v][s] = @ + 1]
          /\ UNCHANGED <<scenario, nodeVars, netVars, putErrors>>
      BY <1>1 DEF CommitChunk
    <2>2. \A w \in Validators, x \in Shards : chunks'[w][x] >= chunks[w][x]
      BY <2>1 DEF Inv, TypeInv
    <2>3. TypeInv'
      BY <1>0, <2>1 DEF Inv, TypeInv
    <2>4. QED
      BY <2>1, <2>2, <2>3, OthersKeep DEF Inv, ProposalsInv
  <1>2. ASSUME NEW v \in Validators, GetValue(v) PROVE Inv'
    <2>1. UNCHANGED <<scenario, chunks, blocks, local, height, decided, putErrors>>
      BY <1>2 DEF GetValue, Publish
    <2>2. CASE UNCHANGED netVars /\ collecting' = [collecting EXCEPT ![v] = TRUE]
      <3>1. height[v] \in Heights
        BY <1>2 DEF GetValue
      <3>2. TypeInv'
        BY <1>0, <2>1, <2>2 DEF Inv, TypeInv
      <3>3. \A u \in Validators : collecting'[u] => height'[u] \in Heights
        BY <2>1, <2>2, <3>1 DEF Inv, TypeInv, ProposalsInv
      <3>4. \A w \in Validators, s \in Shards : chunks'[w][s] >= chunks[w][s]
        BY <2>1 DEF Inv, TypeInv
      <3>5. QED
        BY <2>1, <2>2, <3>2, <3>3, <3>4, OthersKeep
    <2>3. CASE (\E p \in local[v] : Publish(v, p)) /\ UNCHANGED collecting
      <3>1. PICK p \in local[v] : Publish(v, p)
        BY <2>3
      <3>2. Sane(p) /\ p.proposer = v
        BY DEF Inv, ProposalsInv
      <3>3. sent' = sent \union {p} /\ votes' = votes \union {<<v, p>>}
        BY <3>1 DEF Publish
      <3>4. \A b : (Witnessed(b)' <=> Witnessed(b)) /\ (Follows(b)' <=> Follows(b))
        BY <1>0, <2>1 DEF Witnessed, Follows, Witnesses, Hash, GenesisHash
      <3>5. \A q : Sane(q) => Sane(q)'
        BY <1>0, <2>1, <3>4 DEF Sane
      <3>6. TypeInv'
        BY <1>0, <2>1, <2>3 DEF Inv, TypeInv
      <3>7. ProposalsInv'
        BY <1>0, <2>1, <2>3, <3>2, <3>3, <3>5 DEF Inv, ProposalsInv
      <3>8. VotesInv'
        BY <1>0, <2>1, <3>2, <3>3 DEF Inv, VotesInv
      <3>9. DecidedInv' /\ StoredInv'
        BY <1>0, <2>1, <3>4 DEF Inv, DecidedInv, StoredInv, StoredHeights
      <3>10. QED
        BY <3>6, <3>7, <3>8, <3>9 DEF Inv
    <2>4. QED
      BY <1>2, <2>2, <2>3 DEF GetValue
  <1>3. ASSUME NEW v \in Validators, Collected(v) \/ WitnessTimeout(v) PROVE Inv'
    BY <1>3, ProposeKeeps
  <1>4. ASSUME NEW v \in Validators, NEW p \in sent, ReceiveProposal(v, p) PROVE Inv'
    <2>1. /\ UNCHANGED <<scenario, chunks, blocks, local, height, collecting, sent, decided,
                         putErrors>>
          /\ votes' \subseteq votes \union {<<v, p>>}
          /\ Cardinality(p.block.witnesses) = Cardinality(Shards)
      BY <1>4 DEF ReceiveProposal, Valid
    <2>2. TypeInv'
      BY <1>0, <2>1 DEF Inv, TypeInv
    <2>3. \A w \in Validators, s \in Shards : chunks'[w][s] >= chunks[w][s]
      BY <2>1 DEF Inv, TypeInv
    <2>4. \A u \in Validators : \A q : <<u, q>> \in votes' \ votes =>
              u = q.proposer \/ Cardinality(q.block.witnesses) = Cardinality(Shards)
      BY <2>1
    <2>5. QED
      BY <2>1, <2>2, <2>3, <2>4, OthersKeep DEF Inv, ProposalsInv
  <1>5. ASSUME NEW v \in Validators, CommitStored(v) \/ CommitFails(v) PROVE Inv'
    BY <1>5, CommitKeeps DEF CommitStored, CommitFails
  <1>6. ASSUME NEW v \in Validators, RestartHeight(v) PROVE Inv'
    <2>1. UNCHANGED <<scenario, chunks, blocks, local, height, collecting, netVars, putErrors>>
      BY <1>6 DEF RestartHeight
    <2>2. TypeInv' /\ \A w \in Validators, s \in Shards : chunks'[w][s] >= chunks[w][s]
      BY <1>0, <2>1 DEF Inv, TypeInv
    <2>3. QED
      BY <2>1, <2>2, OthersKeep DEF Inv, ProposalsInv
  <1>7. ASSUME NEW v \in Validators, Crash(v) PROVE Inv'
    <2>1. /\ collecting' = [collecting EXCEPT ![v] = FALSE]
          /\ height' = [height EXCEPT ![v] = ConfirmedHeight(v) + 1]
          /\ UNCHANGED <<scenario, chunks, blocks, local, netVars, putErrors>>
      BY <1>7 DEF Crash
    <2>2. TypeInv' /\ \A w \in Validators, s \in Shards : chunks'[w][s] >= chunks[w][s]
      BY <1>0, <2>1 DEF Inv, TypeInv
    <2>3. ASSUME NEW u \in Validators, putErrors = 0 PROVE height'[u] = height[u]
      <3>1. ConfirmedHeight(v) = height[v] - 1 /\ height[v] \in Nat \ {0}
        BY <2>3, ConfirmedIsBefore
      <3>2. QED
        BY <2>1, <3>1 DEF Inv, TypeInv
    <2>4. \A u \in Validators : collecting'[u] => height'[u] \in Heights
      BY <2>1 DEF Inv, TypeInv, ProposalsInv
    <2>5. QED
      BY <2>1, <2>2, <2>3, <2>4, OthersKeep
  <1>8. ASSUME NEW p \in sent, Decide(p) PROVE Inv'
    BY <1>8, DecideKeeps
  <1>9. ASSUME NEW h \in Heights, NextRound(h) PROVE Inv'
    <2>1. UNCHANGED <<scenario, chunks, nodeVars, sent, votes, decided, putErrors>>
      BY <1>9 DEF NextRound
    <2>2. TypeInv' /\ \A w \in Validators, s \in Shards : chunks'[w][s] >= chunks[w][s]
      BY <1>0, <2>1 DEF Inv, TypeInv
    <2>3. QED
      BY <2>1, <2>2, OthersKeep DEF Inv, ProposalsInv
  <1>10. CASE UNCHANGED vars
    <2>1. UNCHANGED <<scenario, chunks, nodeVars, netVars, putErrors>>
      BY <1>10 DEF vars
    <2>2. TypeInv' /\ \A w \in Validators, s \in Shards : chunks'[w][s] >= chunks[w][s]
      BY <1>0, <2>1 DEF Inv, TypeInv
    <2>3. QED
      BY <2>1, <2>2, OthersKeep DEF Inv, ProposalsInv
  <1>11. QED
    BY <1>1, <1>2, <1>3, <1>4, <1>5, <1>6, <1>7, <1>8, <1>9, <1>10 DEF Next

\* The invariant holds in every state.
LEMMA AlwaysInv == BlockConstants /\ SeveralValidators => (Spec => []Inv)
  <1> SUFFICES ASSUME BlockConstants, SeveralValidators PROVE Spec => []Inv
    OBVIOUS
  <1>1. Init => Inv
    BY InvInit
  <1>2. Inv /\ [Next]_vars => Inv'
    BY InvNext
  <1>3. QED
    BY <1>1, <1>2, PTL DEF Spec

\* Every stored block is the decided one and witnesses the chunk of every
\* shard, although a proposer that timed out proposes without witnesses and
\* accepts its own proposal unseen (BlockProposer::propose_value,
\* add_proposed_value), as long as it is never the only validator.
THEOREM WitnessesAlwaysComplete ==
  BlockConstants /\ SeveralValidators => (Spec => []WitnessesComplete)
  <1> SUFFICES ASSUME BlockConstants, SeveralValidators PROVE Spec => []WitnessesComplete
    OBVIOUS
  <1>1. Inv => WitnessesComplete
    BY DEF Inv, StoredInv, DecidedInv, Witnessed, WitnessesComplete
  <1>2. QED
    BY <1>1, AlwaysInv, PTL

\* Stored blocks are without a gap and refer to the block decided before
\* them, over crashes and rounds, although validators do not look at the
\* parent of a proposal (BlockProposer::add_proposed_value), as long as no
\* put_block fails.
THEOREM BlocksAlwaysChained ==
  BlockConstants /\ SeveralValidators => (Spec => []BlocksChained)
  <1> SUFFICES ASSUME BlockConstants, SeveralValidators PROVE Spec => []BlocksChained
    OBVIOUS
  <1>1. Inv => BlocksChained
    <2> SUFFICES ASSUME Inv, putErrors = 0, NEW v \in Validators
                 PROVE  /\ StoredHeights(v) = 1..ConfirmedHeight(v)
                        /\ \A b \in blocks[v] :
                               b.parent = IF b.height = 1 THEN GenesisHash
                                          ELSE Hash(decided[b.height - 1])
      BY DEF BlocksChained
    <2>1. StoredHeights(v) = 1..ConfirmedHeight(v)
      BY ConfirmedIsBefore DEF Inv, StoredInv
    <2>2. \A b \in blocks[v] : Follows(b)
      BY DEF Inv, StoredInv, DecidedInv
    <2>3. QED
      BY <2>1, <2>2 DEF Follows
  <1>2. QED
    BY <1>1, AlwaysInv, PTL
=============================================================================
