------------------------ MODULE ShardValidatorProofs ------------------------
(***************************************************************************)
(* A validator's state root is that of a decided prefix, its stored chunks *)
(* are the decided ones, and it never proposes twice in a round, for every *)
(* set of transactions and number of heights, rounds and crashes.  What a  *)
(* replay does to an account is not looked into: only that it is a         *)
(* function of the state and the transaction.                              *)
(***************************************************************************)
EXTENDS ShardValidator, SequenceTheorems, TLAPS

\* The root of the state is that of the chunks stored or, between the two
\* writes of a commit and after a crash there, of one more decided chunk.
RootOfDecidedPrefix ==
    \/ Root(engine.db) = Root(canon[Len(chunks) + 1])
    \/ /\ Len(decided) > Len(chunks)
       /\ Root(engine.db) = Root(canon[Len(chunks) + 2])

\* s is a sequence, of whatever elements.
IsSequence(s) == Len(s) \in Nat /\ s = [i \in 1..Len(s) |-> s[i]]

\* The fields of the engine.
EngineShape ==
    engine = [db |-> engine.db, pending |-> engine.pending,
              height |-> engine.height, seq |-> engine.seq, hub |-> engine.hub]

\* The decided chunks carry their heights and the roots of the states they
\* lead to.
ChainSound ==
    /\ IsSequence(decided)
    /\ IsSequence(canon)
    /\ Len(canon) = Len(decided) + 1
    /\ \A h \in 1..Len(decided) :
          decided[h].height = h /\ decided[h].root = Root(canon[h + 1])

\* The chunks stored are the decided ones, and the consensus library works
\* on the height after them.
ChunksSound ==
    /\ IsSequence(chunks)
    /\ Len(chunks) <= Len(decided)
    /\ \A h \in 1..Len(chunks) : ShardHash(chunks[h]) = ShardHash(decided[h])
    /\ step \in {"idle", "stored", "put", "panicked"}
    /\ height = IF step = "put" THEN Len(chunks) ELSE Len(chunks) + 1

\* A cached transaction that a decision can find was computed on the
\* database as it is.
PendingFresh ==
    step = "idle" /\ round # NilRound /\ engine.pending # None =>
        /\ engine.pending.base = engine.db
        /\ engine.pending.root = Root(engine.pending.account)

\* Once the batch is written the state is that of the decided chunk.
BatchDecided ==
    step = "stored" =>
        /\ height <= Len(decided)
        /\ ShardHash(current) = ShardHash(decided[height])
        /\ Root(engine.db) = Root(canon[height + 1])

StateInv ==
    EngineShape /\ ChainSound /\ ChunksSound /\ PendingFresh /\ BatchDecided
        /\ RootOfDecidedPrefix

\* The node's own proposals: those of the current height are in the local
\* state store, there is one for a round, and none for a later height.
OwnInv ==
    /\ \A p \in offers : p.own => p.height \in Nat /\ p.height <= height
    /\ \A p \in offers : p.own /\ p.height = height /\ step # "put" => p \in local
    /\ NoEquivocation

-----------------------------------------------------------------------------
\* What Append does, whatever the elements of the sequence are.
LEMMA AppendSequence ==
    ASSUME NEW s, IsSequence(s), NEW x
    PROVE  /\ IsSequence(Append(s, x))
           /\ Len(Append(s, x)) = Len(s) + 1
           /\ \A i \in 1..Len(s) : Append(s, x)[i] = s[i]
           /\ Append(s, x)[Len(s) + 1] = x
<1> DEFINE S == {s[i] : i \in 1..Len(s)} \cup {x}
<1>1. s \in Seq(S)
  <2>1. s \in [1..Len(s) -> S]
    BY DEF IsSequence
  <2>2. QED  BY <2>1 DEF IsSequence
<1>2. x \in S
  OBVIOUS
<1>3. Append(s, x) \in Seq(S)
  BY <1>1, <1>2
<1>4. Append(s, x) \in [1..Len(Append(s, x)) -> S] /\ Len(Append(s, x)) \in Nat
  BY <1>3, LenProperties
<1>5. IsSequence(Append(s, x))
  BY <1>4 DEF IsSequence
<1>6. QED
  BY <1>1, <1>2, <1>5, AppendProperties

\* Writing a batch to the database it was computed on gives the root it was
\* cached with (commit_and_emit_events).
LEMMA ApplyRoot ==
    ASSUME NEW d, NEW c, c.base = d
    PROVE  Root(ApplyBatch(d, c)) = Root(c.account)
<1>1. \A b, a : OverSet(b, b, a) = a
  BY DEF OverSet
<1>2. QED
  BY <1>1 DEF Root, ApplyBatch

\* What commit_shard_chunk commits: computed on the database, under its root.
LEMMA ForCommitFresh ==
    ASSUME EngineShape, PendingFresh, step = "idle", round # NilRound, NEW p
    PROVE  LET f == ForCommit(engine, p)
           IN  /\ f.txn.base = engine.db
               /\ f.txn.root = Root(f.txn.account)
               /\ f.engine.db = engine.db
               /\ f.engine = [db |-> f.engine.db, pending |-> f.engine.pending,
                              height |-> f.engine.height, seq |-> f.engine.seq,
                              hub |-> f.engine.hub]
<1>1. CASE UsesCached(engine, p)
  BY <1>1 DEF ForCommit, UsesCached, PendingFresh, EngineShape
<1>2. CASE ~UsesCached(engine, p)
  BY <1>2 DEF ForCommit, Cached, EngineShape
<1>3. QED  BY <1>1, <1>2

-----------------------------------------------------------------------------
(***************************************************************************)
(* The state.                                                              *)
(***************************************************************************)

\* The empty node is in the state of the empty chain.
LEMMA StateInit == Init => StateInv
<1> SUFFICES ASSUME Init PROVE StateInv
  OBVIOUS
<1>1. Len(decided) = 0 /\ Len(chunks) = 0 /\ Len(canon) = 1 /\ canon[1] = EmptyAccount
  BY DEF Init
<1>2. IsSequence(decided) /\ IsSequence(chunks) /\ IsSequence(canon)
  BY DEF Init, IsSequence
<1>3. EngineShape /\ engine.db = EmptyAccount
  BY DEF Init, EngineShape, NewEngine
<1>4. ChainSound /\ ChunksSound /\ RootOfDecidedPrefix
  BY <1>1, <1>2, <1>3 DEF Init, ChainSound, ChunksSound, RootOfDecidedPrefix
<1>5. PendingFresh /\ BatchDecided
  BY DEF Init, PendingFresh, BatchDecided
<1>6. QED  BY <1>3, <1>4, <1>5 DEF StateInv

\* Deciding a proposal extends the chain under the node.
LEMMA StatePeersDecide ==
    ASSUME StateInv, NEW p, PeersDecide(p)
    PROVE  StateInv'
<1> DEFINE h == Len(decided) + 1
           a == Replay(canon[h], p.txn).account
<1>1. /\ p.height = h /\ p.root = Root(a)
      /\ decided' = Append(decided, p) /\ canon' = Append(canon, a)
      /\ UNCHANGED <<engine, chunks, step, current, height, round>>
  BY DEF PeersDecide, nodeVars, consVars, commitVars
<1> HIDE DEF a
<1>2. /\ IsSequence(decided') /\ Len(decided') = Len(decided) + 1
      /\ \A i \in 1..Len(decided) : decided'[i] = decided[i]
      /\ decided'[Len(decided) + 1] = p
  BY <1>1, AppendSequence DEF StateInv, ChainSound
<1>3. /\ IsSequence(canon') /\ Len(canon') = Len(canon) + 1
      /\ \A i \in 1..Len(canon) : canon'[i] = canon[i]
      /\ canon'[Len(canon) + 1] = a
  BY <1>1, AppendSequence DEF StateInv, ChainSound
<1>4. Len(decided) \in Nat /\ Len(canon) = Len(decided) + 1 /\ Len(chunks) \in Nat
      /\ Len(chunks) <= Len(decided)
  BY DEF StateInv, ChainSound, ChunksSound, IsSequence
<1>5. ChainSound'
  <2> SUFFICES ASSUME NEW i \in 1..Len(decided')
               PROVE  decided'[i].height = i /\ decided'[i].root = Root(canon'[i + 1])
    BY <1>2, <1>3, <1>4 DEF ChainSound, Root
  <2>1. CASE i = h
    BY <2>1, <1>1, <1>2, <1>3, <1>4
  <2>2. CASE i \in 1..Len(decided)
    BY <2>2, <1>2, <1>3, <1>4 DEF StateInv, ChainSound
  <2>3. QED  BY <2>1, <2>2, <1>2, <1>4
<1>6. ChunksSound'
  BY <1>1, <1>2, <1>4 DEF StateInv, ChunksSound, IsSequence, ShardHash
<1>7. RootOfDecidedPrefix'
  BY <1>1, <1>2, <1>3, <1>4 DEF StateInv, RootOfDecidedPrefix, Root
<1>8. BatchDecided'
  <2> SUFFICES ASSUME step = "stored"
               PROVE  /\ height <= Len(decided')
                      /\ ShardHash(current) = ShardHash(decided'[height])
                      /\ Root(engine.db) = Root(canon'[height + 1])
    BY <1>1 DEF BatchDecided, ShardHash, Root
  <2>1. height \in 1..Len(decided) /\ height + 1 \in 1..Len(canon)
    BY <1>4 DEF StateInv, BatchDecided, ChunksSound
  <2>2. QED  BY <2>1, <1>2, <1>3, <1>4 DEF StateInv, BatchDecided
<1>9. EngineShape' /\ PendingFresh'
  BY <1>1 DEF StateInv, EngineShape, PendingFresh, Root
<1>10. QED  BY <1>5, <1>6, <1>7, <1>8, <1>9 DEF StateInv

\* Steps that leave the database, the chunks and the chain alone need only
\* keep the cached transaction fresh.
LEMMA StateKept ==
    ASSUME StateInv, EngineShape', PendingFresh', engine'.db = engine.db,
           UNCHANGED <<chunks, decided, canon, step, current, height>>
    PROVE  StateInv'
<1>1. ChainSound' /\ ChunksSound'
  BY DEF StateInv, ChainSound, ChunksSound, IsSequence, ShardHash, Root
<1>2. BatchDecided' /\ RootOfDecidedPrefix'
  BY DEF StateInv, BatchDecided, RootOfDecidedPrefix, ShardHash, Root
<1>3. QED  BY <1>1, <1>2 DEF StateInv

\* What propose_state_change and validate_state_change cache is computed on
\* the database.
LEMMA CachedFresh ==
    ASSUME EngineShape, NEW txn
    PROVE  /\ Cached(engine, txn).base = engine.db
           /\ Cached(engine, txn).root = Root(Cached(engine, txn).account)
  BY DEF Cached

\* start_round drops the cached transaction.
LEMMA StateStartedRound == ASSUME StateInv, StartedRound PROVE StateInv'
<1>1. /\ engine' = StartRound(engine, height)
      /\ UNCHANGED <<chunks, decided, canon, step, current, height>>
  BY DEF StartedRound, commitVars, netVars
<1>2. EngineShape' /\ engine'.db = engine.db /\ engine'.pending = None
  BY <1>1 DEF StartRound, StateInv, EngineShape
<1>3. PendingFresh'
  BY <1>2 DEF PendingFresh
<1>4. QED  BY <1>1, <1>2, <1>3, StateKept

\* A value asked for again, or a new one with its batch cached.
LEMMA StateGetValue == ASSUME StateInv, GetValue PROVE StateInv'
<1>1. UNCHANGED <<chunks, decided, canon, step, current, height, round>>
  BY DEF GetValue, ReuseProposal, NewProposal, nodeVars, commitVars
<1>2. CASE UNCHANGED engine
  <2>1. EngineShape' /\ PendingFresh'
    BY <1>1, <1>2 DEF StateInv, EngineShape, PendingFresh, Root
  <2>2. QED  BY <1>1, <1>2, <2>1, StateKept
<1>3. ASSUME NEW txn, engine' = ProposeStateChange(engine, txn) PROVE StateInv'
  <2> DEFINE c == Cached(engine, txn)
  <2>1. c.base = engine.db /\ c.root = Root(c.account)
    BY CachedFresh DEF StateInv
  <2>2. engine' = [engine EXCEPT !.pending = c, !.seq = SeqAfter(engine, c)]
    BY <1>3 DEF ProposeStateChange
  <2> HIDE DEF c
  <2>3. EngineShape' /\ engine'.db = engine.db /\ engine'.pending = c
    BY <2>2 DEF StateInv, EngineShape
  <2>4. PendingFresh'
    BY <2>1, <2>3 DEF PendingFresh, Root
  <2>5. QED  BY <1>1, <2>3, <2>4, StateKept
<1>4. QED
  BY <1>2, <1>3 DEF GetValue, ReuseProposal, NewProposal, nodeVars

\* A proposal that validates replaces the cached transaction, one that does
\* not leaves it.
LEMMA StateReceive == ASSUME StateInv, NEW p, ReceiveProposal(p) PROVE StateInv'
<1>1. UNCHANGED <<chunks, decided, canon, step, current, height, round>>
  BY DEF ReceiveProposal, consVars, commitVars, netVars
<1>2. CASE UNCHANGED engine
  <2>1. EngineShape' /\ PendingFresh'
    BY <1>1, <1>2 DEF StateInv, EngineShape, PendingFresh, Root
  <2>2. QED  BY <1>1, <1>2, <2>1, StateKept
<1>3. CASE engine' = ValidateStateChange(engine, p)
  <2> DEFINE c == Cached(engine, p.txn)
             q == IF StateChangeValid(engine, p) THEN c ELSE engine.pending
  <2>1. c.base = engine.db /\ c.root = Root(c.account)
    BY CachedFresh DEF StateInv
  <2>2. engine' = [engine EXCEPT !.pending = q, !.seq = SeqAfter(engine, c)]
    BY <1>3 DEF ValidateStateChange
  <2>3. q = c \/ q = engine.pending
    OBVIOUS
  <2> HIDE DEF c, q
  <2>4. EngineShape' /\ engine'.db = engine.db /\ engine'.pending = q
    BY <2>2 DEF StateInv, EngineShape
  <2>5. PendingFresh'
    BY <1>1, <2>1, <2>3, <2>4 DEF StateInv, PendingFresh, Root
  <2>6. QED  BY <1>1, <2>4, <2>5, StateKept
<1>4. QED  BY <1>2, <1>3 DEF ReceiveProposal

\* A restarted height has no round yet.
LEMMA StateRestartHeight == ASSUME StateInv, RestartHeight PROVE StateInv'
<1>1. UNCHANGED <<engine, chunks, decided, canon, step, current, height>>
      /\ round' = NilRound
  BY DEF RestartHeight, nodeVars, commitVars, netVars
<1>2. EngineShape' /\ PendingFresh'
  BY <1>1 DEF StateInv, EngineShape, PendingFresh
<1>3. QED  BY <1>1, <1>2, StateKept

\* The write of the batch: from the root of the stored chunks to that of
\* the decided one.  The panic writes nothing.
LEMMA StateDecideStore == ASSUME StateInv, NEW p, DecideStore(p) PROVE StateInv'
<1> DEFINE f == ForCommit(engine, p)
<1>1. /\ step = "idle" /\ round # NilRound /\ height <= Len(decided)
      /\ ShardHash(p) = ShardHash(decided[height])
      /\ current' = p
      /\ UNCHANGED <<chunks, decided, canon, height, round>>
  BY DEF DecideStore, DecisionReady, Found, consVars, netVars
<1>2. \/ /\ f.txn.root = p.root /\ engine' = CommitBatch(f.engine, f.txn)
         /\ step' = "stored"
      \/ engine' = f.engine /\ step' = "panicked"
  <2>1. UsesCached(engine, p) => f.txn.root = p.root
    BY DEF UsesCached, ForCommit
  <2>2. QED  BY <2>1 DEF DecideStore
<1>3. /\ f.txn.base = engine.db /\ f.txn.root = Root(f.txn.account)
      /\ f.engine.db = engine.db
      /\ f.engine = [db |-> f.engine.db, pending |-> f.engine.pending,
                     height |-> f.engine.height, seq |-> f.engine.seq,
                     hub |-> f.engine.hub]
  BY <1>1, ForCommitFresh DEF StateInv
<1> HIDE DEF f
<1>4. /\ height = Len(chunks) + 1 /\ Len(chunks) \in Nat /\ Len(decided) \in Nat
      /\ decided[height].root = Root(canon[height + 1])
  <2>1. height = Len(chunks) + 1 /\ Len(chunks) \in Nat /\ Len(decided) \in Nat
    BY <1>1 DEF StateInv, ChunksSound, ChainSound, IsSequence
  <2>2. QED  BY <1>1, <2>1 DEF StateInv, ChainSound
<1>5. ChainSound' /\ ChunksSound' /\ PendingFresh'
  <2>1. ChainSound'
    BY <1>1 DEF StateInv, ChainSound, IsSequence, Root
  <2>2. ChunksSound'
    BY <1>1, <1>2, <1>4 DEF StateInv, ChunksSound, IsSequence, ShardHash
  <2>3. PendingFresh'
    BY <1>2 DEF PendingFresh
  <2>4. QED  BY <2>1, <2>2, <2>3
<1>6. CASE f.txn.root = p.root /\ engine' = CommitBatch(f.engine, f.txn) /\ step' = "stored"
  <2>1. EngineShape' /\ engine'.db = ApplyBatch(f.engine.db, f.txn)
    BY <1>3, <1>6 DEF EngineShape, CommitBatch
  <2>2. Root(engine'.db) = p.root
    <3>1. f.txn.base = f.engine.db
      BY <1>3
    <3>2. Root(ApplyBatch(f.engine.db, f.txn)) = Root(f.txn.account)
      BY <3>1, ApplyRoot
    <3>3. QED  BY <1>3, <1>6, <2>1, <3>2 DEF Root
  <2>3. p.root = decided[height].root
    BY <1>1 DEF ShardHash
  <2>4. BatchDecided' /\ RootOfDecidedPrefix'
    BY <1>1, <1>4, <2>2, <2>3 DEF BatchDecided, RootOfDecidedPrefix, ShardHash, Root
  <2>5. QED  BY <1>5, <2>1, <2>4 DEF StateInv
<1>7. CASE engine' = f.engine /\ step' = "panicked"
  <2>1. EngineShape' /\ engine'.db = engine.db
    BY <1>3, <1>7 DEF EngineShape
  <2>2. BatchDecided' /\ RootOfDecidedPrefix'
    BY <1>1, <1>7, <2>1 DEF StateInv, BatchDecided, RootOfDecidedPrefix, Root
  <2>3. QED  BY <1>5, <2>1, <2>2 DEF StateInv
<1>8. QED  BY <1>2, <1>6, <1>7

\* The write of the chunk whose batch is in the database.
LEMMA StateDecidePut == ASSUME StateInv, DecidePut PROVE StateInv'
<1>1. /\ step = "stored" /\ step' = "put" /\ chunks' = Append(chunks, current)
      /\ UNCHANGED <<engine, decided, canon, height, round, current>>
  BY DEF DecidePut, consVars, netVars
<1>2. /\ IsSequence(chunks') /\ Len(chunks') = Len(chunks) + 1
      /\ \A i \in 1..Len(chunks) : chunks'[i] = chunks[i]
      /\ chunks'[Len(chunks) + 1] = current
  BY <1>1, AppendSequence DEF StateInv, ChunksSound
<1>3. /\ height = Len(chunks) + 1 /\ Len(chunks) \in Nat /\ Len(decided) \in Nat
      /\ height <= Len(decided)
      /\ ShardHash(current) = ShardHash(decided[height])
      /\ Root(engine.db) = Root(canon[height + 1])
  BY <1>1 DEF StateInv, ChunksSound, ChainSound, BatchDecided, IsSequence
<1>4. ChunksSound'
  <2>1. ASSUME NEW i \in 1..Len(chunks')
        PROVE  ShardHash(chunks'[i]) = ShardHash(decided[i])
    <3>1. CASE i \in 1..Len(chunks)
      BY <3>1, <1>2 DEF StateInv, ChunksSound
    <3>2. CASE i = Len(chunks) + 1
      BY <3>2, <1>2, <1>3
    <3>3. QED  BY <3>1, <3>2, <1>2, <1>3
  <2>2. QED  BY <1>1, <1>2, <1>3, <2>1 DEF ChunksSound, ShardHash
<1>5. EngineShape' /\ ChainSound' /\ PendingFresh' /\ BatchDecided'
  BY <1>1 DEF StateInv, EngineShape, ChainSound, PendingFresh, BatchDecided,
              IsSequence, Root
<1>6. RootOfDecidedPrefix'
  BY <1>1, <1>2, <1>3 DEF RootOfDecidedPrefix, Root
<1>7. QED  BY <1>4, <1>5, <1>6 DEF StateInv

\* The next height, and the height after the confirmed one on a restart.
LEMMA StateDecideEnd == ASSUME StateInv, DecideEnd PROVE StateInv'
<1>1. /\ step = "put" /\ step' = "idle" /\ round' = NilRound /\ height' = height + 1
      /\ UNCHANGED <<engine, chunks, decided, canon>>
  BY DEF DecideEnd, netVars
<1>2. EngineShape' /\ ChainSound' /\ PendingFresh' /\ BatchDecided'
  BY <1>1 DEF StateInv, EngineShape, ChainSound, PendingFresh, BatchDecided,
              IsSequence, Root
<1>3. ChunksSound' /\ RootOfDecidedPrefix'
  BY <1>1 DEF StateInv, ChunksSound, RootOfDecidedPrefix, IsSequence, ShardHash, Root
<1>4. QED  BY <1>2, <1>3 DEF StateInv

\* What a crash leaves.
LEMMA StateCrash == ASSUME StateInv, Crash PROVE StateInv'
<1>1. /\ engine' = Reopened(engine) /\ step' = "idle" /\ round' = NilRound
      /\ height' = Len(chunks) + 1
      /\ UNCHANGED <<chunks, decided, canon>>
  BY DEF Crash, netVars, ConfirmedHeight
<1>2. EngineShape' /\ engine'.db = engine.db
  BY <1>1 DEF StateInv, EngineShape, Reopened
<1>3. ChainSound' /\ PendingFresh' /\ BatchDecided'
  BY <1>1 DEF StateInv, ChainSound, PendingFresh, BatchDecided, IsSequence, Root
<1>4. ChunksSound' /\ RootOfDecidedPrefix'
  BY <1>1, <1>2 DEF StateInv, ChunksSound, RootOfDecidedPrefix, IsSequence,
                    ShardHash, Root
<1>5. QED  BY <1>2, <1>3, <1>4 DEF StateInv

\* Every step keeps the node in the state of a decided prefix.
LEMMA StateStep == StateInv /\ [Next]_vars => StateInv'
<1> SUFFICES ASSUME StateInv, [Next]_vars PROVE StateInv'
  OBVIOUS
<1>1. ASSUME UNCHANGED <<engine, chunks, decided, canon, step, current, height, round>>
      PROVE  StateInv'
  BY <1>1 DEF StateInv, EngineShape, ChainSound, ChunksSound, PendingFresh,
              BatchDecided, RootOfDecidedPrefix, IsSequence, ShardHash, Root
<1>2. ASSUME NEW r, NEW txn, NEW ts, NEW good, PeerPropose(r, txn, ts, good)
      PROVE  StateInv'
  BY <1>1, <1>2 DEF PeerPropose, nodeVars, consVars, commitVars
<1>3. CASE UNCHANGED vars
  BY <1>1, <1>3 DEF vars, nodeVars, consVars, commitVars, netVars
<1>4. CASE Host
  BY <1>4, StateStartedRound, StateGetValue, StateReceive, StateRestartHeight,
     StateDecideStore, StateDecidePut, StateDecideEnd DEF Host
<1>5. QED
  BY <1>2, <1>3, <1>4, StatePeersDecide, StateCrash DEF Next

\* The inductive invariant holds: a commit starts from a root of the decided
\* chain and a cached batch that was computed on it.
THEOREM StateInvariance == Spec => []StateInv
<1>1. QED  BY StateInit, StateStep, PTL DEF Spec

\* Whatever rounds, proposals and crashes there are, the state root of the
\* node is that of a decided prefix, at most one chunk ahead of its store.
THEOREM RootAlwaysOfDecidedPrefix == Spec => []RootOfDecidedPrefix
<1>1. StateInv => RootOfDecidedPrefix
  BY DEF StateInv
<1>2. QED  BY <1>1, StateInvariance, PTL

\* Every chunk the node stores has the header decided at its height, and its
\* shard root is the root of the decided state.
THEOREM StoredChunksAlwaysDecided == Spec => []StoredChunksDecided
<1>1. StateInv => StoredChunksDecided
  <2> SUFFICES ASSUME StateInv PROVE StoredChunksDecided
    OBVIOUS
  <2>1. Len(chunks) \in Nat /\ DOMAIN chunks = 1..Len(chunks)
        /\ Len(chunks) <= Len(decided) /\ Len(decided) \in Nat
    BY DEF StateInv, ChunksSound, ChainSound, IsSequence
  <2>2. ASSUME NEW h \in 1..Len(chunks)
        PROVE  /\ ShardHash(chunks[h]) = ShardHash(decided[h])
               /\ chunks[h].root = Root(canon[h + 1])
    <3>1. ShardHash(chunks[h]) = ShardHash(decided[h])
      BY DEF StateInv, ChunksSound
    <3>2. decided[h].root = Root(canon[h + 1])
      BY <2>1 DEF StateInv, ChainSound
    <3>3. chunks[h].root = decided[h].root
      BY <3>1 DEF ShardHash
    <3>4. QED  BY <3>1, <3>2, <3>3
  <2>3. QED  BY <2>1, <2>2 DEF StoredChunksDecided
<1>2. QED  BY <1>1, StateInvariance, PTL

-----------------------------------------------------------------------------
(***************************************************************************)
(* The node's own proposals.                                               *)
(***************************************************************************)

\* Every step keeps one own proposal for a round, stored as long as its
\* height can come up again.
LEMMA OwnStep == StateInv /\ OwnInv /\ [Next]_vars => OwnInv'
<1> SUFFICES ASSUME StateInv, OwnInv, [Next]_vars PROVE OwnInv'
  OBVIOUS
<1> USE DEF OwnInv, NoEquivocation
<1>1. ASSUME UNCHANGED <<offers, local, height, step>> PROVE OwnInv'
  BY <1>1
<1>2. ASSUME NEW r, NEW txn, NEW ts, NEW good, PeerPropose(r, txn, ts, good)
      PROVE  OwnInv'
  <2> DEFINE h == Len(decided) + 1
             root == IF good THEN Root(Replay(canon[h], txn).account) ELSE None
             c == Chunk(h, r, ts, root, txn, FALSE)
  <2>1. offers' = offers \cup {c} /\ c.own = FALSE
    BY <1>2 DEF PeerPropose, Chunk
  <2> HIDE DEF c
  <2>2. UNCHANGED <<local, height, step>>
    BY <1>2 DEF PeerPropose, nodeVars, consVars, commitVars
  <2>3. QED  BY <2>1, <2>2
<1>3. CASE GetValue
  <2>1. UNCHANGED <<height, step>> /\ step = "idle"
    BY <1>3 DEF GetValue, commitVars
  <2>2. ASSUME NEW p, ReuseProposal(p) PROVE OwnInv'
    BY <2>1, <2>2 DEF ReuseProposal, nodeVars
  <2>3. ASSUME NEW txn, NEW ts, NewProposal(txn, ts) PROVE OwnInv'
    <3>1. PICK c : /\ c.height = height /\ c.round = round
                   /\ local' = local \cup {c} /\ offers' = offers \cup {c}
                   /\ \A q \in local : q.height # height \/ q.round # round
      BY <2>3 DEF NewProposal, StoredProposal, Chunk
    <3>2. height \in Nat
      BY DEF StateInv, ChunksSound, IsSequence
    <3>3. QED  BY <2>1, <3>1, <3>2
  <2>4. QED  BY <1>3, <2>2, <2>3 DEF GetValue
<1>4. CASE DecidePut
  BY <1>4 DEF DecidePut, consVars, netVars
<1>5. CASE DecideEnd
  <2>1. height \in Nat
    BY DEF StateInv, ChunksSound, IsSequence
  <2>2. QED  BY <1>5, <2>1 DEF DecideEnd, netVars
<1>6. CASE Crash
  <2>1. /\ height \in Nat
        /\ height' = IF step = "put" THEN height + 1 ELSE height
        /\ step' = "idle"
        /\ UNCHANGED <<offers, local>>
    BY <1>6 DEF Crash, StateInv, ChunksSound, IsSequence, ConfirmedHeight, netVars
  <2>2. QED  BY <2>1
<1>7. ASSUME NEW p, DecideStore(p) PROVE OwnInv'
  BY <1>7 DEF DecideStore, DecisionReady, consVars, netVars
<1>8. ASSUME NEW p, ReceiveProposal(p) PROVE OwnInv'
  BY <1>1, <1>8 DEF ReceiveProposal, consVars, commitVars, netVars
<1>9. ASSUME NEW p, PeersDecide(p) PROVE OwnInv'
  BY <1>1, <1>9 DEF PeersDecide, nodeVars, consVars, commitVars
<1>10. CASE StartedRound
  BY <1>1, <1>10 DEF StartedRound, commitVars, netVars
<1>11. CASE RestartHeight
  BY <1>1, <1>11 DEF RestartHeight, nodeVars, commitVars, netVars
<1>12. CASE UNCHANGED vars
  BY <1>1, <1>12 DEF vars, nodeVars, consVars, commitVars, netVars
<1>13. QED
  BY <1>2, <1>3, <1>4, <1>5, <1>6, <1>7, <1>8, <1>9, <1>10, <1>11, <1>12
  DEF Next, Host

\* A validator never proposes two values in one round of a height: a crash
\* or a restarted height makes it propose the stored value again.
THEOREM NeverEquivocates == Spec => []NoEquivocation
<1>1. Init => OwnInv
  BY DEF Init, OwnInv, NoEquivocation
<1>2. OwnInv => NoEquivocation
  BY DEF OwnInv
<1>3. QED  BY <1>1, <1>2, OwnStep, StateInvariance, PTL DEF Spec
=============================================================================
