--------------------------- MODULE ReadNodeProofs ---------------------------
(***************************************************************************)
(* Proofs that a read node commits the decided values in height order,     *)
(* each once and verified, keeps its buffer behind the gap and within its  *)
(* bound, and that its sync actor does not fall behind, for every bound.   *)
(***************************************************************************)
EXTENDS ReadNode, FiniteSetTheorems, SequenceTheorems, TLAPS

\* The inductive invariant.
Inv ==
    /\ TypeOK
    /\ CommittedInOrder
    /\ BufferBehindGap
    /\ BufferBounded
    /\ SyncFollowsHost

-----------------------------------------------------------------------------
\* The buffered heights are a finite set.
LEMMA BufferedFinite == IsFiniteSet(Buffered)
  <1>1. IsFiniteSet(1..MaxHeight)
    BY FS_Interval, ReadNodeAssumption
  <1>2. Buffered \subseteq 1..MaxHeight
    BY DEF Buffered, Height
  <1>3. QED
    BY <1>1, <1>2, FS_Subset

\* The confirmed height of an ordered store is the height of its last value.
LEMMA ConfirmedIsLast ==
  ASSUME TypeOK, CommittedInOrder
  PROVE  ConfirmedHeight = last
  BY DEF TypeOK, CommittedInOrder, ConfirmedHeight

\* Appending the value of the next height keeps the store in order.
LEMMA CommitKeepsOrder ==
  ASSUME TypeOK, CommittedInOrder, NEW v \in Value,
         v.accepted, v.height = last + 1, CommitDecidedValue(v)
  PROVE  /\ CommittedInOrder'
         /\ chain' \in Seq(Value)
         /\ last' = last + 1
         /\ last' \in 0..MaxHeight
  <1>1. /\ chain' = Append(chain, v) /\ last' = last + 1
        /\ chain \in Seq(Value) /\ Len(chain) = last /\ last \in Nat
    BY ReadNodeAssumption DEF CommitDecidedValue, TypeOK, CommittedInOrder
  <1>2. chain' \in Seq(Value) /\ Len(chain') = last + 1
    BY <1>1
  <1>3. last' \in 0..MaxHeight
    BY <1>1, ReadNodeAssumption DEF Value, Height
  <1>4. \A i \in 1..Len(chain') : chain'[i].height = i /\ chain'[i].accepted
    BY <1>1, <1>2 DEF CommittedInOrder
  <1>5. QED
    BY <1>1, <1>2, <1>3, <1>4 DEF CommittedInOrder

\* The inductive invariant holds initially.
LEMMA InvInit == Init => Inv
  <1> SUFFICES ASSUME Init PROVE Inv
    OBVIOUS
  <1>1. Buffered = {}
    BY DEF Init, Buffered
  <1>2. BufferBounded
    BY <1>1, FS_EmptySet, ReadNodeAssumption DEF BufferBounded
  <1>3. TypeOK
    <2>1. /\ chain \in Seq(Value) /\ hostMail \in Seq(Value)
          /\ buffer \in [Height -> Value \cup {None}]
      BY DEF Init
    <2>2. 0 \in 0..MaxHeight /\ 0 \in 0..(MaxHeight + 1) /\ 0 \in 0..MaxRestarts
      BY ReadNodeAssumption
    <2>3. syncMail \in Seq(0..MaxHeight)
      BY <2>2 DEF Init
    <2>4. QED
      BY <2>1, <2>2, <2>3 DEF Init, TypeOK
  <1>4. QED
    BY <1>1, <1>2, <1>3
       DEF Init, Inv, CommittedInOrder, BufferBehindGap, SyncFollowsHost

-----------------------------------------------------------------------------
(***************************************************************************)
(* One lemma per action of the host; the other actions leave its state     *)
(* alone.                                                                  *)
(***************************************************************************)

\* A buffer that gains at most one height, and only below the bound.
LEMMA BufferInsert ==
  ASSUME Inv, NEW v \in Value, v.accepted, v.height > last + 1,
         Cardinality(Buffered) < MaxBuffered,
         buffer' = [buffer EXCEPT ![v.height] = v]
  PROVE  /\ buffer' \in [Height -> Value \cup {None}]
         /\ Buffered' = Buffered \cup {v.height}
         /\ BufferBounded'
         /\ \A h \in Buffered' : buffer'[h].height = h /\ buffer'[h].accepted
  <1>1. v.height \in Height /\ v # None
    BY ReadNodeAssumption DEF Value
  <1>2. buffer \in [Height -> Value \cup {None}]
    BY DEF Inv, TypeOK
  <1>3. Buffered' = Buffered \cup {v.height}
    BY <1>1, <1>2 DEF Buffered
  <1>4. Cardinality(Buffered') <= Cardinality(Buffered) + 1
    <2>1. CASE v.height \in Buffered
      <3>1. Buffered' = Buffered
        BY <1>3, <2>1
      <3>2. QED
        BY <3>1, BufferedFinite, FS_CardinalityType
    <2>2. CASE v.height \notin Buffered
      <3>1. Cardinality(Buffered \cup {v.height}) = Cardinality(Buffered) + 1
        BY <2>2, BufferedFinite, FS_AddElement
      <3>2. Cardinality(Buffered) \in Nat
        BY BufferedFinite, FS_CardinalityType
      <3> HIDE DEF Buffered
      <3>3. QED
        BY <1>3, <3>1, <3>2
    <2>3. QED
      BY <2>1, <2>2
  <1>5. Cardinality(Buffered) \in Nat /\ MaxBuffered \in Nat
    BY BufferedFinite, FS_CardinalityType, ReadNodeAssumption
  <1>6. IsFiniteSet(Buffered')
    BY <1>3, BufferedFinite, FS_AddElement
  <1>7. BufferBounded'
    BY <1>4, <1>5, <1>6, FS_CardinalityType DEF BufferBounded
  <1>8. \A h \in Buffered' : buffer'[h].height = h /\ buffer'[h].accepted
    BY <1>1, <1>2, <1>3 DEF Inv, BufferBehindGap, Buffered
  <1>9. QED
    BY <1>1, <1>2, <1>3, <1>7, <1>8

\* process_decided_value: each of its outcomes keeps the invariant.
LEMMA ProcessKeepsInv == Inv /\ ProcessDecidedValue => Inv'
  <1> SUFFICES ASSUME Inv, ProcessDecidedValue PROVE Inv'
    OBVIOUS
  <1> DEFINE v == Head(hostMail)
  <1>1. /\ v \in Value /\ hostMail' \in Seq(Value)
    BY DEF ProcessDecidedValue, Inv, TypeOK
  <1>2. CASE UNCHANGED <<chain, hostVars>>
    <2>1. Buffered' = Buffered
      BY <1>2 DEF Buffered, hostVars
    <2>2. TypeOK'
      BY <1>1, <1>2 DEF ProcessDecidedValue, Inv, TypeOK, hostVars, syncVars,
                        netVars
    <2>3. QED
      BY <1>2, <2>1, <2>2
         DEF ProcessDecidedValue, Inv, CommittedInOrder, BufferBehindGap,
             BufferBounded, SyncFollowsHost, hostVars, syncVars
  <1>3. CASE /\ v.accepted
             /\ v.height > last + 1
             /\ Cardinality(Buffered) < MaxBuffered
             /\ buffer' = [buffer EXCEPT ![v.height] = v]
             /\ UNCHANGED <<chain, last, draining>>
    <2>1. /\ buffer' \in [Height -> Value \cup {None}]
          /\ Buffered' = Buffered \cup {v.height}
          /\ BufferBounded'
          /\ \A h \in Buffered' : buffer'[h].height = h /\ buffer'[h].accepted
      BY <1>1, <1>3, BufferInsert
    <2>2. TypeOK'
      BY <1>1, <1>3, <2>1 DEF ProcessDecidedValue, Inv, TypeOK, syncVars, netVars
    <2>3. BufferBehindGap'
      BY <1>3, <2>1 DEF Inv, BufferBehindGap
    <2>4. QED
      BY <1>3, <2>1, <2>2, <2>3
         DEF ProcessDecidedValue, Inv, CommittedInOrder, SyncFollowsHost, syncVars
  <1>4. CASE /\ v.accepted
             /\ v.height = last + 1
             /\ CommitDecidedValue(v)
             /\ draining' = TRUE
             /\ UNCHANGED buffer
    <2>1. /\ CommittedInOrder'
          /\ chain' \in Seq(Value)
          /\ last' \in 0..MaxHeight
      BY <1>1, <1>4, CommitKeepsOrder DEF Inv
    <2>2. TypeOK'
      BY <1>1, <1>4, <2>1 DEF ProcessDecidedValue, Inv, TypeOK, syncVars, netVars
    <2>3. Buffered' = Buffered
      BY <1>4 DEF Buffered
    <2>4. QED
      BY <1>4, <2>1, <2>2, <2>3
         DEF Inv, BufferBehindGap, BufferBounded, SyncFollowsHost
  <1>5. QED
    BY <1>2, <1>3, <1>4 DEF ProcessDecidedValue, HasRoom, hostVars

\* A turn of process_buffered_blocks.
LEMMA DrainKeepsInv ==
  ASSUME Inv, NEW h \in Height, DrainBuffered(h)
  PROVE  Inv'
  <1>1. /\ buffer \in [Height -> Value \cup {None}]
        /\ buffer[h] \in Value /\ buffer[h].height = h /\ buffer[h].accepted
        /\ draining' = draining /\ draining
    BY DEF DrainBuffered, Inv, TypeOK, BufferBehindGap, Buffered
  <1>2. /\ buffer' \in [Height -> Value \cup {None}]
        /\ Buffered' = Buffered \ {h}
        /\ \A g \in Buffered' : buffer'[g] = buffer[g]
    BY <1>1 DEF DrainBuffered, Buffered
  <1>3. BufferBounded'
    <2>1. Cardinality(Buffered') <= Cardinality(Buffered)
      BY <1>2, BufferedFinite, FS_Subset
    <2>2. /\ Cardinality(Buffered') \in Nat /\ Cardinality(Buffered) \in Nat
      BY <1>2, BufferedFinite, FS_Subset, FS_CardinalityType
    <2>3. QED
      BY <2>1, <2>2, ReadNodeAssumption DEF Inv, BufferBounded
  <1>4. BufferBehindGap'
    BY <1>1, <1>2 DEF Inv, BufferBehindGap
  <1>5. /\ CommittedInOrder'
        /\ chain' \in Seq(Value)
        /\ last' \in 0..MaxHeight
    <2>1. CASE h = last + 1
      BY <1>1, <2>1, CommitKeepsOrder DEF DrainBuffered, Inv
    <2>2. CASE h # last + 1
      BY <2>2 DEF DrainBuffered, Inv, TypeOK, CommittedInOrder
    <2>3. QED
      BY <2>1, <2>2
  <1>6. TypeOK'
    BY <1>2, <1>5 DEF DrainBuffered, Inv, TypeOK, syncVars, netVars
  <1>7. QED
    BY <1>1, <1>3, <1>4, <1>5, <1>6 DEF Inv, SyncFollowsHost

\* The end of process_buffered_blocks and the message to the sync actor.
LEMMA DrainEndKeepsInv == Inv /\ DrainEnd => Inv'
  <1> SUFFICES ASSUME Inv, DrainEnd PROVE Inv'
    OBVIOUS
  <1>1. Buffered' = Buffered
    BY DEF DrainEnd, Buffered
  <1>2. /\ syncMail' \in Seq(0..MaxHeight)
        /\ syncMail' # << >> /\ syncMail'[Len(syncMail')] = last
    <2>1. /\ syncMail' = Append(syncMail, last)
          /\ syncMail \in Seq(0..MaxHeight) /\ last \in 0..MaxHeight
      BY DEF DrainEnd, Inv, TypeOK
    <2>2. /\ syncMail' \in Seq(0..MaxHeight)
          /\ Len(syncMail') = Len(syncMail) + 1
          /\ syncMail'[Len(syncMail) + 1] = last
      BY <2>1
    <2>3. QED
      BY <2>1, <2>2
  <1>3. TypeOK'
    BY <1>2 DEF DrainEnd, Inv, TypeOK, syncVars, netVars
  <1>4. QED
    BY <1>1, <1>2, <1>3
       DEF DrainEnd, Inv, CommittedInOrder, BufferBehindGap, BufferBounded,
           SyncFollowsHost

\* The sync actor takes the height the host sent.
LEMMA SyncDecidedKeepsInv == Inv /\ SyncDecided => Inv'
  <1> SUFFICES ASSUME Inv, SyncDecided PROVE Inv'
    OBVIOUS
  <1> DEFINE g == Head(syncMail)
  <1>1. /\ syncMail \in Seq(0..MaxHeight) /\ syncMail # << >>
        /\ g \in 0..MaxHeight /\ syncMail' = Tail(syncMail)
        /\ syncMail' \in Seq(0..MaxHeight)
        /\ MaxHeight \in Nat /\ status \in 0..MaxHeight
    BY ReadNodeAssumption DEF SyncDecided, Inv, TypeOK
  <1>2. /\ pending' \subseteq Height /\ outstanding' \subseteq Height
    <2>1. g + 1 <= status => g + 1 \in Height
      BY <1>1 DEF Height
    <2>2. RequestValue(g + 1, status, pending \ {g})
      BY DEF SyncDecided
    <2>3. pending \subseteq Height /\ outstanding \subseteq Height
      BY DEF Inv, TypeOK
    <2> HIDE DEF g
    <2>4. QED
      BY <2>1, <2>2, <2>3 DEF RequestValue
  <1>3. /\ tip' \in 0..MaxHeight /\ syncHeight' \in 0..(MaxHeight + 1)
        /\ syncHeight' = g + 1
    BY <1>1 DEF SyncDecided
  <1>4. TypeOK'
    BY <1>1, <1>2, <1>3 DEF SyncDecided, Inv, TypeOK, hostVars
  <1>5. Buffered' = Buffered
    BY DEF SyncDecided, hostVars, Buffered
  <1>6. SyncFollowsHost'
    <2>1. CASE Len(syncMail) = 1
      BY <1>1, <1>3, <2>1 DEF SyncDecided, Inv, SyncFollowsHost, hostVars
    <2>2. CASE Len(syncMail) # 1
      <3>1. /\ Len(syncMail) \in Nat /\ Len(syncMail) > 1
        <4>1. Len(syncMail) \in Nat \ {0}
          BY <1>1, EmptySeq, Zenon
        <4>2. QED
          BY <2>2, <4>1
      <3>2. /\ Len(syncMail') = Len(syncMail) - 1
            /\ syncMail'[Len(syncMail')] = syncMail[Len(syncMail)]
        BY <1>1, <3>1
      <3>3. syncMail' # << >>
        BY <3>1, <3>2
      <3>4. QED
        BY <1>1, <3>2, <3>3 DEF SyncDecided, Inv, SyncFollowsHost, hostVars
    <2>3. QED
      BY <2>1, <2>2
  <1>7. QED
    BY <1>4, <1>5, <1>6
       DEF SyncDecided, Inv, CommittedInOrder, BufferBehindGap, BufferBounded,
           hostVars

\* Steps that leave the store, the host and the sync actor's height and
\* mailbox alone keep the invariant if they keep the types.
LEMMA OthersKeepInv ==
  ASSUME Inv, TypeOK', UNCHANGED <<chain, hostVars, syncMail, syncHeight>>
  PROVE  Inv'
  <1>1. Buffered' = Buffered
    BY DEF Buffered, hostVars
  <1>2. QED
    BY <1>1 DEF Inv, CommittedInOrder, BufferBehindGap, BufferBounded,
                SyncFollowsHost, hostVars

\* A restart takes last_height from the store.
LEMMA RestartKeepsInv == Inv /\ Restart => Inv'
  <1> SUFFICES ASSUME Inv, Restart PROVE Inv'
    OBVIOUS
  <1>1. ConfirmedHeight = last
    BY ConfirmedIsLast DEF Inv
  <1>2. Buffered' = {}
    BY DEF Restart, Buffered
  <1>3. BufferBounded'
    BY <1>2, FS_EmptySet, ReadNodeAssumption DEF BufferBounded
  <1>4. TypeOK'
    <2>1. /\ last' \in 0..MaxHeight /\ syncMail' \in Seq(0..MaxHeight)
      BY <1>1 DEF Restart, Inv, TypeOK
    <2>2. /\ buffer' \in [Height -> Value \cup {None}]
          /\ hostMail' \in Seq(Value) /\ chain' \in Seq(Value)
          /\ peerTip' \in 0..MaxHeight
      BY DEF Restart, Inv, TypeOK
    <2>3. /\ 0 \in 0..MaxHeight /\ 0 \in 0..(MaxHeight + 1)
          /\ restarts' \in 0..MaxRestarts
      BY ReadNodeAssumption DEF Restart, Inv, TypeOK
    <2>4. QED
      BY <2>1, <2>2, <2>3 DEF Restart, TypeOK
  <1>5. CommittedInOrder' /\ SyncFollowsHost'
    BY <1>1 DEF Restart, Inv, CommittedInOrder, SyncFollowsHost
  <1>6. QED
    BY <1>2, <1>3, <1>4, <1>5 DEF Inv, BufferBehindGap

\* Every step keeps the inductive invariant.
LEMMA InvStep == Inv /\ [Next]_vars => Inv'
  <1> SUFFICES ASSUME Inv, [Next]_vars PROVE Inv'
    OBVIOUS
  <1>0. TypeOK
    BY DEF Inv
  <1>1. CASE ProcessDecidedValue
    BY <1>1, ProcessKeepsInv
  <1>2. CASE \E h \in Height : DrainBuffered(h)
    BY <1>2, DrainKeepsInv
  <1>3. CASE DrainEnd
    BY <1>3, DrainEndKeepsInv
  <1>4. CASE SyncDecided
    BY <1>4, SyncDecidedKeepsInv
  <1>5. CASE SyncStatus
    <2>1. /\ pending' \subseteq Height /\ outstanding' \subseteq Height
      <3>1. syncHeight # 0 /\ syncHeight <= peerTip => syncHeight \in Height
        BY <1>0, ReadNodeAssumption DEF TypeOK, Height
      <3>2. QED
        BY <1>0, <1>5, <3>1 DEF SyncStatus, RequestValue, TypeOK
    <2>2. TypeOK'
      BY <1>0, <1>5, <2>1 DEF SyncStatus, TypeOK, hostVars
    <2>3. QED
      BY <1>5, <2>2, OthersKeepInv DEF SyncStatus
  <1>6. ASSUME NEW h \in Height, SyncResponse(h) PROVE Inv'
    <2>1. hostMail' \in Seq(Value)
      BY <1>0, <1>6 DEF SyncResponse, TypeOK, Value
    <2>2. synced' \in BOOLEAN
      BY <1>6 DEF SyncResponse
    <2>3. TypeOK'
      BY <1>0, <1>6, <2>1, <2>2 DEF SyncResponse, TypeOK, hostVars
    <2>4. QED
      BY <1>6, <2>3, OthersKeepInv DEF SyncResponse
  <1>7. ASSUME NEW h \in Height, SyncTimeout(h) PROVE Inv'
    <2>1. TypeOK'
      BY <1>0, <1>7 DEF SyncTimeout, TypeOK, hostVars, netVars
    <2>2. QED
      BY <1>7, <2>1, OthersKeepInv DEF SyncTimeout
  <1>8. ASSUME NEW h \in Height, LoseRequest(h) PROVE Inv'
    <2>1. TypeOK'
      BY <1>0, <1>8 DEF LoseRequest, TypeOK, hostVars, syncVars
    <2>2. QED
      BY <1>8, <2>1, OthersKeepInv DEF LoseRequest, syncVars
  <1>9. CASE PeerConnected
    <2>1. TypeOK'
      BY <1>0, <1>9 DEF PeerConnected, TypeOK, hostVars, netVars
    <2>2. QED
      BY <1>9, <2>1, OthersKeepInv DEF PeerConnected
  <1>10. CASE PeerDisconnected
    <2>1. status' \in 0..MaxHeight /\ connected' \in BOOLEAN
      <3>1. 0 \in 0..MaxHeight
        BY ReadNodeAssumption
      <3>2. QED
        BY <1>10, <3>1 DEF PeerDisconnected
    <2>2. TypeOK'
      BY <1>0, <1>10, <2>1 DEF PeerDisconnected, TypeOK, hostVars, netVars
    <2>3. QED
      BY <1>10, <2>2, OthersKeepInv DEF PeerDisconnected
  <1>11. CASE PeersDecide
    <2>1. TypeOK'
      BY <1>0, <1>11, ReadNodeAssumption
         DEF PeersDecide, TypeOK, hostVars, syncVars
    <2>2. QED
      BY <1>11, <2>1, OthersKeepInv DEF PeersDecide, syncVars
  <1>12. ASSUME NEW v \in Value, Gossip(v) PROVE Inv'
    <2>1. hostMail' \in Seq(Value)
      BY <1>0, <1>12 DEF Gossip, TypeOK
    <2>2. TypeOK'
      BY <1>0, <1>12, <2>1 DEF Gossip, TypeOK, hostVars, syncVars, netVars
    <2>3. QED
      BY <1>12, <2>2, OthersKeepInv DEF Gossip, syncVars
  <1>13. CASE Restart
    BY <1>13, RestartKeepsInv
  <1>14. CASE UNCHANGED vars
    <2>1. TypeOK'
      BY <1>0, <1>14 DEF vars, TypeOK, hostVars, syncVars, netVars
    <2>2. QED
      BY <1>14, <2>1, OthersKeepInv DEF vars, syncVars
  <1>15. QED
    BY <1>1, <1>2, <1>3, <1>4, <1>5, <1>6, <1>7, <1>8, <1>9, <1>10, <1>11,
       <1>12, <1>13, <1>14 DEF Next

\* The inductive invariant holds in every reachable state.
THEOREM Invariance == Spec => []Inv
  BY InvInit, InvStep, PTL DEF Spec

\* Type correctness of the read node.
THEOREM TypeCorrect == Spec => []TypeOK
  <1>1. Inv => TypeOK
    BY DEF Inv
  <1>2. QED
    BY Invariance, <1>1, PTL

\* A read node's store is always the verified decided values of heights 1
\* to last_height, in order and without gaps (process_decided_value,
\* process_buffered_blocks, initialize_height).
THEOREM AlwaysCommittedInOrder == Spec => []CommittedInOrder
  <1>1. Inv => CommittedInOrder
    BY DEF Inv
  <1>2. QED
    BY Invariance, <1>1, PTL

\* A value that could be committed never waits in the buffer, and the
\* buffer keeps within max_num_buffered_blocks.
THEOREM BufferAlwaysBehindGap == Spec => [](BufferBehindGap /\ BufferBounded)
  <1>1. Inv => BufferBehindGap /\ BufferBounded
    BY DEF Inv
  <1>2. QED
    BY Invariance, <1>1, PTL

\* The sync actor never stays behind the host: it asks for the next height
\* or has been told to (the Decided messages of read_host.rs).
THEOREM SyncAlwaysFollowsHost == Spec => []SyncFollowsHost
  <1>1. Inv => SyncFollowsHost
    BY DEF Inv
  <1>2. QED
    BY Invariance, <1>1, PTL
=============================================================================
