------------------------------ MODULE ReadNode ------------------------------
(***************************************************************************)
(* A read node following one shard: the ReadValidator that commits decided *)
(* values in height order (src/src/consensus/read_validator.rs), the       *)
(* ReadHost actor around it (malachite/read_host.rs), the ReadSync actor   *)
(* that requests missing heights from peers (malachite/read_sync.rs), and  *)
(* the gossip of decided values that starts once the initial sync is done  *)
(* (main.rs).                                                              *)
(*                                                                         *)
(* The actors run concurrently and talk through mailboxes.  The sync state *)
(* machine of the consensus library is external: syncHeight, pending and   *)
(* RequestValue model it from how read_sync.rs drives it.  The peers are   *)
(* one logical peer whose chain grows; messages between it and the node    *)
(* are lost, delayed and reordered, and gossip repeats values.             *)
(***************************************************************************)
EXTENDS Integers, Sequences, FiniteSets

CONSTANTS
    MaxHeight,       \* the heights the peers decide (a bound)
    MaxBuffered,     \* max_num_buffered_blocks
    SyncThreshold,   \* the initial sync is done this close to the peers
    MaxMail,         \* bound on the gossip in the host's mailbox
    MaxRestarts,     \* bound on the restarts of the node
    None             \* no buffered value

Height == 1..MaxHeight

\* A decided value as it arrives: verify_signatures and
\* validate_protocol_version accept it, or one of them does not.
Value == [height : Height, accepted : BOOLEAN]

ASSUME ReadNodeAssumption ==
    /\ MaxHeight \in Nat \ {0}
    /\ MaxBuffered \in Nat
    /\ SyncThreshold \in Nat
    /\ MaxMail \in Nat \ {0}
    /\ MaxRestarts \in Nat
    /\ None \notin Value

VARIABLES
    chain,           \* the values in the store, in the order committed
    \* ReadValidator and ReadHost
    last,            \* last_height
    buffer,          \* buffered_blocks
    draining,        \* inside process_buffered_blocks
    hostMail,        \* ProcessDecidedValue messages
    \* ReadSync
    syncMail,        \* Decided messages, as the heights they carry
    syncHeight,      \* the height to request next
    tip,             \* the last height reported to the sync state machine
    pending,         \* heights requested and neither answered nor timed out
    status,          \* the height in the peer's last status, 0 if none
    connected,       \* the peer is in connected_peers
    synced,          \* initial_sync_completed, gossip is subscribed to
    \* the network and the peers
    peerTip,         \* the height the peers have decided
    outstanding,     \* requests that may still be answered
    restarts

hostVars == <<last, buffer, draining>>
syncVars == <<syncHeight, tip, pending, status, connected, synced>>
netVars  == <<peerTip, outstanding>>
vars == <<chain, hostVars, hostMail, syncMail, syncVars, netVars, restarts>>

\* get_confirmed_height: the highest height in the store.
ConfirmedHeight == IF chain = << >> THEN 0 ELSE chain[Len(chain)].height

Buffered == {h \in Height : buffer[h] # None}

\* A node with an empty store has started: last_height is the confirmed
\* height of the engine and the sync actor has been told.
Init ==
    /\ chain = << >>
    /\ last = 0
    /\ buffer = [h \in Height |-> None]
    /\ draining = FALSE
    /\ hostMail = << >>
    /\ syncMail = <<0>>
    /\ syncHeight = 0
    /\ tip = 0
    /\ pending = {}
    /\ status = 0
    /\ connected = FALSE
    /\ synced = FALSE
    /\ peerTip = 0
    /\ outstanding = {}
    /\ restarts = 0

-----------------------------------------------------------------------------
(***************************************************************************)
(* ReadHost and ReadValidator.                                             *)
(***************************************************************************)

\* With a bug: last_height is not advanced.
CommitKeepsHeight(v) ==
    /\ chain' = Append(chain, v)
    /\ UNCHANGED last

\* commit_decided_value.
CommitDecidedValue(v) ==
    /\ chain' = Append(chain, v)
    /\ last' = v.height

\* With a bug: one more than the maximum fits.
HasRoomForOneMore == Cardinality(Buffered) <= MaxBuffered

\* process_decided_value buffers a value only below the maximum.
HasRoom == Cardinality(Buffered) < MaxBuffered

\* ProcessDecidedValue: process_decided_value up to the loop over the
\* buffered values.
ProcessDecidedValue ==
    /\ ~draining
    /\ hostMail # << >>
    /\ hostMail' = Tail(hostMail)
    /\ LET v == Head(hostMail)
       IN  \/ /\ ~v.accepted \/ v.height <= last
              /\ UNCHANGED <<chain, hostVars>>
           \/ /\ v.accepted
              /\ v.height > last + 1
              /\ buffer' = IF HasRoom THEN [buffer EXCEPT ![v.height] = v]
                                      ELSE buffer
              /\ UNCHANGED <<chain, last, draining>>
           \/ /\ v.accepted
              /\ v.height = last + 1
              /\ CommitDecidedValue(v)
              /\ draining' = TRUE
              /\ UNCHANGED buffer
    /\ UNCHANGED <<syncMail, syncVars, netVars, restarts>>

\* One turn of the loop of process_buffered_blocks, for its first height h.
\* A value that is too low is dropped.
DrainBuffered(h) ==
    /\ draining
    /\ h \in Buffered
    /\ \A g \in Buffered : h <= g
    /\ h <= last + 1
    /\ buffer' = [buffer EXCEPT ![h] = None]
    /\ IF h = last + 1 THEN CommitDecidedValue(buffer[h])
                       ELSE UNCHANGED <<chain, last>>
    /\ UNCHANGED <<draining, hostMail, syncMail, syncVars, netVars, restarts>>

\* With a bug: the loop ends although the next value is in the buffer.
DrainEndAtOnce ==
    /\ draining
    /\ draining' = FALSE
    /\ syncMail' = Append(syncMail, last)
    /\ UNCHANGED <<chain, last, buffer, hostMail, syncVars, netVars, restarts>>

\* With a bug: the sync actor is not told.
DrainEndSilent ==
    /\ draining
    /\ \A h \in Buffered : h > last + 1
    /\ draining' = FALSE
    /\ UNCHANGED <<chain, last, buffer, hostMail, syncMail, syncVars, netVars,
                   restarts>>

\* The loop ends at a gap or at an empty buffer.  At least one value was
\* committed, so the host tells the sync actor.
DrainEnd ==
    /\ draining
    /\ \A h \in Buffered : h > last + 1
    /\ draining' = FALSE
    /\ syncMail' = Append(syncMail, last)
    /\ UNCHANGED <<chain, last, buffer, hostMail, syncVars, netVars, restarts>>

-----------------------------------------------------------------------------
(***************************************************************************)
(* ReadSync.  Each handler ends by requesting the next height if the sync  *)
(* state machine asks for it.                                              *)
(***************************************************************************)

\* The sync state machine requests a height once, from a peer that has it.
RequestValue(h, stat, pend) ==
    IF h # 0 /\ h \notin pend /\ h <= stat
    THEN /\ pending' = pend \cup {h}
         /\ outstanding' = outstanding \cup {h}
    ELSE /\ pending' = pend
         /\ UNCHANGED outstanding

\* Decided: UpdateHeight, then StartHeight.
SyncDecided ==
    /\ syncMail # << >>
    /\ LET h == Head(syncMail)
       IN  /\ tip' = h
           /\ syncHeight' = h + 1
           /\ RequestValue(h + 1, status, pending \ {h})
    /\ syncMail' = Tail(syncMail)
    /\ UNCHANGED <<chain, hostVars, hostMail, status, connected, synced,
                   peerTip, restarts>>

\* A status of the peer, ignored unless it is connected.
SyncStatus ==
    /\ connected
    /\ status' = peerTip
    /\ IF peerTip > tip
       THEN RequestValue(syncHeight, peerTip, pending)
       ELSE UNCHANGED <<pending, outstanding>>
    /\ UNCHANGED <<chain, hostVars, hostMail, syncMail, syncHeight, tip,
                   connected, synced, peerTip, restarts>>

\* A response, possibly after its request timed out.  The value goes to the
\* host; then the end of the initial sync is looked for.
SyncResponse(h) ==
    /\ h \in outstanding
    /\ Len(hostMail) <= MaxMail
    /\ hostMail' = Append(hostMail, [height |-> h, accepted |-> TRUE])
    /\ outstanding' = outstanding \ {h}
    /\ pending' = pending \ {h}
    /\ synced' = (synced \/ (status # 0 /\ status < syncHeight + SyncThreshold))
    /\ UNCHANGED <<chain, hostVars, syncMail, syncHeight, tip, status,
                   connected, peerTip, restarts>>

\* With a bug: the request stays pending after its timeout.
SyncTimeoutKeepsPending(h) ==
    /\ h \in pending
    /\ UNCHANGED vars

\* TimeoutElapsed: the request may be made again at the next status.
SyncTimeout(h) ==
    /\ h \in pending
    /\ pending' = pending \ {h}
    /\ UNCHANGED <<chain, hostVars, hostMail, syncMail, syncHeight, tip,
                   status, connected, synced, netVars, restarts>>

PeerConnected ==
    /\ ~connected
    /\ connected' = TRUE
    /\ UNCHANGED <<chain, hostVars, hostMail, syncMail, syncHeight, tip,
                   pending, status, synced, netVars, restarts>>

PeerDisconnected ==
    /\ connected
    /\ connected' = FALSE
    /\ status' = 0
    /\ UNCHANGED <<chain, hostVars, hostMail, syncMail, syncHeight, tip,
                   pending, synced, netVars, restarts>>

-----------------------------------------------------------------------------
(***************************************************************************)
(* The peers, the network and the process.                                 *)
(***************************************************************************)

\* The validators decide the next height.
PeersDecide ==
    /\ peerTip < MaxHeight
    /\ peerTip' = peerTip + 1
    /\ UNCHANGED <<chain, hostVars, hostMail, syncMail, syncVars, outstanding,
                   restarts>>

\* Gossip delivers a decided value, again or out of order, or one that does
\* not pass verification.
Gossip(v) ==
    /\ synced
    /\ v.height <= peerTip
    /\ Len(hostMail) < MaxMail
    /\ hostMail' = Append(hostMail, v)
    /\ UNCHANGED <<chain, hostVars, syncMail, syncVars, netVars, restarts>>

LoseRequest(h) ==
    /\ h \in outstanding
    /\ outstanding' = outstanding \ {h}
    /\ UNCHANGED <<chain, hostVars, hostMail, syncMail, syncVars, peerTip,
                   restarts>>

\* The process stops at any point, also inside the loop over the buffer,
\* and starts again with fresh actors: initialize_height takes the height
\* from the store and Started tells the sync actor.  Late answers to its
\* requests do not reach it.
Restart ==
    /\ restarts < MaxRestarts
    /\ restarts' = restarts + 1
    /\ last' = ConfirmedHeight
    /\ buffer' = [h \in Height |-> None]
    /\ draining' = FALSE
    /\ hostMail' = << >>
    /\ syncMail' = <<ConfirmedHeight>>
    /\ syncHeight' = 0
    /\ tip' = 0
    /\ pending' = {}
    /\ status' = 0
    /\ connected' = FALSE
    /\ synced' = FALSE
    /\ outstanding' = {}
    /\ UNCHANGED <<chain, peerTip>>

Host == ProcessDecidedValue \/ (\E h \in Height : DrainBuffered(h)) \/ DrainEnd

Next ==
    \/ ProcessDecidedValue
    \/ \E h \in Height : DrainBuffered(h)
    \/ DrainEnd
    \/ SyncDecided
    \/ SyncStatus
    \/ \E h \in Height : SyncResponse(h) \/ SyncTimeout(h) \/ LoseRequest(h)
    \/ PeerConnected
    \/ PeerDisconnected
    \/ PeersDecide
    \/ \E v \in Value : Gossip(v)
    \/ Restart

(***************************************************************************)
(* Actors take the messages of their mailboxes; request timers fire; peers *)
(* reconnect.  A node that is connected again and again gets a status      *)
(* (peers broadcast one every few seconds) and of the requests it repeats  *)
(* one is answered in the end.                                             *)
(***************************************************************************)
Fairness ==
    /\ WF_vars(Host)
    /\ WF_vars(SyncDecided)
    /\ WF_vars(PeerConnected)
    /\ SF_vars(SyncStatus)
    /\ \A h \in Height : SF_vars(SyncResponse(h)) /\ WF_vars(SyncTimeout(h))

Spec == Init /\ [][Next]_vars

FairSpec == Spec /\ Fairness
-----------------------------------------------------------------------------
(***************************************************************************)
(* Properties.                                                             *)
(***************************************************************************)

TypeOK ==
    /\ chain \in Seq(Value)
    /\ last \in 0..MaxHeight
    /\ buffer \in [Height -> Value \cup {None}]
    /\ draining \in BOOLEAN
    /\ hostMail \in Seq(Value)
    /\ syncMail \in Seq(0..MaxHeight)
    /\ syncHeight \in 0..(MaxHeight + 1)
    /\ tip \in 0..MaxHeight
    /\ pending \subseteq Height
    /\ status \in 0..MaxHeight
    /\ connected \in BOOLEAN
    /\ synced \in BOOLEAN
    /\ peerTip \in 0..MaxHeight
    /\ outstanding \subseteq Height
    /\ restarts \in 0..MaxRestarts

\* The store holds the decided values of heights 1, 2, ..., last, each once
\* and each verified, whatever order, repetition and restarts deliver them
\* in (process_decided_value, process_buffered_blocks).
CommittedInOrder ==
    /\ Len(chain) = last
    /\ \A i \in 1..Len(chain) : chain[i].height = i /\ chain[i].accepted

\* Between messages, what is buffered lies behind a gap: a value the node
\* could commit is never left waiting in the buffer.  Values are under
\* their own height and verified, as they are not checked again.
BufferBehindGap ==
    /\ ~draining => \A h \in Buffered : h > last + 1
    /\ \A h \in Buffered : buffer[h].height = h /\ buffer[h].accepted

\* The buffer never exceeds max_num_buffered_blocks.
BufferBounded == Cardinality(Buffered) <= MaxBuffered

\* Between messages, the sync actor asks for the height after the last
\* committed one or has a message in its mailbox that will make it do so.
SyncFollowsHost ==
    ~draining =>
        IF syncMail = << >> THEN syncHeight = last + 1
                            ELSE syncMail[Len(syncMail)] = last

\* Again and again the read node has committed every height the validators
\* have decided, although gossip and requests are lost, full buffers drop
\* values and the node restarts (read_sync.rs, process_decided_value).
CatchesUp == []<>(last >= peerTip)
=============================================================================
