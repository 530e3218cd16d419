---------------------------- MODULE GossipProofs ----------------------------
(***************************************************************************)
(* Proof that the actors of a node count only on peers with a connection,  *)
(* and that the actors of a validator hear of validators' heights only,    *)
(* for every set of peers, connections and announcements.                  *)
(***************************************************************************)
EXTENDS Gossip, TLAPS

\* The inductive invariant.  An address counts as connected as long as the
\* node has a connection it dialed: one that the peer opened is closed
\* without forgetting the address.  A validator never leaves or joins topics.
Inv ==
    /\ conns \in [Peer -> [Kind -> Nat]]
    /\ dials \subseteq Peer
    /\ told \subseteq ConnectedPeers
    /\ bootstraps \subseteq Bootstrap
    /\ \A p \in bootstraps : conns[p]["dialed"] > 0
    /\ role = "validator" => /\ topics = {"CONTACT_INFO", "CONSENSUS", "MEMPOOL"}
                             /\ statuses \subseteq {"validator"}

-----------------------------------------------------------------------------
\* Nobody is connected yet.
LEMMA InvInit == GossipConstants /\ Init => Inv
  BY DEF GossipConstants, Init, Inv, InitialTopics, ConnectedPeers

\* A new connection: the peer is connected, and dialed if it counts as a
\* bootstrap peer.
LEMMA EstablishedKeeps ==
  ASSUME GossipConstants, Inv, NEW p \in Peer, NEW k \in Kind, Established(p, k),
         dials' \subseteq Peer
  PROVE  Inv'
  <1>1. /\ conns' \in [Peer -> [Kind -> Nat]]
        /\ \A q \in Peer, j \in Kind : conns'[q][j] >= conns[q][j]
        /\ conns'[p][k] > 0
    BY DEF Inv, Established
  <1>2. told' \subseteq ConnectedPeers'
    BY <1>1 DEF Inv, Established, ConnectedPeers
  <1>3. bootstraps' \subseteq Bootstrap
    BY DEF Inv, Established
  <1>4. \A q \in bootstraps' : conns'[q]["dialed"] > 0
    <2> SUFFICES ASSUME NEW q \in bootstraps' PROVE conns'[q]["dialed"] > 0
      OBVIOUS
    <2>1. CASE q \in bootstraps
      BY <1>1, <1>3, <2>1 DEF Inv, GossipConstants, Kind
    <2>2. CASE q \notin bootstraps
      BY <1>1, <2>2 DEF Established
    <2>3. QED
      BY <2>1, <2>2
  <1>5. UNCHANGED <<role, topics, statuses>>
    BY DEF Established
  <1>6. QED
    BY <1>1, <1>2, <1>3, <1>4, <1>5 DEF Inv

\* A connection closes: the peer is forgotten by the actors, and its address
\* when the node had dialed it.
LEMMA ClosedKeeps ==
  ASSUME GossipConstants, Inv, NEW p \in Peer, NEW k \in Kind, ConnectionClosed(p, k)
  PROVE  Inv'
  <1>1. /\ conns' \in [Peer -> [Kind -> Nat]]
        /\ \A q \in Peer, j \in Kind :
               q # p \/ j # k => conns'[q][j] = conns[q][j]
    BY DEF Inv, ConnectionClosed
  <1>2. told' \subseteq ConnectedPeers'
    BY <1>1 DEF Inv, ConnectionClosed, ConnectedPeers
  <1>3. \A q \in bootstraps' : conns'[q]["dialed"] > 0
    BY <1>1 DEF Inv, ConnectionClosed, GossipConstants, Kind
  <1>4. bootstraps' \subseteq Bootstrap /\ UNCHANGED <<role, topics, dials, statuses>>
    BY DEF Inv, ConnectionClosed
  <1>5. QED
    BY <1>1, <1>2, <1>3, <1>4 DEF Inv

\* Every step keeps the invariant.
LEMMA InvNext == GossipConstants /\ Inv /\ [Next]_vars => Inv'
  <1> SUFFICES ASSUME GossipConstants, Inv, [Next]_vars PROVE Inv'
    OBVIOUS
  <1>1. CASE ReconnectTick
    BY <1>1 DEF Inv, ReconnectTick, GossipConstants, ConnectedPeers
  <1>2. CASE SubscribeToDecidedValues
    BY <1>2 DEF Inv, SubscribeToDecidedValues, ConnectedPeers
  <1>3. ASSUME NEW p \in Peer, DialSucceeds(p) \/ PeerDials(p) PROVE Inv'
    <2>1. dials' \subseteq Peer
      BY <1>3 DEF Inv, DialSucceeds, PeerDials
    <2>2. Established(p, "dialed") \/ Established(p, "accepted")
      BY <1>3 DEF DialSucceeds, PeerDials
    <2>3. QED
      BY <2>1, <2>2, EstablishedKeeps DEF Kind
  <1>4. ASSUME NEW p \in Peer, DialFails(p) PROVE Inv'
    BY <1>4 DEF Inv, DialFails, ConnectedPeers
  <1>5. ASSUME NEW p \in Peer, NEW k \in Kind, ConnectionClosed(p, k) PROVE Inv'
    BY <1>5, ClosedKeeps
  <1>6. ASSUME NEW i \in Announced, ContactInfo(i) PROVE Inv'
    BY <1>6 DEF Inv, ContactInfo, GossipConstants, ConnectedPeers
  <1>7. ASSUME NEW r \in Role, ReceiveStatus(r) PROVE Inv'
    <2>1. role = "validator" => r = "validator"
      BY <1>7 DEF Inv, ReceiveStatus, TopicsOf, Role
    <2>2. QED
      BY <1>7, <2>1 DEF Inv, ReceiveStatus, ConnectedPeers
  <1>8. ASSUME NEW q \in Request, SyncRequest(q) \/ SyncReply(q) PROVE Inv'
    BY <1>8 DEF Inv, SyncRequest, SyncReply, ConnectedPeers
  <1>9. CASE UNCHANGED vars
    BY <1>9 DEF Inv, vars, ConnectedPeers
  <1>10. QED
    BY <1>1, <1>2, <1>3, <1>4, <1>5, <1>6, <1>7, <1>8, <1>9 DEF Next

\* The actors of a node count on no peer without a connection, and those of a
\* validator never hear of a read node's height (ConnectionClosed,
\* process_gossip_event).
THEOREM ActorsAlwaysHearOfPeers == GossipConstants => (Spec => []ActorsHearOfPeers)
  <1> SUFFICES ASSUME GossipConstants PROVE Spec => []ActorsHearOfPeers
    OBVIOUS
  <1>1. Init => Inv
    BY InvInit
  <1>2. Inv /\ [Next]_vars => Inv'
    BY InvNext
  <1>3. Inv => ActorsHearOfPeers
    BY DEF Inv, ActorsHearOfPeers, ConnectedPeers, Kind, GossipConstants
  <1>4. QED
    BY <1>1, <1>2, <1>3, PTL DEF Spec
=============================================================================
