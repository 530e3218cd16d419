------------------------------- MODULE Gossip -------------------------------
(***************************************************************************)
(* The gossip task of one node (src/src/network/gossip.rs): connections to *)
(* bootstrap and discovered peers, the topics a node subscribes to and     *)
(* publishes on, and what it passes on to the actors of the node.          *)
(*                                                                         *)
(* The swarm and the other nodes are external: a dial succeeds or fails,   *)
(* peers connect on their own, any connection may close, and a peer may    *)
(* have several connections to the node.                                   *)
(***************************************************************************)
EXTENDS Integers, FiniteSets

CONSTANTS
    Peer,
    Bootstrap,     \* bootstrap_addrs, as the peers that listen there
    Announced,     \* contact infos: the peer, and whether its network and
                   \* protocol version are those of the node
    Autodiscovery, \* enable_autodiscovery
    Request,       \* ids of inbound sync requests
    MaxConns,      \* bound on the connections of a kind to a peer
    MaxCloses      \* bound on the connections that close

\* What the constants are.
GossipConstants ==
    /\ Bootstrap \subseteq Peer
    /\ Announced \subseteq [peer : Peer, sameNetwork : BOOLEAN, sameVersion : BOOLEAN]
    /\ MaxConns \in Nat
    /\ MaxCloses \in Nat

Role == {"validator", "read"}

VARIABLES
    role,          \* read_node
    topics,        \* the topics subscribed to
    dials,         \* dials in progress, as the peers
    conns,         \* open connections to each peer: dialed and accepted ones
    bootstraps,    \* connected_bootstrap_addrs
    told,          \* peers the actors of the node have been told of
    channels,      \* sync_channels
    statuses,      \* roles of the nodes whose statuses reached the actors
    closes

vars == <<role, topics, dials, conns, bootstraps, told, channels,
          statuses, closes>>

Kind == {"dialed", "accepted"}
ConnectedPeers == {p \in Peer : \E k \in Kind : conns[p][k] > 0}

\* create: the subscriptions, and a dial of every bootstrap peer.
InitialTopics(r) ==
    {"CONTACT_INFO"} \union
        (IF r = "read" THEN {"READ_NODE_PEER_STATUSES"}
                       ELSE {"CONSENSUS", "MEMPOOL"})

Init ==
    /\ role \in Role
    /\ topics = InitialTopics(role)
    /\ dials = Bootstrap
    /\ conns = [p \in Peer |-> [k \in Kind |-> 0]]
    /\ bootstraps = {}
    /\ told = {}
    /\ channels = {}
    /\ statuses = {}
    /\ closes = 0

-----------------------------------------------------------------------------
(***************************************************************************)
(* Connections.                                                            *)
(***************************************************************************)

\* With a bug: a node reconnects only when it has no peer at all.
ReconnectIfAlone ==
    /\ ConnectedPeers = {}
    /\ dials' = dials \union (Bootstrap \ bootstraps)
    /\ UNCHANGED <<role, topics, conns, bootstraps, told, channels,
                   statuses, closes>>

\* check_and_reconnect_to_bootstrap_peers, at every tick of its timer.
ReconnectTick ==
    /\ role = "validator" \/ Cardinality(ConnectedPeers) < Cardinality(Bootstrap)
    /\ dials' = dials \union (Bootstrap \ bootstraps)
    /\ UNCHANGED <<role, topics, conns, bootstraps, told, channels,
                   statuses, closes>>

\* ConnectionEstablished.
Established(p, k) ==
    /\ conns[p][k] < MaxConns
    /\ conns' = [conns EXCEPT ![p][k] = @ + 1]
    /\ told' = told \union {p}
    /\ bootstraps' = IF k = "dialed" /\ p \in Bootstrap THEN bootstraps \union {p}
                                                      ELSE bootstraps
    /\ UNCHANGED <<role, topics, channels, statuses, closes>>

DialSucceeds(p) ==
    /\ p \in dials
    /\ dials' = dials \ {p}
    /\ Established(p, "dialed")

DialFails(p) ==
    /\ p \in dials
    /\ dials' = dials \ {p}
    /\ UNCHANGED <<role, topics, conns, bootstraps, told, channels,
                   statuses, closes>>

\* A peer connects to the node.
PeerDials(p) == Established(p, "accepted") /\ UNCHANGED dials

\* With a bug: the address is kept.
CloseKeepsBootstrap(p, k) ==
    /\ closes < MaxCloses
    /\ conns[p][k] > 0
    /\ closes' = closes + 1
    /\ conns' = [conns EXCEPT ![p][k] = @ - 1]
    /\ told' = told \ {p}
    /\ UNCHANGED <<role, topics, dials, bootstraps, channels, statuses>>

\* ConnectionClosed: the actors are told that the peer is disconnected and
\* its address is forgotten, even when it has another connection.
ConnectionClosed(p, k) ==
    /\ closes < MaxCloses
    /\ conns[p][k] > 0
    /\ closes' = closes + 1
    /\ conns' = [conns EXCEPT ![p][k] = @ - 1]
    /\ told' = told \ {p}
    /\ bootstraps' = IF k = "dialed" THEN bootstraps \ {p} ELSE bootstraps
    /\ UNCHANGED <<role, topics, dials, channels, statuses>>

\* handle_contact_info: a read node dials a peer it has no connection to.
ContactInfo(i) ==
    /\ "CONTACT_INFO" \in topics
    /\ role = "read"
    /\ i.peer \notin ConnectedPeers
    /\ i.sameNetwork
    /\ i.sameVersion
    /\ Autodiscovery
    /\ dials' = dials \union {i.peer}
    /\ UNCHANGED <<role, topics, conns, bootstraps, told, channels,
                   statuses, closes>>

-----------------------------------------------------------------------------
(***************************************************************************)
(* Messages.                                                               *)
(***************************************************************************)

\* process_gossip_event: the topics an event of a node of role r goes to.
TopicsOf(event, r) ==
    CASE event = "DecidedValue" -> {"DECIDED_VALUES"}
      [] event \in {"SignedVote", "SignedProposal", "FullProposal"} -> {"CONSENSUS"}
      [] event = "MempoolMessage" -> {"MEMPOOL"}
      [] event = "Status" /\ r = "read" -> {"READ_NODE_PEER_STATUSES"}
      [] event = "Status" /\ r = "validator" ->
             {"CONSENSUS", "READ_NODE_PEER_STATUSES"}

\* A status of a node of role r arrives and is passed on to the actors
\* (map_gossip_bytes_to_system_message).
ReceiveStatus(r) ==
    /\ ConnectedPeers # {}
    /\ topics \intersect TopicsOf("Status", r) # {}
    /\ statuses' = statuses \union {r}
    /\ UNCHANGED <<role, topics, dials, conns, bootstraps, told, channels,
                   closes>>

\* SubscribeToDecidedValuesTopic: the initial sync of a read node is done.
SubscribeToDecidedValues ==
    /\ role = "read"
    /\ topics' = topics \union {"DECIDED_VALUES"}
    /\ UNCHANGED <<role, dials, conns, bootstraps, told, channels,
                   statuses, closes>>

\* An inbound sync request, and the reply of the actor.
SyncRequest(q) ==
    /\ ConnectedPeers # {}
    /\ channels' = channels \union {q}
    /\ UNCHANGED <<role, topics, dials, conns, bootstraps, told,
                   statuses, closes>>

SyncReply(q) ==
    /\ q \in channels
    /\ channels' = channels \ {q}
    /\ UNCHANGED <<role, topics, dials, conns, bootstraps, told,
                   statuses, closes>>

Next ==
    \/ ReconnectTick \/ SubscribeToDecidedValues
    \/ \E p \in Peer : DialSucceeds(p) \/ DialFails(p) \/ PeerDials(p)
    \/ \E p \in Peer, k \in Kind : ConnectionClosed(p, k)
    \/ \E i \in Announced : ContactInfo(i)
    \/ \E r \in Role : ReceiveStatus(r)
    \/ \E q \in Request : SyncRequest(q) \/ SyncReply(q)

Spec == Init /\ [][Next]_vars

\* The timer keeps ticking and a peer that is dialled again and again is
\* reached at last.
FairSpec ==
    /\ Spec
    /\ WF_vars(ReconnectTick)
    /\ \A p \in Bootstrap : SF_vars(DialSucceeds(p))

-----------------------------------------------------------------------------
(***************************************************************************)
(* Properties.                                                             *)
(***************************************************************************)

\* The comment in check_and_reconnect_to_bootstrap_peers: once connections
\* stop closing, a validator ends up connected to every bootstrap peer and a
\* read node to at least as many peers as there are bootstrap peers, although
\* a peer is forgotten when one of its two connections closes.
StaysConnected ==
    <>[](IF role = "validator" THEN Bootstrap \subseteq ConnectedPeers
         ELSE Cardinality(ConnectedPeers) >= Cardinality(Bootstrap))

\* The actors of a node count on no peer without a connection, and a
\* validator's actors hear of the heights of validators only, so that it
\* never syncs from a read node (process_gossip_event, ConnectionClosed).
ActorsHearOfPeers ==
    /\ told \subseteq ConnectedPeers
    /\ bootstraps \subseteq ConnectedPeers
    /\ role = "validator" => statuses \subseteq {"validator"}

=============================================================================
