----------------------------- MODULE PeerStore -----------------------------
(***************************************************************************)
(* The peers a node knows, their reputation and their bans                 *)
(* (crates/networking: peer.rs, and the events of p2p.rs that change it).  *)
(* A peer is in the store while it is connected; a banned peer stays in it *)
(* and its ban is also a row of the database.                              *)
(***************************************************************************)
EXTENDS Integers, FiniteSets, FiniteSetsExt

CONSTANTS
    PeerIds,
    Subnets,
    NoAddress,            \* the cleared address of a ban stub
    BootstrapPeers,       \* peer -> subnet of its configured address
    MaxPeers,
    MaxPeersPerSubnet,
    Penalties,            \* reputation lost for a rate violation, an invalid message
    BannedThreshold,
    BanDuration,
    MaxClock              \* bound: the clock stops here

VARIABLES
    peers,                \* PeerStore.peers: known peer -> [reputation, subnet]
    banRows,              \* peer_bans table: peer -> expiry
    wallClock,
    online                \* the network service runs

peerVars == <<peers, banRows, wallClock, online>>

-----------------------------------------------------------------------------

Known == DOMAIN peers
IsBanned(p) == p \in Known /\ peers[p].reputation <= BannedThreshold
ConnectedPeers == {p \in Known : ~IsBanned(p)}

Entry(r, s) == [reputation |-> r, subnet |-> s]
With(store, p, entry) == [q \in DOMAIN store \cup {p} |-> IF q = p THEN entry ELSE store[q]]
Without(f, S) == [q \in DOMAIN f \ S |-> f[q]]

CheckIpPrefixLimit(store, s) ==
    Cardinality({q \in DOMAIN store : store[q].subnet = s}) < MaxPeersPerSubnet

\* A known peer gets its new address, whatever its subnet; its reputation
\* stays.
AddPeer(store, p, s) ==
    IF p \in DOMAIN store THEN [store EXCEPT ![p].subnet = s]
    ELSE IF CheckIpPrefixLimit(store, s) THEN With(store, p, Entry(0, s))
    ELSE store

RemovePeerForgets(store, p) == Without(store, {p})

\* A banned peer is replaced by a stub that carries the ban.
RemovePeer(store, p) ==
    IF store[p].reputation <= BannedThreshold
    THEN [store EXCEPT ![p] = Entry(BannedThreshold, NoAddress)]
    ELSE Without(store, {p})

\* Lowest reputation first; the order of equals is the order they were last
\* seen in, which the store does not tell apart within a second.
Evictions(store) ==
    {E \in kSubset(Max({0, Cardinality(DOMAIN store) - MaxPeers}), DOMAIN store) :
        \A p \in E, q \in DOMAIN store \ E : store[p].reputation <= store[q].reputation}

Evicted(store, E) == FoldSet(LAMBDA p, acc : RemovePeer(acc, p), store, E)

PersistBan(p) == banRows' = With(banRows, p, wallClock + BanDuration)

-----------------------------------------------------------------------------
(* Start and stop.                                                           *)

Expired(p) == p \in DOMAIN banRows /\ wallClock > banRows[p]

\* Unexpired bans first, then the configured peers, each through add_peer.
LoadedBans == [p \in {q \in DOMAIN banRows : ~Expired(q)} |-> Entry(BannedThreshold, NoAddress)]
Bootstrapped(store) ==
    FoldSet(LAMBDA p, acc : AddPeer(acc, p, BootstrapPeers[p]), store, DOMAIN BootstrapPeers)

PeersInit ==
    /\ banRows = [p \in {} |-> 0]
    /\ wallClock = 0
    /\ online = TRUE
    /\ peers = Bootstrapped([p \in {} |-> 0])

Shutdown ==
    /\ online
    /\ online' = FALSE
    /\ peers' = [p \in {} |-> 0]
    /\ UNCHANGED <<banRows, wallClock>>

StartNetwork ==
    /\ ~online
    /\ online' = TRUE
    /\ banRows' = Without(banRows, {p \in DOMAIN banRows : Expired(p)})
    /\ peers' = Bootstrapped(LoadedBans)
    /\ UNCHANGED wallClock

-----------------------------------------------------------------------------
(* Connections.                                                              *)

DialPeer(p, s) ==
    /\ online
    /\ Cardinality(ConnectedPeers) < MaxPeers
    /\ ~IsBanned(p)
    /\ CheckIpPrefixLimit(peers, s)
    /\ LET store == AddPeer(peers, p, s)
       IN \E E \in Evictions(store) : peers' = Evicted(store, E)
    /\ UNCHANGED <<banRows, wallClock, online>>

ConnectionEstablished(p, s) ==
    /\ online
    /\ ~IsBanned(p)
    /\ Cardinality(ConnectedPeers) < MaxPeers
    /\ CheckIpPrefixLimit(peers, s)
    /\ peers' = AddPeer(peers, p, s)
    /\ UNCHANGED <<banRows, wallClock, online>>

MdnsKeepsAll(p, s) ==
    /\ online
    /\ peers' = AddPeer(peers, p, s)
    /\ UNCHANGED <<banRows, wallClock, online>>

MdnsDiscovered(p, s) ==
    /\ online
    /\ LET store == AddPeer(peers, p, s)
       IN \E E \in Evictions(store) : peers' = Evicted(store, E)
    /\ UNCHANGED <<banRows, wallClock, online>>

\* ConnectionClosed, and disconnect_peer of a known peer.
ConnectionClosed(p) ==
    /\ online /\ p \in Known
    /\ peers' = RemovePeer(peers, p)
    /\ UNCHANGED <<banRows, wallClock, online>>

-----------------------------------------------------------------------------
(* Reputation.                                                               *)

\* A peer that is not in the store cannot be penalised.
ApplyPenalty(p, amount) ==
    /\ online /\ p \in Known
    /\ LET lowered == peers[p].reputation - amount
       IN IF lowered <= BannedThreshold
          THEN /\ peers' = [peers EXCEPT ![p].reputation = BannedThreshold]
               /\ PersistBan(p)
          ELSE /\ peers' = [peers EXCEPT ![p].reputation = lowered]
               /\ UNCHANGED banRows
    /\ UNCHANGED <<wallClock, online>>

\* A peer that is not connected is banned through a stub.
BanPeer(p) ==
    /\ online
    /\ PersistBan(p)
    /\ peers' = IF p \in Known THEN [peers EXCEPT ![p].reputation = BannedThreshold]
                ELSE With(peers, p, Entry(BannedThreshold, NoAddress))
    /\ UNCHANGED <<wallClock, online>>

Forgiven(S) == [q \in Known |-> IF q \in S /\ IsBanned(q) THEN [peers[q] EXCEPT !.reputation = 0]
                                                          ELSE peers[q]]

UnbanPeer(p) ==
    /\ online
    /\ banRows' = Without(banRows, {p})
    /\ peers' = Forgiven({p})
    /\ UNCHANGED <<wallClock, online>>

PruneExpiredBans ==
    /\ online
    /\ LET expired == {p \in DOMAIN banRows : Expired(p)}
       IN /\ banRows' = Without(banRows, expired)
          /\ peers' = Forgiven(expired)
    /\ UNCHANGED <<wallClock, online>>

PeerTick ==
    /\ wallClock < MaxClock
    /\ wallClock' = wallClock + 1
    /\ UNCHANGED <<peers, banRows, online>>

PeersNext ==
    \/ Shutdown \/ StartNetwork \/ PruneExpiredBans \/ PeerTick
    \/ \E p \in PeerIds, s \in Subnets :
          DialPeer(p, s) \/ ConnectionEstablished(p, s) \/ MdnsDiscovered(p, s)
    \/ \E p \in PeerIds : ConnectionClosed(p) \/ BanPeer(p) \/ UnbanPeer(p)
    \/ \E p \in PeerIds, a \in Penalties : ApplyPenalty(p, a)

-----------------------------------------------------------------------------
(* Properties.                                                               *)

\* remove_peer, add_peer and load_bans_from_db: a ban that has neither expired
\* nor been lifted is in force in memory, through every disconnect, reconnect,
\* eviction and restart.
BanHolds ==
    online => \A p \in DOMAIN banRows : ~Expired(p) => IsBanned(p)

\* evict_peers counts ban stubs against the limit but can drop none of them:
\* a step that admits a peer still never leaves more than max_peers connected,
\* and it evicts a connected peer only if that many remain.
AdmissionWithinLimit ==
    [][LET before == Cardinality(ConnectedPeers)
           after == Cardinality(ConnectedPeers')
       IN ConnectedPeers' \ Known # {} /\ online =>
             /\ after <= MaxPeers
             /\ ConnectedPeers \ ConnectedPeers' # {} => after = MaxPeers]_peerVars
=============================================================================
