------------------------------- MODULE Gossip -------------------------------
(***************************************************************************)
(* Gossip from the swarm to the node (crates/networking: the gossip event  *)
(* of p2p.rs, gossip.rs, receive_message).  A message passes a duplicate   *)
(* filter, a rate limit per sender, a validity check and a second          *)
(* duplicate cache, and waits in one of two queues for the node's listener *)
(* task.                                                                   *)
(***************************************************************************)
EXTENDS Integers, Sequences, SequencesExt, FiniteSetsExt, FiniteSets, Functions

CONSTANTS
    Senders,              \* propagation sources
    Votes,                \* messages of the consensus topics
    Txs,                  \* transactions and state sync
    Malformed,            \* undecodable, oversized, empty or on a wrong topic
    FilterCapacity,
    MessageCacheLimit,
    RateLimitMaxMessages,
    MaxConsensusQueue,
    MaxStandardQueue,
    MaxConsensusBurst

VARIABLES
    filter,               \* P2PNetwork.bloom_filter: newest last
    cachedHashes,         \* Gossip.cached_hashes; seen_messages holds the same
    window,               \* Gossip.peer_windows: messages in this second
    consensusQueue,
    standardQueue,
    burstCount,
    charged,              \* the sender that the last event penalised, if it did
    handed                \* what the listener task took

gossipVars == <<filter, cachedHashes, window, consensusQueue, standardQueue, burstCount,
                charged, handed>>

Gossiped == Votes \cup Txs \cup Malformed

-----------------------------------------------------------------------------

GossipInit ==
    /\ filter = <<>> /\ cachedHashes = <<>>
    /\ window = [p \in Senders |-> 0]
    /\ consensusQueue = <<>> /\ standardQueue = <<>> /\ burstCount = 0
    /\ charged = {} /\ handed = {}

Bounded(s, m, n) == IF Len(s) >= n THEN Append(Tail(s), m) ELSE Append(s, m)

Penalize(p) == charged' = {p}

\* deduplicate_messages and message_cache.
CacheMessage(m) == cachedHashes' = Bounded(cachedHashes, m, MessageCacheLimit)

QueueConsensus(p, m) ==
    IF Len(consensusQueue) >= MaxConsensusQueue
    THEN Penalize(p) /\ UNCHANGED consensusQueue
    ELSE consensusQueue' = Append(consensusQueue, m) /\ charged' = {}

QueueStandard(p, m) ==
    IF Len(standardQueue) >= MaxStandardQueue
    THEN Penalize(p) /\ UNCHANGED standardQueue
    ELSE standardQueue' = Append(standardQueue, m) /\ charged' = {}

\* Neither empty, nor too large, nor of a topic that is not subscribed to.
ValidateMessage(m) == m \notin Malformed

\* The filter has remembered the message before anything else is decided.  The
\* store of reputations is not attached to the gossip handler here, so a rate
\* violation costs the sender nothing; a malformed message does.
HandleMessage(p, m) ==
    IF ~ValidateMessage(m)
    THEN Penalize(p) /\ UNCHANGED <<window, cachedHashes, consensusQueue, standardQueue>>
    ELSE IF window[p] >= RateLimitMaxMessages
    THEN charged' = {} /\ UNCHANGED <<window, cachedHashes, consensusQueue, standardQueue>>
    ELSE /\ window' = [window EXCEPT ![p] = @ + 1]
         /\ IF Contains(cachedHashes, m)
            THEN /\ charged' = {}
                 /\ UNCHANGED <<cachedHashes, consensusQueue, standardQueue>>
            ELSE /\ CacheMessage(m)
                 /\ IF m \in Votes THEN QueueConsensus(p, m) /\ UNCHANGED standardQueue
                                   ELSE QueueStandard(p, m) /\ UNCHANGED consensusQueue

GossipEvent(p, m) ==
    /\ IF Contains(filter, m)
       THEN /\ charged' = {}
            /\ UNCHANGED <<filter, window, cachedHashes, consensusQueue, standardQueue>>
       ELSE /\ filter' = Bounded(filter, m, FilterCapacity)
            /\ HandleMessage(p, m)
    /\ UNCHANGED <<burstCount, handed>>

\* A second passes: every window is renewed by its next message.
RenewWindows ==
    /\ window' = [p \in Senders |-> 0]
    /\ UNCHANGED <<filter, cachedHashes, consensusQueue, standardQueue, burstCount, handed>>
    /\ charged' = {}

TakeConsensus ==
    /\ consensusQueue' = Tail(consensusQueue)
    /\ burstCount' = Min({burstCount + 1, MaxConsensusBurst})
    /\ handed' = handed \cup {Head(consensusQueue)}
    /\ UNCHANGED standardQueue

TakeStandard ==
    /\ standardQueue' = Tail(standardQueue)
    /\ burstCount' = 0
    /\ handed' = handed \cup {Head(standardQueue)}
    /\ UNCHANGED consensusQueue

\* Mutant: the standard queue has its turn only after a burst.
ReceiveAfterBurst ==
    /\ \/ /\ consensusQueue # <<>>
          /\ IF burstCount >= MaxConsensusBurst /\ standardQueue # <<>>
             THEN TakeStandard ELSE TakeConsensus
       \/ /\ consensusQueue = <<>>
          /\ burstCount' = 0
          /\ UNCHANGED <<consensusQueue, standardQueue, handed>>
    /\ UNCHANGED <<filter, cachedHashes, window>>
    /\ charged' = {}

\* receive_message, polled by the listener task.  The counter saturates; it is
\* only compared with the burst limit.
ReceiveMessage ==
    /\ \/ /\ consensusQueue # <<>>
          /\ IF burstCount >= MaxConsensusBurst /\ standardQueue # <<>>
             THEN TakeStandard ELSE TakeConsensus
       \/ consensusQueue = <<>> /\ standardQueue # <<>> /\ TakeStandard
       \/ /\ consensusQueue = <<>> /\ standardQueue = <<>>
          /\ burstCount' = 0
          /\ UNCHANGED <<consensusQueue, standardQueue, handed>>
    /\ UNCHANGED <<filter, cachedHashes, window>>
    /\ charged' = {}

\* shutdown, then a new network service: nothing of this survives.
RestartGossip ==
    /\ filter' = <<>> /\ cachedHashes' = <<>> /\ window' = [p \in Senders |-> 0]
    /\ consensusQueue' = <<>> /\ standardQueue' = <<>> /\ burstCount' = 0
    /\ charged' = {} /\ handed' = {}

GossipNext ==
    \/ \E p \in Senders, m \in Gossiped : GossipEvent(p, m)
    \/ RenewWindows \/ ReceiveMessage \/ RestartGossip

-----------------------------------------------------------------------------
(* Properties.                                                               *)

\* Whatever else arrives, and in whatever order, a queued transaction reaches
\* the node as long as the listener task keeps polling, unless the service is
\* shut down first.
QueuedIsTaken ==
    \A m \in Txs : Contains(standardQueue, m) ~> (m \in handed \/ standardQueue = <<>>)

-----------------------------------------------------------------------------
(* The typed entry points of the networking crate (gossip.rs and p2p.rs,     *)
(* receive_*_gossip_message): a payload from a peer is checked for           *)
(* duplicates, validated, handed to a pool or to consensus and, for a block  *)
(* or a certificate, sent on.  Several nodes run them over links that lose,  *)
(* duplicate and reorder; an outside peer sends anything.  The node's own    *)
(* loop takes its messages from the queues above instead.                   *)

CONSTANTS
    IntakeNodes,
    GossipLinks,          \* pairs of nodes that are connected
    Outside,        \* a peer that is not one of the nodes
    Payloads,       \* records kind, id, parent, decodes (and is well formed), genuine
    Genesis,        \* parent every node has
    CacheLimit,     \* MESSAGE_CACHE_LIMIT
    IntakeBudgets   \* bounds: payloads the outside peer sends, duplicated deliveries

(* The cache holds something, and what has the hash of a block's parent is *)
(* a block: the hashes of other payloads are of other preimages.           *)
ASSUME IntakeAssumption ==
    /\ CacheLimit \in Nat \ {0}
    /\ \A m, k \in Payloads : m.kind = "block" /\ m.parent = k.id => k.kind = "block"

VARIABLES
    flight,         \* payloads on their way
    seenHere,       \* node to the recent payloads it handled, oldest first
    pooled,         \* node to the payloads its pools hold
    consensusIn,    \* node to the payloads it handed to consensus, in order
    charges,        \* the penalty of the last payload: node, peer, class
    evicted,        \* ghost: payloads whose hash a full cache dropped
    intakeLeft      \* ghost: what remains of the budget

intakeVars == <<flight, seenHere, pooled, consensusIn, charges, evicted, intakeLeft>>

IntakeInit ==
    /\ flight = {} /\ charges = {} /\ evicted = {} /\ intakeLeft \in IntakeBudgets
    /\ seenHere = [n \in IntakeNodes |-> <<>>]
    /\ pooled = [n \in IntakeNodes |-> {}]
    /\ consensusIn = [n \in IntakeNodes |-> <<>>]

Neighbours(n) == {k \in IntakeNodes : <<n, k>> \in GossipLinks \/ <<k, n>> \in GossipLinks}
Ids(S) == {m.id : m \in S}

-----------------------------------------------------------------------------
(* What each kind of payload leads to.  A refusal is an error, for which     *)
(* the sender is charged; pools may refuse for reasons of their own.         *)

Refused == [class |-> "invalid", insert |-> FALSE, forward |-> FALSE, relay |-> FALSE]
KnownBlock == [class |-> "none", insert |-> FALSE, forward |-> FALSE, relay |-> FALSE]
Done(insert, forward, relay) ==
    [class |-> "none", insert |-> insert, forward |-> forward, relay |-> relay]

ReceiveTransaction(n, m, room) ==
    IF ~m.decodes \/ ~m.genuine THEN Refused
    ELSE IF m \in pooled[n] THEN KnownBlock
    ELSE IF room THEN Done(TRUE, FALSE, FALSE) ELSE Refused

ReceiveCommit(n, m, room) ==
    IF m.decodes /\ m.genuine /\ room THEN Done(TRUE, FALSE, FALSE) ELSE Refused

\* The pool knows a reveal only by the commit it opens.
ReceiveReveal(n, m, room) ==
    IF m.decodes /\ m.genuine /\ room /\ m.parent \in Ids(pooled[n])
    THEN Done(TRUE, FALSE, FALSE) ELSE Refused

\* Structure, parent, validator root, certificate and proof before the pool is
\* asked; the signature after it.
ParentAvailable(n, m) == m.parent = Genesis \/ m.parent \in Ids(pooled[n])
ReceiveBlockAgain(n, m, room) ==
    IF ~m.decodes \/ ~ParentAvailable(n, m) \/ ~m.genuine \/ ~room THEN Refused
    ELSE Done(TRUE, TRUE, TRUE)
ReceiveBlock(n, m, room) ==
    IF ~m.decodes \/ ~ParentAvailable(n, m) THEN Refused
    ELSE IF m \in pooled[n] THEN KnownBlock
    ELSE IF m.genuine /\ room THEN Done(TRUE, TRUE, TRUE) ELSE Refused

ReceiveVote(n, m, room) ==
    IF m.decodes /\ m.genuine /\ room THEN Done(FALSE, TRUE, FALSE) ELSE Refused

ReceiveQuorumCertificate(n, m, room) ==
    IF m.decodes /\ m.genuine /\ room THEN Done(FALSE, TRUE, TRUE) ELSE Refused

-----------------------------------------------------------------------------
(* A payload arrives.  Its hash is remembered before it is validated.        *)

Remember(n, m) ==
    IF Len(seenHere[n]) >= CacheLimit THEN Append(Tail(seenHere[n]), m)
                                      ELSE Append(seenHere[n], m)

\* penalize_peer_for_gossip_error, by the class of the error.
Charge(n, p, class) == charges' = IF class = "none" THEN {} ELSE {<<n, p, class>>}

Apply(n, m, out) ==
    /\ pooled' = [pooled EXCEPT ![n] = IF out.insert THEN @ \union {m} ELSE @]
    /\ consensusIn' = [consensusIn EXCEPT ![n] = IF out.forward THEN Append(@, m) ELSE @]

\* limited: the sender's messages of this second are used up.
Receive(kind, Outcome(_, _, _), f, stays, limited, room) ==
    /\ f \in flight /\ f.m.kind = kind
    /\ IF stays THEN /\ intakeLeft.repeats > 0
                     /\ intakeLeft' = [intakeLeft EXCEPT !.repeats = @ - 1]
                ELSE UNCHANGED intakeLeft
    /\ LET out == Outcome(f.to, f.m, room)
           gone == IF stays THEN flight ELSE flight \ {f}
       IN  IF limited \/ Contains(seenHere[f.to], f.m)
           THEN /\ Charge(f.to, f.from, IF limited THEN "rate" ELSE "duplicate")
                /\ flight' = gone
                /\ UNCHANGED <<seenHere, pooled, consensusIn, evicted>>
           ELSE /\ seenHere' = [seenHere EXCEPT ![f.to] = Remember(f.to, f.m)]
                /\ evicted' = evicted \union (ToSet(seenHere[f.to]) \ ToSet(Remember(f.to, f.m)))
                /\ Apply(f.to, f.m, out)
                /\ Charge(f.to, f.from, out.class)
                /\ flight' = gone \union
                       (IF out.relay THEN {[from |-> f.to, to |-> k, m |-> f.m] :
                                              k \in Neighbours(f.to) \ {f.from}}
                                     ELSE {})

ReceiveTransactionGossip(f, s, l, r) == Receive("tx", ReceiveTransaction, f, s, l, r)
ReceiveCommitGossip(f, s, l, r) == Receive("commit", ReceiveCommit, f, s, l, r)
ReceiveRevealGossip(f, s, l, r) == Receive("reveal", ReceiveReveal, f, s, l, r)
ReceiveBlockGossip(f, s, l, r) == Receive("block", ReceiveBlock, f, s, l, r)
ReceiveVoteGossip(f, s, l, r) == Receive("vote", ReceiveVote, f, s, l, r)
ReceiveQcGossip(f, s, l, r) == Receive("qc", ReceiveQuorumCertificate, f, s, l, r)

Inject(n, m) ==
    /\ intakeLeft.sent > 0
    /\ flight' = flight \union {[from |-> Outside, to |-> n, m |-> m]}
    /\ intakeLeft' = [intakeLeft EXCEPT !.sent = @ - 1]
    /\ charges' = {}
    /\ UNCHANGED <<seenHere, pooled, consensusIn, evicted>>

IntakeNext ==
    \/ \E n \in IntakeNodes, m \in Payloads : Inject(n, m)
    \/ \E f \in flight, stays, limited, room \in BOOLEAN :
          \/ ReceiveTransactionGossip(f, stays, limited, room)
          \/ ReceiveCommitGossip(f, stays, limited, room)
          \/ ReceiveRevealGossip(f, stays, limited, room)
          \/ ReceiveBlockGossip(f, stays, limited, room)
          \/ ReceiveVoteGossip(f, stays, limited, room)
          \/ ReceiveQcGossip(f, stays, limited, room)

-----------------------------------------------------------------------------
(* Whatever links lose, repeat and reorder, and however often the duplicate  *)
(* cache forgets: consensus gets every block once, after its parent; it gets *)
(* and a node sends on only what is genuine; and votes and certificates      *)
(* reach it again only when the cache has dropped them.                      *)
IntakeSound ==
    /\ \A n \in IntakeNodes :
          LET given == consensusIn[n] IN
          /\ \A a, b \in DOMAIN given :
                a # b /\ given[a] = given[b] => given[a].kind # "block" /\ given[a] \in evicted
          /\ \A a \in DOMAIN given :
                /\ given[a].genuine
                /\ given[a].kind = "block" /\ given[a].parent # Genesis =>
                       \E b \in 1..(a - 1) : given[b].id = given[a].parent
    /\ \A f \in flight : f.from # Outside => f.m.genuine /\ f.m.decodes
=============================================================================
