----------------------------- MODULE MCNetwork -----------------------------
(* One run over ten components that share no state: each initial state      *)
(* picks one of them, and only that one takes steps.                         *)
EXTENDS LightClient, NanoClient, PeerStore, Gossip, ChainSync,
        Relay, StfWitness, FoldCertificates

CONSTANTS v1, v2, v3, v4, v5, pa, pb, pc, s1, s2, n1, n2, n3, h0, r0, r1
VARIABLE part

vars == <<part, lightVars, nanoVars, peerVars, gossipVars, rpcVars, syncVars,
          relayVars, intakeVars, stfVars, foldVars>>

-----------------------------------------------------------------------------
(* Instances.                                                                *)

First == {v1, v2, v3}
Second == {v2, v3, v4}
MCSetAt == <<First, First, First, First, Second>>
MCPower == [v \in {v1, v2, v3, v4, v5} |-> IF v = v1 THEN 2 ELSE 1]
MCRivalVotes == [h \in 1..5 |-> IF h < 5 THEN {v2, v3} ELSE {v4}]
MCEpochEnds == <<2, 4, 5>>

MCBootstrapPeers == [x \in {pa} |-> s1]
MCBannedThreshold == -2

MCLimit == [e \in {"headers"} |-> 2]

\* One peer has the whole chain, one a block that lost its view and fewer
\* blocks than it reports, one a block whose state root does not match.
MCServed ==
    [x \in {n1, n2, n3} |->
        CASE x = n1 -> [i \in 1..5 |-> SyncBlock(i, 0, TRUE)]
          [] x = n2 -> [i \in 1..3 |-> SyncBlock(i, IF i = 3 THEN 1 ELSE 0, TRUE)]
          [] x = n3 -> [i \in 1..2 |-> SyncBlock(i, 0, i = 1)]]
MCReported == [x \in {n1, n2, n3} |-> IF x = n3 THEN 3 ELSE 5]
MCBanThreshold == -2

\* A reveal of a commitment and two transactions, one of the same sender.
Item(kind, id, sender, commit) ==
    [kind |-> kind, id |-> id, sender |-> sender, funded |-> TRUE, commit |-> commit]
MCItems == {Item("tx", 1, pa, 0), Item("tx", 2, pb, 0), Item("commit", 3, pa, 0), Item("reveal", 4, pa, 3)}
MCRelayBudgets == {[events |-> 4, seconds |-> 0], [events |-> 3, seconds |-> 2]}

\* A block and its child, one that does not validate, and one of each other
\* payload, one of them garbled.
Payload(kind, id, parent, decodes, genuine) ==
    [kind |-> kind, id |-> id, parent |-> parent, decodes |-> decodes, genuine |-> genuine]
MCPayloads ==
    {Payload("block", 1, 0, TRUE, TRUE), Payload("block", 2, 1, TRUE, TRUE),
     Payload("block", 3, 0, TRUE, FALSE), Payload("qc", 4, 0, TRUE, TRUE),
     Payload("commit", 5, 0, TRUE, TRUE), Payload("reveal", 6, 5, TRUE, TRUE),
     Payload("tx", 7, 0, FALSE, TRUE), Payload("vote", 8, 0, TRUE, TRUE),
     Payload("tx", 9, 0, TRUE, TRUE)}
MCGossipLinks == {<<pa, pb>>}
MCIntakeBudgets == {[sent |-> 2, repeats |-> 2]}

\* Three blocks of height 1: an empty one and two with transactions.
ZkTx(id, kind, own, limit, used) ==
    [id |-> id, kind |-> kind, signed |-> TRUE, own |-> own, limit |-> limit, used |-> used]
ZkBlock(after, txs) ==
    [height |-> 1, parent |-> h0, before |-> r0, after |-> after, beacon |-> 1, txs |-> txs]
Native == ZkTx(1, "native", TRUE, 2, 1)
Foreign == ZkTx(2, "ethereum", FALSE, 2, 2)
MCZkBlocks == {ZkBlock(r0, <<>>), ZkBlock(r1, <<Native, Foreign>>), ZkBlock(r1, <<Foreign>>)}
Opened(x) == [root |-> r0, opening |-> x]
MCTraceOptions ==
    {[reads |-> 0, writes |-> 1, proofs |-> <<Opened("valid")>>],
     [reads |-> 1, writes |-> 0, proofs |-> <<Opened("empty")>>]}
MCCommitRank(nonce, id) == (nonce + id) % 3
MCDraw(seed, i) == seed[2] + i

\* The keys of the second setup do not fit the digest, those of the first do.
MCCheckpoints == {[root |-> i, hash |-> i, height |-> i] : i \in 1..3}
MCElement(setup, layer) ==
    CASE setup = 1 -> IF layer = "A" THEN 1 ELSE 2
      [] OTHER -> IF layer = "A" THEN 5 ELSE 7

-----------------------------------------------------------------------------

LightIdle ==
    /\ latestHeader = Block(0) /\ verifiedHeaders = <<Block(0)>> /\ trustedSet = First
    /\ trackedPeer = CHOOSE x \in FullNodes : TRUE
    /\ syncPeer = trackedPeer
    /\ syncLoop = [x \in Callers |-> {}]
    /\ query = [height |-> 0, answer |-> {}]
NanoIdle ==
    /\ currentEpoch = 0 /\ activeSet = First /\ headerBuffer = <<>>
    /\ latestVerified = NoHeader /\ anchor = 0 /\ rotatedAlone = FALSE

MCInit ==
    /\ part \in {"light", "nano", "peers", "gossip", "rpc", "sync", "relay", "intake", "stf", "fold"}
    /\ IF part = "light" THEN LightInit ELSE LightIdle
    /\ IF part = "nano" THEN NanoInit ELSE NanoIdle
    /\ PeersInit /\ GossipInit /\ RpcInit /\ SyncInit
    /\ part # "sync" => setRow = "absent"
    /\ RelayInit /\ (part # "relay" => left = CHOOSE x \in RelayBudgets : TRUE)
    /\ IntakeInit /\ (part # "intake" => intakeLeft = CHOOSE x \in IntakeBudgets : TRUE)
    /\ StfInit /\ (part # "stf" => engine = [mainnet |-> TRUE, sdk |-> TRUE])
    /\ FoldInit

MCNext ==
    \/ part = "light" /\ LightNext
       /\ UNCHANGED <<part, nanoVars, peerVars, gossipVars, rpcVars, syncVars,
                       relayVars, intakeVars, stfVars, foldVars>>
    \/ part = "nano" /\ NanoNext
       /\ UNCHANGED <<part, lightVars, peerVars, gossipVars, rpcVars, syncVars,
                       relayVars, intakeVars, stfVars, foldVars>>
    \/ part = "peers" /\ PeersNext
       /\ UNCHANGED <<part, lightVars, nanoVars, gossipVars, rpcVars, syncVars,
                       relayVars, intakeVars, stfVars, foldVars>>
    \/ part = "gossip" /\ GossipNext
       /\ UNCHANGED <<part, lightVars, nanoVars, peerVars, rpcVars, syncVars,
                       relayVars, intakeVars, stfVars, foldVars>>
    \/ part = "rpc" /\ RpcNext
       /\ UNCHANGED <<part, lightVars, nanoVars, peerVars, gossipVars, syncVars,
                       relayVars, intakeVars, stfVars, foldVars>>
    \/ part = "sync" /\ SyncNext
       /\ UNCHANGED <<part, lightVars, nanoVars, peerVars, gossipVars, rpcVars,
                       relayVars, intakeVars, stfVars, foldVars>>
    \/ part = "relay" /\ RelayNext
       /\ UNCHANGED <<part, lightVars, nanoVars, peerVars, gossipVars, rpcVars,
                       syncVars, intakeVars, stfVars, foldVars>>
    \/ part = "intake" /\ IntakeNext
       /\ UNCHANGED <<part, lightVars, nanoVars, peerVars, gossipVars, rpcVars,
                       syncVars, relayVars, stfVars, foldVars>>
    \/ part = "stf" /\ StfNext
       /\ UNCHANGED <<part, lightVars, nanoVars, peerVars, gossipVars, rpcVars,
                       syncVars, relayVars, intakeVars, foldVars>>
    \/ part = "fold" /\ FoldNext
       /\ UNCHANGED <<part, lightVars, nanoVars, peerVars, gossipVars, rpcVars,
                       syncVars, relayVars, intakeVars, stfVars>>

\* The listener task polls receive_message for as long as the node runs.
MCSpec ==
    /\ MCInit /\ [][MCNext]_vars
    /\ WF_gossipVars(part = "gossip" /\ ReceiveMessage)

\* Light and nano clients hold certified headers only, answer with the header
\* of the height asked for, and reach the epoch they verified.
ClientsFollowTheChain ==
    /\ part = "light" => HeaderChainCertified /\ AnswersMatchHeight
    /\ part = "nano" => NanoFollowsEpochs /\ TipReachesEpoch

\* Requests between nodes: peers are served within their limits, an awaited
\* answer is kept, and a node that catches up splits the gap without holes or
\* overlaps and stores certified blocks only.
SyncTrafficSound ==
    /\ part = "rpc" => ServedWithinTwiceLimit /\ AwaitedAnswerKept
    /\ part = "sync" => RoundsSplitTheGap /\ CertifiedPrefixStored

\* Gossip: an item is announced once, a peer is held to its rate, and a payload
\* reaches pools and consensus in order and without repetition.
GossipHandledOnce ==
    /\ part = "relay" => RelayedOnce /\ PeerRateHeld
    /\ part = "intake" => IntakeSound

\* Validity proofs and fold certificates: what verifies was proved of that very
\* block, and a certificate reaches back to the anchor.
ProofsBindTheirBlocks ==
    /\ part = "stf" => ProvenBlocksWereProved
    /\ part = "fold" => FoldsReachAnchor
=============================================================================
