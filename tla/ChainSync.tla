----------------------------- MODULE ChainSync ------------------------------
(***************************************************************************)
(* Catching up with the chain: ChainSyncEngine (crates/networking:         *)
(* chain_sync.rs), which downloads ranges from several threads, and        *)
(* Node::synchronize_if_behind (crates/node: node.rs), which asks for one  *)
(* block after another.  Whoever answers serves the blocks it stored.      *)
(***************************************************************************)
EXTENDS Integers, Sequences, FiniteSets, FiniteSetsExt, SequencesExt

CONSTANTS
    Served,               \* peer -> the blocks it stored, by height
    Reported,             \* peer -> the height it reports
    SyncBatchSize,
    ParallelDownloads,
    InvalidBlockPenalty,
    BanThreshold,
    MaxRounds             \* bound on download rounds

VARIABLES
    chain,                \* local blocks, by height
    progress,             \* persisted sync progress
    peerPenalties,        \* ChainSyncEngine.peer_penalties
    bannedPeers,
    sync,                 \* the round in progress
    rounds,
    setRow                \* encoding of the persisted validator set, or absent

syncVars == <<chain, progress, peerPenalties, bannedPeers, sync, rounds, setRow>>

ServingPeers == DOMAIN Served

\* A batch holds a block at least, and parallel_downloads is clamped to 1..8.
ASSUME SyncAssumption ==
    /\ SyncBatchSize \in Nat \ {0} /\ ParallelDownloads \in Nat \ {0}
    /\ Reported \in [ServingPeers -> Nat]

\* A block is named by its height and fork; fork 0 is the certified chain.
\* Signature checks accept certified blocks and blocks nobody voted for fail;
\* a block with a wrong state root is found out by executing it.
SyncBlock(h, f, root) == [height |-> h, fork |-> f, rootMatches |-> root]
Tip == IF chain = <<>> THEN 0 ELSE Last(chain).height
Links(b) == b.height = Tip + 1 /\ (chain # <<>> => Last(chain).fork \in {0, b.fork})
AppliesCleanly(b) == Links(b) /\ b.fork = 0 /\ b.rootMatches

\* Consensus::persist_validator_set writes the canonical encoding, whose
\* lengths are varints; load_local_validators decodes bincode's default, whose
\* lengths are eight bytes, which only rows of older databases have.
SetEncodings == {"absent", "legacy", "canonical"}
LoadLocalValidators == setRow # "canonical"

\* authenticate_downloaded_block: a signature is looked for only when there is
\* a validator set to look it up in.
Authentic(b) == LoadLocalValidators /\ Links(b) /\ (setRow = "absent" \/ b.fork = 0)

Idle == [phase |-> "pick"]

SyncInit ==
    /\ chain = <<>> /\ progress = 0
    /\ peerPenalties = [p \in ServingPeers |-> 0]
    /\ bannedPeers = {}
    /\ sync = Idle /\ rounds = 0
    /\ setRow \in SetEncodings

\* query_peers_for_height, select_best_peer: of those that answer, the highest.
Best(p, answering) == p \in answering /\ \A q \in answering : Reported[q] <= Reported[p]

-----------------------------------------------------------------------------
(* The engine.                                                               *)

Ceil(a, b) == (a + b - 1) \div b

\* The chunks of fetch_all_parallel.
Ranges(from, to) ==
    LET total == to - from + 1
        chunk == Min({Max({SyncBatchSize, 1}), Ceil(total, ParallelDownloads)})
    IN [i \in 1..Ceil(total, chunk) |->
           [start |-> from + (i - 1) * chunk, end |-> Min({from + i * chunk - 1, to})]]

BeginRound(p, answering) ==
    /\ sync = Idle /\ rounds < MaxRounds
    /\ Best(p, answering) /\ Reported[p] > Tip
    /\ rounds' = rounds + 1
    /\ LET ranges == Ranges(Tip + 1, Reported[p])
       IN sync' = [phase |-> "fetch", peer |-> p, from |-> Tip + 1, ranges |-> ranges,
                   next |-> 1, slots |-> [i \in DOMAIN ranges |-> <<>>],
                   busy |-> {}, failed |-> FALSE]
    /\ UNCHANGED <<chain, progress, peerPenalties, bannedPeers, setRow>>

\* A worker takes the next range, unless another has failed.
TakeRange ==
    /\ sync.phase = "fetch" /\ ~sync.failed
    /\ sync.next <= Len(sync.ranges)
    /\ Cardinality(sync.busy) < ParallelDownloads
    /\ sync' = [sync EXCEPT !.next = @ + 1, !.busy = @ \cup {sync.next}]
    /\ UNCHANGED <<chain, progress, peerPenalties, bannedPeers, rounds, setRow>>

\* What the peer has of the range, or only the first n of it; a range above
\* the batch size is refused however often it is retried.
Answer(p, range, n) ==
    SelectSeq(Served[p], LAMBDA b : b.height \in range.start..Min({range.end, range.start + n}))

FinishRange(i, n) ==
    /\ sync.phase = "fetch" /\ i \in sync.busy
    /\ sync.ranges[i].end - sync.ranges[i].start + 1 <= SyncBatchSize
    /\ sync' = [sync EXCEPT !.busy = @ \ {i},
                            !.slots[i] = Answer(sync.peer, sync.ranges[i], n)]
    /\ UNCHANGED <<chain, progress, peerPenalties, bannedPeers, rounds, setRow>>

FailRange(i) ==
    /\ sync.phase = "fetch" /\ i \in sync.busy
    /\ sync' = [sync EXCEPT !.busy = @ \ {i}, !.failed = TRUE]
    /\ UNCHANGED <<chain, progress, peerPenalties, bannedPeers, rounds, setRow>>

ContinuousUnchecked(blocks, from) == TRUE

Continuous(blocks, from) == \A i \in DOMAIN blocks : blocks[i].height = from + i - 1

Fetched(s) ==
    SortSeq(FlattenSeq(s.slots), LAMBDA a, b : a.height < b.height)

\* All workers are back.  A failure or a gap ends the whole synchronisation.
JoinRound ==
    /\ sync.phase = "fetch" /\ sync.busy = {}
    /\ sync.failed \/ sync.next > Len(sync.ranges)
    /\ sync' = IF sync.failed \/ ~Continuous(Fetched(sync), sync.from) THEN Idle
               ELSE [phase |-> "apply", peer |-> sync.peer, blocks |-> Fetched(sync)]
    /\ UNCHANGED <<chain, progress, peerPenalties, bannedPeers, rounds, setRow>>

Penalized(p) == [peerPenalties EXCEPT ![p] = @ - InvalidBlockPenalty]

\* apply_block and its result: a block that fails ends the round and costs its
\* peer; a write that fails after the append ends the synchronisation before
\* progress is persisted.
ApplyBlock(stored) ==
    /\ sync.phase = "apply" /\ sync.blocks # <<>>
    /\ IF AppliesCleanly(Head(sync.blocks))
       THEN /\ chain' = Append(chain, Head(sync.blocks))
            /\ progress' = IF stored THEN Head(sync.blocks).height ELSE progress
            /\ sync' = IF stored THEN [sync EXCEPT !.blocks = Tail(@)] ELSE Idle
            /\ UNCHANGED <<peerPenalties, bannedPeers>>
       ELSE /\ peerPenalties' = Penalized(sync.peer)
            /\ bannedPeers' = IF Penalized(sync.peer)[sync.peer] <= BanThreshold
                              THEN bannedPeers \cup {sync.peer} ELSE bannedPeers
            /\ sync' = Idle
            /\ UNCHANGED <<chain, progress>>
    /\ UNCHANGED <<rounds, setRow>>

EndRound ==
    /\ sync.phase = "apply" /\ sync.blocks = <<>>
    /\ sync' = Idle
    /\ UNCHANGED <<chain, progress, peerPenalties, bannedPeers, rounds, setRow>>

-----------------------------------------------------------------------------
(* Node::synchronize_if_behind.                                              *)

BeginNodeSync(p, answering) ==
    /\ sync = Idle /\ rounds < MaxRounds
    /\ Best(p, answering) /\ Reported[p] > Tip
    /\ rounds' = rounds + 1
    /\ sync' = [phase |-> "node", peer |-> p, height |-> Tip + 1]
    /\ UNCHANGED <<chain, progress, peerPenalties, bannedPeers, setRow>>

\* One height: a request that fails, a missing block or one that does not
\* authenticate or execute ends the attempt; what was applied stays.
NodeSyncBlock(answered) ==
    /\ sync.phase = "node"
    /\ LET found == {b \in ToSet(Served[sync.peer]) :
                        answered /\ b.height = sync.height /\ Authentic(b) /\ b.rootMatches}
       IN IF found = {} THEN sync' = Idle /\ UNCHANGED chain
          ELSE /\ chain' = Append(chain, CHOOSE b \in found : TRUE)
               /\ sync' = IF sync.height = Reported[sync.peer] THEN Idle
                          ELSE [sync EXCEPT !.height = @ + 1]
    /\ UNCHANGED <<progress, peerPenalties, bannedPeers, rounds, setRow>>

SyncNext ==
    \/ \E answering \in SUBSET ServingPeers : \E p \in answering :
          BeginRound(p, answering) \/ BeginNodeSync(p, answering)
    \/ TakeRange \/ JoinRound \/ EndRound
    \/ sync.phase = "fetch" /\ \E i \in sync.busy :
          FailRange(i) \/ \E n \in 0..SyncBatchSize : FinishRange(i, n)
    \/ \E ok \in BOOLEAN : ApplyBlock(ok) \/ NodeSyncBlock(ok)

-----------------------------------------------------------------------------
(* Properties.                                                               *)

\* fetch_all_parallel: "Chunking now always yields legal ranges regardless of
\* gap size": the ranges of a round split the gap exactly, no range exceeds the
\* batch size, and whatever order the workers take and finish them in, each is
\* fetched once.
RoundsSplitTheGap ==
    sync.phase = "fetch" =>
        LET ranges == sync.ranges
        IN /\ \A i \in DOMAIN ranges : ranges[i].end - ranges[i].start < SyncBatchSize
           /\ UNION {ranges[i].start..ranges[i].end : i \in DOMAIN ranges}
                 = sync.from..Reported[sync.peer]
           /\ \A i, j \in DOMAIN ranges : i < j => ranges[i].end < ranges[j].start
           /\ sync.busy \subseteq 1..(sync.next - 1)

\* Where there is a validator set to check signatures against, what is stored
\* is a prefix of the certified chain, and a peer that stored only certified
\* blocks is never penalised, however its answers are cut short, reordered or
\* lost; progress never runs ahead of what is stored.
CertifiedPrefixStored ==
    /\ progress <= Len(chain)
    /\ setRow # "absent" =>
          /\ \A i \in DOMAIN chain : chain[i] = SyncBlock(i, 0, TRUE)
          /\ \A p \in ServingPeers :
                (\A i \in DOMAIN Served[p] : Served[p][i] = SyncBlock(i, 0, TRUE)) =>
                   peerPenalties[p] = 0

\* authenticate_downloaded_block: "every accepted block is signed by a known
\* validator and produces the header state root", and such a block is accepted:
\* when the peer answers with the certified next block, the node stores it.
CertifiedBlockAccepted ==
    [][(sync.phase = "node" /\ NodeSyncBlock(TRUE)
          /\ SyncBlock(sync.height, 0, TRUE) \in ToSet(Served[sync.peer])
          /\ Links(SyncBlock(sync.height, 0, TRUE)))
       => Len(chain') = Len(chain) + 1]_syncVars

-----------------------------------------------------------------------------
(***************************************************************************)
(* Requests between nodes (crates/networking: p2p.rs, rpc.rs).  As a       *)
(* server, a node limits what each peer may ask of each endpoint in a      *)
(* window of time.  As a client, it waits for one answer at a time, while  *)
(* answers to requests it gave up on, or never awaited, may still arrive.  *)
(***************************************************************************)

CONSTANTS
    Clients,              \* peers that send requests
    Limit,                \* endpoint -> requests per window
    WindowLength,         \* in ticks of the clock
    MaxRateLimitEntries,
    MaxTicks,             \* bound: the clock stops here
    MaxRequests,          \* bound on outbound requests
    MaxPendingResponses,
    StaleAfter            \* age at which an unclaimed answer is dropped

ASSUME TrafficAssumption ==
    /\ Limit \in [DOMAIN Limit -> Nat]
    /\ WindowLength \in Nat /\ MaxTicks \in Nat /\ MaxPendingResponses \in Nat

VARIABLES
    tick,
    windows,              \* endpoint -> client -> [start, count]
    grants,               \* endpoint -> client -> when it was served, since the
                          \*   window entry exists
    nextId,               \* id of the next outbound request
    unanswered,           \* outbound requests that may still be answered
    awaiting,             \* the id await_rpc_response waits for, as a set
    pendingResponses      \* pending_rpc_responses: id -> time it arrived

rpcVars == <<tick, windows, grants, nextId, unanswered, awaiting, pendingResponses>>

Endpoints == DOMAIN Limit
Nothing == [x \in {} |-> 0]
Set(f, x, v) == [y \in DOMAIN f \cup {x} |-> IF y = x THEN v ELSE f[y]]
Drop(f, S) == [y \in DOMAIN f \ S |-> f[y]]

RpcInit ==
    /\ tick = 0
    /\ windows = [e \in Endpoints |-> Nothing]
    /\ grants = [e \in Endpoints |-> [p \in Clients |-> <<>>]]
    /\ nextId = 1 /\ unanswered = {} /\ awaiting = {} /\ pendingResponses = Nothing

-----------------------------------------------------------------------------
(* The server side.                                                          *)

\* Windows of ten lengths ago go first, then an arbitrary one.
Pruned(w, p) ==
    IF p \in DOMAIN w \/ Cardinality(DOMAIN w) < MaxRateLimitEntries THEN {w}
    ELSE LET kept == Drop(w, {q \in DOMAIN w : tick - w[q].start >= 10 * WindowLength})
         IN IF Cardinality(DOMAIN kept) < MaxRateLimitEntries THEN {kept}
            ELSE {Drop(kept, {q}) : q \in DOMAIN kept}

Renewed(w, p) ==
    IF p \notin DOMAIN w \/ tick - w[p].start >= WindowLength
    THEN [start |-> tick, count |-> 0] ELSE w[p]

\* The four enforce_get_*_rate_limit.
ServedRequest(e, entry) == entry.count < Limit[e]
Counted(e, entry) == IF ServedRequest(e, entry) THEN [entry EXCEPT !.count = @ + 1] ELSE entry

\* handle_rpc_sync_request; a malformed header range is refused before it counts.
ServeRequest(e, p) ==
    /\ \E w \in Pruned(windows[e], p) :
          LET entry == Renewed(w, p)
          IN /\ windows' = [windows EXCEPT ![e] = Set(w, p, Counted(e, entry))]
             /\ grants' = [grants EXCEPT ![e] =
                   [q \in Clients |->
                       LET old == IF q \in DOMAIN w THEN grants[e][q] ELSE <<>>
                       IN IF q = p /\ ServedRequest(e, entry) THEN Append(old, tick) ELSE old]]
    /\ UNCHANGED <<tick, nextId, unanswered, awaiting, pendingResponses>>

\* ConnectionClosed forgets the client's windows.
ClientLeaves(p) ==
    /\ windows' = [e \in Endpoints |-> Drop(windows[e], {p})]
    /\ grants' = [e \in Endpoints |-> [grants[e] EXCEPT ![p] = <<>>]]
    /\ UNCHANGED <<tick, nextId, unanswered, awaiting, pendingResponses>>

-----------------------------------------------------------------------------
(* The client side.                                                          *)

\* send_rpc_request, then await_rpc_response; send_message does not await.
SendRequest(await) ==
    /\ awaiting = {} /\ nextId <= MaxRequests
    /\ nextId' = nextId + 1
    /\ unanswered' = unanswered \cup {nextId}
    /\ awaiting' = IF await THEN {nextId} ELSE {}
    /\ UNCHANGED <<tick, windows, grants, pendingResponses>>

Fresh(r) == Drop(r, {id \in DOMAIN r : tick - r[id] >= StaleAfter})

\* Stale answers are dropped, then an arbitrary one if the map is full.
Stored(id) ==
    LET kept == Fresh(pendingResponses)
    IN IF Cardinality(DOMAIN kept) >= MaxPendingResponses
       THEN {Set(Drop(kept, {victim}), id, tick) : victim \in DOMAIN kept}
       ELSE {Set(kept, id, tick)}

\* A request is answered at most once, or never.  A waiting loop looks for its
\* answer after every event.
ResponseArrives(id) ==
    /\ id \in unanswered
    /\ awaiting \cap DOMAIN pendingResponses = {}
    /\ unanswered' = unanswered \ {id}
    /\ pendingResponses' \in Stored(id)
    /\ UNCHANGED <<tick, windows, grants, nextId, awaiting>>

AwaitReturns ==
    /\ awaiting \cap DOMAIN pendingResponses # {}
    /\ pendingResponses' = Drop(pendingResponses, awaiting)
    /\ awaiting' = {}
    /\ UNCHANGED <<tick, windows, grants, nextId, unanswered>>

AwaitTimesOut ==
    /\ awaiting # {} /\ awaiting \cap DOMAIN pendingResponses = {}
    /\ awaiting' = {}
    /\ UNCHANGED <<tick, windows, grants, nextId, unanswered, pendingResponses>>

RpcTick ==
    /\ tick < MaxTicks
    /\ awaiting \cap DOMAIN pendingResponses = {}
    /\ tick' = tick + 1
    /\ UNCHANGED <<windows, grants, nextId, unanswered, awaiting, pendingResponses>>

\* A shut-down service has neither windows nor answers.
RpcShutdown ==
    /\ awaiting = {}
    /\ windows' = [e \in Endpoints |-> Nothing]
    /\ grants' = [e \in Endpoints |-> [p \in Clients |-> <<>>]]
    /\ unanswered' = {} /\ pendingResponses' = Nothing
    /\ UNCHANGED <<tick, nextId, awaiting>>

RpcNext ==
    \/ \E e \in Endpoints, p \in Clients : ServeRequest(e, p)
    \/ \E p \in Clients : ClientLeaves(p)
    \/ \E await \in BOOLEAN : SendRequest(await)
    \/ \E id \in unanswered : ResponseArrives(id)
    \/ AwaitReturns \/ AwaitTimesOut \/ RpcTick \/ RpcShutdown

-----------------------------------------------------------------------------
(* Properties.                                                               *)

\* The rate windows start at a peer's first request, not at fixed times: in
\* any stretch of one window length a connected peer is served at most twice
\* the limit, as long as its entry was not evicted.
ServedWithinTwiceLimit ==
    \A e \in Endpoints, p \in Clients, t \in 0..MaxTicks :
        Cardinality({i \in DOMAIN grants[e][p] :
                        grants[e][p][i] \in t..(t + WindowLength - 1)}) <= 2 * Limit[e]

\* pending_rpc_responses at its limit: an answer that arrived while it was
\* awaited is still there when the waiting loop looks for it, however many
\* answers nobody asks for fill the map.
AwaitedAnswerKept ==
    /\ Cardinality(DOMAIN pendingResponses) <= MaxPendingResponses
    /\ \A id \in awaiting \ unanswered : id \in DOMAIN pendingResponses
=============================================================================
