---------------------------- MODULE CommitReveal ----------------------------
(***************************************************************************)
(* The commit-reveal pool of a node (crates/mempool/src/ordering.rs) with  *)
(* the operations of Mempool and Node that drive it: wallet submissions,   *)
(* gossiped commits and reveals, block production with reservations,       *)
(* finalisation, chain synchronisation, crashes and restarts.              *)
(*                                                                         *)
(* The pool is behind one lock, so each of its operations is one action.   *)
(* A commit is identified by the commitment, the claimed sender and the    *)
(* height it names; the commitment determines the transaction, as          *)
(* SHA-256(reveal_nonce || tx_hash) does.  Only what the pool reads of the *)
(* chain is kept: the height, the nonces in the state rows, the block the  *)
(* rows hold and the block consensus has pending.                          *)
(***************************************************************************)
EXTENDS Integers, Sequences, FiniteSets, Functions

CONSTANTS Senders,
          Hashes,             \* commitments: commit_hash values
          Txs,
          None,
          TxOf,               \* the transaction a commitment hides
          SenderOf, NonceOf,  \* of a transaction
          Window,             \* reveal_window_blocks
          Expiry,             \* commit_expiry_blocks
          MaxPerSender,       \* max_commits_per_sender
          MaxPendingCommits,  \* MAX_PENDING_COMMITS
          NonceGap,           \* max_future_nonce_gap
          Limit,              \* MAX_BLOCK_PROPOSAL_TXS
          PrunePeriod,        \* the 64 of on_new_block
          PruneSlack,         \* the 64 of prune_seen_commits
          Foreign,            \* bound: transactions in blocks of other leaders
          Gossip,             \* bound: signed commits that arrive by RPC or gossip
          FirstHeight,        \* height of the chain in the initial state
          MaxHeight,          \* bound on the chain
          MaxProposals,       \* bound on the blocks this node builds per height
          MaxRestarts         \* bound on restarts

(* The orders in which a hash map may yield the elements of a finite set.  *)
Orders(S) == Injection(1 .. Cardinality(S), S)

ASSUME PoolAssumption ==
    /\ TxOf \in [Hashes -> Txs]
    /\ SenderOf \in [Txs -> Senders]
    /\ NonceOf \in [Txs -> Nat]
    /\ {Window, Expiry, MaxPerSender, MaxPendingCommits, NonceGap, Limit, PrunePeriod,
        PruneSlack, FirstHeight, MaxHeight, MaxProposals, MaxRestarts} \subseteq Nat
    /\ PrunePeriod > 0
    /\ Window > 0              \* NodeConfig::validate
    /\ FirstHeight <= MaxHeight
    /\ Foreign \subseteq Txs
    /\ None \notin [txs : Seq(Txs), valid : BOOLEAN]
    /\ Gossip \subseteq [hash : Hashes, sender : Senders, at : Nat]

VARIABLES
    \* CommitRevealPool, in memory
    height,          \* current_height
    pending,         \* pending_commits
    queued,          \* queued_reveals
    revealed,        \* revealed_txs; a pair is written as its commit
    reserved,        \* reserved_txs
    active,          \* active_reserved_hashes
    nextId,          \* next_reservation_id
    count,           \* sender_commit_count
    \* CommitRevealPool, in storage
    commitRows,      \* cr:commit: rows
    revealRows,      \* cr:reveal: rows
    seen,            \* cr:seen: rows
    \* the node around it
    serviceStarted,  \* the mempool service's task has run Mempool::start
    chain,           \* latest stored height
    rows,            \* account nonces in the state rows
    executed,        \* the unfinalised block the state rows include, if any
    candidate,       \* the block consensus has pending
    snapshot,        \* the head has a state snapshot
    finalised,       \* transactions of stored blocks
    \* history and bounds
    admitted,        \* commits insert_commit_locally accepted
    proposals, restarts

pool == <<height, pending, queued, revealed, reserved, active, nextId, count>>
durable == <<commitRows, revealRows, seen>>
node == <<serviceStarted, chain, rows, executed, candidate, snapshot, finalised>>
bounds == <<proposals, restarts>>
vars == <<pool, durable, node, admitted, bounds>>

Heights == 0 .. MaxHeight + 1

(* CommitTransaction; its id is a hash of all three fields.                *)
Commit(h, s, at) == [hash |-> h, sender |-> s, at |-> at]
Commits == [hash : Hashes, sender : Senders, at : Nat]

Tx(c) == TxOf[c.hash]
TxSender(c) == SenderOf[Tx(c)]

(* RevealTransaction, stored under its commit id.                          *)
Reveal(c, at) == [commit |-> c, at |-> at]

Deadline(c) == c.at + Window
IsExpired(c, h) == h > c.at + Window + Expiry

Owned(S, s) == {c \in S : c.sender = s}

Monus(a, b) == IF a > b THEN a - b ELSE 0

(* sender_commit_count after the commits of S are dropped one by one.      *)
CountWithout(S) == [s \in Senders |-> Monus(count[s], Cardinality(Owned(S, s)))]

Init ==
    /\ height = FirstHeight
    /\ pending = {} /\ queued = {} /\ revealed = <<>>
    /\ reserved = <<>> /\ active = {} /\ nextId = 1
    /\ count = [s \in Senders |-> 0]
    /\ commitRows = {} /\ revealRows = {} /\ seen = {}
    /\ serviceStarted = FALSE
    /\ chain = FirstHeight
    /\ rows = [s \in Senders |-> 0]
    /\ executed = None /\ candidate = None
    /\ snapshot = TRUE
    /\ finalised = {}
    /\ admitted = {}
    /\ proposals = 0 /\ restarts = 0

(***************************************************************************)
(* Commits.                                                                *)
(***************************************************************************)

(* insert_commit_locally, its refusals.                                    *)
Insertable(c) ==
    /\ Cardinality(pending) < MaxPendingCommits
    /\ c \notin seen
    /\ c.at <= height + 1
    /\ c.at + 1 >= height
    \* detect_front_running
    /\ ~\E d \in pending : d.hash = c.hash /\ d.sender # c.sender
    /\ count[c.sender] < MaxPerSender

InsertCommit(c) ==
    /\ Insertable(c)
    /\ commitRows' = commitRows \cup {c}
    /\ seen' = seen \cup {c}
    /\ count' = [count EXCEPT ![c.sender] = @ + 1]
    /\ pending' = pending \cup {c}
    /\ admitted' = admitted \cup {c}

(* TransactionValidator::verify_nonce_correctness.                         *)
NonceInRange(t) ==
    /\ rows[SenderOf[t]] <= NonceOf[t]
    /\ NonceOf[t] <= rows[SenderOf[t]] + NonceGap

(* The reveal nonce is drawn at random, so the commitment is a new one.    *)
Fresh(h) == \A c \in admitted \cup commitRows : c.hash # h

(* Mempool::submit_mev_protected_transaction.  The reveal is queued for    *)
(* the next height, in memory only; release_ready_reveals then finds       *)
(* nothing, as everything ready left the queue when the height was set.    *)
SubmitProtected(h) ==
    /\ Fresh(h)
    /\ NonceInRange(TxOf[h])
    /\ LET c == Commit(h, SenderOf[TxOf[h]], height)
       IN  /\ InsertCommit(c)
           /\ queued' = queued \cup {Reveal(c, height + 1)}
    /\ UNCHANGED <<height, revealed, reserved, active, nextId, revealRows, node, bounds>>

(* Mempool::submit_commit: anyone may sign a commit to any commitment, and *)
(* name any height.                                                        *)
SubmitCommit(c) ==
    /\ InsertCommit(c)
    /\ UNCHANGED <<height, queued, revealed, reserved, active, nextId, revealRows, node, bounds>>

(***************************************************************************)
(* Reveals.                                                                *)
(***************************************************************************)

(* CommitRevealPool::submit_reveal, its refusals, at height h with the     *)
(* commits of P pending.                                                   *)
Revealable(c, at, P, h) ==
    /\ c \in P
    /\ c.at <= h
    /\ h <= Deadline(c)
    /\ at <= Deadline(c)
    /\ c.sender = TxSender(c)

PutReveal(S, r) == {q \in S : q.commit # r.commit} \cup {r}

(* Mempool::submit_reveal.                                                 *)
SubmitReveal(c, at) ==
    /\ NonceInRange(Tx(c))
    /\ Revealable(c, at, pending, height)
    /\ revealRows' = PutReveal(revealRows, Reveal(c, at))
    /\ commitRows' = commitRows \ {c}
    /\ revealed' = Append(revealed, c)
    /\ count' = CountWithout({c})
    /\ pending' = pending \ {c}
    /\ UNCHANGED <<height, queued, reserved, active, nextId, seen, node, admitted, bounds>>

(***************************************************************************)
(* Block production: Node::produce_and_broadcast_block_proposal with       *)
(* build_block_transactions.                                               *)
(***************************************************************************)

(* The positions of revealed_txs whose transaction is not reserved.        *)
OpenSlots == {i \in DOMAIN revealed : Tx(revealed[i]) \notin active}

Chosen == {i \in OpenSlots : Cardinality({j \in OpenSlots : j <= i}) <= Limit}

(* The elements of a sequence at the positions in S, in their order.       *)
Pick(pairs, S) ==
    [k \in 1 .. Cardinality(S) |->
        pairs[CHOOSE i \in S : Cardinality({j \in S : j <= i}) = k]]

Remaining == Pick(revealed, DOMAIN revealed \ Chosen)

(* The pairs in an order randomize_ordering may give them, with the nonces *)
(* of each sender ascending over the slots it got.                         *)
Arrangements(pairs) ==
    {p \in {[i \in DOMAIN pairs |-> pairs[f[i]]] : f \in Bijection(DOMAIN pairs, DOMAIN pairs)} :
        \A i, j \in DOMAIN p : i < j /\ p[i].sender = p[j].sender =>
            NonceOf[Tx(p[i])] <= NonceOf[Tx(p[j])]}

TxsOf(pairs) == [i \in DOMAIN pairs |-> Tx(pairs[i])]

SentBefore(txs, s, i) == Cardinality({j \in DOMAIN txs : j < i /\ SenderOf[txs[j]] = s})

(* BlockExecutor::validate_transaction_batch: strictly sequential nonces.  *)
BatchValid(txs) ==
    \A i \in DOMAIN txs :
        NonceOf[txs[i]] = rows[SenderOf[txs[i]]] + SentBefore(txs, SenderOf[txs[i]], i)

Executed(txs) == [s \in Senders |-> rows[s] + SentBefore(txs, s, Len(txs) + 1)]

(* A block is valid for the others when it ran on the state of its parent. *)
Built(txs) == [txs |-> txs, valid |-> executed = None]

Reserve(pairs) ==
    /\ revealed' = Remaining
    /\ reserved' = IF pairs = <<>> THEN reserved
                   ELSE [i \in DOMAIN reserved \cup {nextId} |->
                            IF i = nextId THEN pairs ELSE reserved[i]]
    /\ active' = active \cup Range(TxsOf(pairs))

(* Mutant: the hashes stay marked as reserved.                             *)
ReleaseMarked(pairs) ==
    /\ revealed' = pairs \o Remaining
    /\ active' = active \cup Range(TxsOf(pairs))
    /\ UNCHANGED reserved

(* release_reserved_transactions, by the handler that made the reservation *)
Release(pairs) ==
    /\ revealed' = pairs \o Remaining
    /\ UNCHANGED <<reserved, active>>

Execute(txs) ==
    /\ BatchValid(txs)
    /\ rows' = Executed(txs)
    /\ executed' = Built(txs)

(* The block executes and the local consensus engine admits it.            *)
Propose(pairs) ==
    /\ Execute(TxsOf(pairs))
    /\ Reserve(pairs)
    /\ candidate' = executed'

(* The engine refuses the block: the reservation is released, and the      *)
(* rollback of the state rows restores nothing.                            *)
ProposalRefused(pairs) ==
    /\ Execute(TxsOf(pairs))
    /\ Release(pairs)
    /\ UNCHANGED candidate

(* The batch does not execute: the reservation is released.                *)
BatchFails(pairs) ==
    /\ ~BatchValid(TxsOf(pairs))
    /\ Release(pairs)
    /\ UNCHANGED <<rows, executed, candidate>>

(* Node::produce_and_broadcast_block_proposal.                             *)
Produce ==
    /\ proposals < MaxProposals
    /\ chain < MaxHeight
    /\ pending # {} \/ revealed # <<>>
    /\ \E pairs \in Arrangements(Pick(revealed, Chosen)) :
          /\ Propose(pairs) \/ ProposalRefused(pairs) \/ BatchFails(pairs)
          /\ nextId' = IF pairs = <<>> THEN nextId ELSE nextId + 1
    /\ proposals' = proposals + 1
    /\ UNCHANGED <<height, pending, queued, count, durable, serviceStarted, chain, snapshot,
                   finalised, admitted, restarts>>

(* Node::handle_network_block_proposal: a block of another leader runs on  *)
(* the state of its parent, and consensus admits it or not.                *)
ReceiveBlock(txs) ==
    /\ executed = None
    /\ chain < MaxHeight
    /\ Execute(txs)
    /\ candidate' \in {executed', None}
    /\ UNCHANGED <<pool, durable, serviceStarted, chain, snapshot, finalised, admitted, bounds>>

(***************************************************************************)
(* Finalisation: Node::handle_finalized_block, with                        *)
(* remove_transactions_after_block_commit and then on_block_height.        *)
(***************************************************************************)

InPool == Range(revealed) \cup UNION {Range(reserved[i]) : i \in DOMAIN reserved}

(* acknowledge_transactions: the commits whose rows it deletes, and the    *)
(* pairs it keeps.                                                         *)
Acknowledged(T) == {c \in InPool : Tx(c) \in T}
Kept(pairs, T) == {k \in DOMAIN pairs : Tx(pairs[k]) \notin T}
Unacknowledged(pairs, T) == Pick(pairs, Kept(pairs, T))
ReservedWithout(T) ==
    [i \in {j \in DOMAIN reserved : Kept(reserved[j], T) # {}} |->
        Unacknowledged(reserved[i], T)]

(* drop_unrevealed_commits.                                                *)
Expired(h) == {c \in pending : IsExpired(c, h)}

(* release_ready_reveals: what submit_reveal accepts; a reveal it refuses  *)
(* is dropped.                                                             *)
Released(h) == {q \in queued : /\ q.at <= h
                               /\ Revealable(q.commit, q.at, pending \ Expired(h), h)}

(* Mutant: every marker of a past height is pruned.                        *)
SeenAfterAll(h) == {c \in seen : c.at >= h}

(* prune_seen_commits.                                                     *)
SeenAfter(h) ==
    IF h % PrunePeriod = 0 /\ h > PrunePeriod
    THEN {c \in seen : c.at >= Monus(h, Window + Expiry + PruneSlack)}
    ELSE seen

StoreBlock ==
    /\ candidate # None
    /\ candidate.valid
    /\ chain' = chain + 1
    /\ finalised' = finalised \cup Range(candidate.txs)
    /\ candidate' = None

Finalise ==
    /\ StoreBlock
    /\ executed = candidate
    /\ LET h == chain + 1
           T == Range(candidate.txs)
           accepted == Released(h)
           promoted == {q.commit : q \in accepted}
       IN  /\ height' = h
           /\ pending' = (pending \ Expired(h)) \ promoted
           /\ queued' = {q \in queued : q.commit \notin Expired(h) /\ q.at > h}
           /\ count' = CountWithout(Expired(h) \cup promoted)
           /\ \E order \in Orders(promoted) :
                 revealed' = Unacknowledged(revealed, T) \o order
           /\ reserved' = ReservedWithout(T)
           /\ active' = active \ T
           /\ revealRows' = accepted \cup
                 {r \in revealRows : r.commit \notin Acknowledged(T) \cup promoted}
           /\ commitRows' = commitRows \ (Acknowledged(T) \cup Expired(h) \cup promoted)
           /\ seen' = SeenAfter(h)
    /\ executed' = None
    /\ snapshot' = TRUE
    /\ UNCHANGED <<nextId, serviceStarted, rows, admitted, bounds>>

(* The block was committed after the state rows had moved on to another:   *)
(* handle_finalized_block stops at the state root, before the mempool.     *)
FinaliseStale ==
    /\ StoreBlock
    /\ executed # candidate
    /\ snapshot' = FALSE
    /\ UNCHANGED <<pool, durable, serviceStarted, rows, executed, admitted, bounds>>

(* One block of Node::synchronize_if_behind: the pool hears nothing of it. *)
Synchronize(txs) ==
    /\ executed = None
    /\ chain < MaxHeight
    /\ BatchValid(txs)
    /\ rows' = Executed(txs)
    /\ chain' = chain + 1
    /\ finalised' = finalised \cup Range(txs)
    /\ snapshot' = FALSE
    /\ UNCHANGED <<pool, durable, serviceStarted, executed, candidate, admitted, bounds>>

(***************************************************************************)
(* Crash and restart: CommitRevealPool::new and restore_from_storage.      *)
(* Startup runs the restore once in bootstrap_node, once in Node::start    *)
(* and once in the task of the mempool service, which the runtime          *)
(* schedules when it likes.                                                *)
(***************************************************************************)

(* The pair of a reveal row: its commit, or one rebuilt from the reveal.   *)
RestoredPair(r, P) ==
    IF r.commit \in P THEN r.commit
    ELSE Commit(r.commit.hash, TxSender(r.commit), Monus(r.at, 1))

(* Mutant: a reveal row without its commit is skipped.                     *)
OnlyMatchedPairs(R, P) == Orders({r.commit : r \in R} \cap P)

RestoredPairs(R, P) ==
    {[i \in DOMAIN order |-> RestoredPair(order[i], P)] : order \in Orders(R)}

Matched(R, P) == {r.commit : r \in R} \cap P

RestoredCount(old, live, matched) ==
    [s \in Senders |->
        Monus(old[s] + Cardinality(Owned(live, s)), Cardinality(Owned(matched, s)))]

FinalNonces == [s \in Senders |-> Cardinality({t \in finalised : SenderOf[t] = s})]

(* The pool after a restart from commit rows C and reveal rows R: two      *)
(* passes, at height 0, where nothing counts as expired.                   *)
Recover(C, R) ==
    /\ restarts < MaxRestarts
    /\ restarts' = restarts + 1
    /\ height' = 0
    /\ LET matched == Matched(R, C)
           once == RestoredCount([s \in Senders |-> 0], C, matched)
       IN  /\ pending' = C \ matched
           /\ count' = RestoredCount(once, C, matched)
    /\ \E pairs \in RestoredPairs(R, C) : revealed' = pairs \o pairs
    /\ queued' = {} /\ reserved' = <<>> /\ active' = {} /\ nextId' = 1
    /\ commitRows' = C
    /\ revealRows' = R
    /\ serviceStarted' = FALSE
    /\ candidate' = None
    /\ executed' = IF snapshot THEN None ELSE executed
    /\ rows' = IF snapshot THEN FinalNonces ELSE rows
    /\ UNCHANGED <<seen, chain, snapshot, finalised, admitted, proposals>>

Restart == Recover(commitRows, revealRows)

(* A crash between the commit row and the seen row of an insertion.        *)
CrashInInsert(c) ==
    /\ Insertable(c)
    /\ Recover(commitRows \cup {c}, revealRows)

(* A crash between the reveal row and the removal of the commit row.       *)
CrashInReveal(c, at) ==
    /\ NonceInRange(Tx(c))
    /\ Revealable(c, at, pending, height)
    /\ Recover(commitRows, PutReveal(revealRows, Reveal(c, at)))

(* Mempool::start in the task of start_mempool_service.                    *)
ServiceStart ==
    /\ ~serviceStarted
    /\ serviceStarted' = TRUE
    /\ LET live == {c \in commitRows : ~IsExpired(c, height)}
           P == pending \cup live
           matched == Matched(revealRows, P)
       IN  /\ pending' = P \ matched
           /\ count' = RestoredCount(count, live, matched)
           /\ \E pairs \in RestoredPairs(revealRows, P) : revealed' = revealed \o pairs
           /\ commitRows' = live
    /\ UNCHANGED <<height, queued, reserved, active, nextId, revealRows, seen, chain, rows,
                   executed, candidate, snapshot, finalised, admitted, bounds>>

ForeignBodies == {<<>>} \cup {<<t>> : t \in Foreign}

Next ==
    \/ \E h \in Hashes : SubmitProtected(h)
    \/ \E c \in Gossip : SubmitCommit(c) \/ CrashInInsert(c)
    \/ \E c \in pending \cap Gossip, at \in {height, height + 1} :
          SubmitReveal(c, at) \/ CrashInReveal(c, at)
    \/ Produce
    \/ \E txs \in ForeignBodies : ReceiveBlock(txs) \/ Synchronize(txs)
    \/ Finalise
    \/ FinaliseStale
    \/ Restart
    \/ ServiceStart

Spec == Init /\ [][Next]_vars

(***************************************************************************)
(* Properties.                                                             *)
(***************************************************************************)

(* Types.  A pair in the revealed queue or in a reservation is always a    *)
(* commit of the transaction's own sender (verify_reveal_validity).        *)
TypeOK ==
    /\ height \in Heights /\ chain \in Heights
    /\ pending \subseteq Commits /\ commitRows \subseteq Commits /\ seen \subseteq Commits
    /\ queued \subseteq [commit : Commits, at : Nat]
    /\ revealRows \subseteq [commit : Commits, at : Nat]
    /\ InPool \subseteq {c \in Commits : c.sender = TxSender(c)}
    /\ DOMAIN reserved \subseteq 1 .. nextId - 1
    /\ active \subseteq Txs /\ finalised \subseteq Txs
    /\ count \in [Senders -> Nat] /\ rows \in [Senders -> Nat]
    /\ serviceStarted \in BOOLEAN /\ snapshot \in BOOLEAN

(* The hashes marked as reserved are those of the active reservations, and *)
(* no transaction is in two of them: what build_block_transactions relies  *)
(* on to keep a transaction out of two proposals, although restores put    *)
(* several copies of a pair in the queue and releases put pairs back.      *)
ReservationsExact ==
    /\ active = UNION {Range(TxsOf(reserved[i])) : i \in DOMAIN reserved}
    /\ \A i, j \in DOMAIN reserved :
          i # j => Range(TxsOf(reserved[i])) \cap Range(TxsOf(reserved[j])) = {}

(* A crash loses neither a pending commit nor a revealed transaction that  *)
(* is not on the chain: each pending commit has its row, each transaction  *)
(* in the pool a reveal row, and each reveal row its transaction in the    *)
(* pool, through the two-step writes of submit_reveal, the deletions of    *)
(* acknowledge_transactions and the restores.                              *)
PoolIsDurable ==
    /\ \A c \in pending : c \in commitRows \/ Tx(c) \in finalised
    /\ \A c \in InPool : \E r \in revealRows : Tx(r.commit) = Tx(c)
    /\ \A r \in revealRows :
          Tx(r.commit) \in finalised \/ \E c \in InPool : Tx(c) = Tx(r.commit)

(* The spam guard: a sender never has more than max_commits_per_sender     *)
(* commits pending, however the counter drifts over restores.              *)
PendingWithinLimit == \A s \in Senders : Cardinality(Owned(pending, s)) <= MaxPerSender

(* Replay protection: a commit that was accepted and is settled or expired *)
(* never becomes pending again, although prune_seen_commits forgets it and *)
(* a restart sets the height back to 0.  (A commit to height 0 or 1 is the *)
(* exception: at height 0 it is not stale.)                                *)
NoReplay ==
    [][\A c \in admitted : c.at > 1 /\ c \notin pending \cup commitRows => c \notin pending']_vars

(* "commit_ids pending per sender for spam limiting"                       *)
(* (crates/mempool/src/ordering.rs:295): the counter is the number of      *)
(* commits the sender has pending.                                         *)
SenderCountExact == \A s \in Senders : count[s] = Cardinality(Owned(pending, s))

(* The clean-up of handle_finalized_block "Prevents already-executed       *)
(* transactions from being re-selected in future block proposals"          *)
(* (crates/node/src/node.rs:1454): the pool no longer offers them.         *)
ExecutedNotReselected ==
    executed = None /\ height = chain =>
        \A i \in OpenSlots : Tx(revealed[i]) \notin finalised
=============================================================================
